----------------------------- MODULE StorageProofs -----------------------------
(***************************************************************************)
(* Proofs about the files of a LevelDB database (db/db_impl.cc,            *)
(* db/version_set.cc): for any number of writes, crashes, failing file     *)
(* operations and compactions, any write_buffer_size and any options that  *)
(* satisfy Options, no file that is needed is deleted and later writes     *)
(* win; under the conditions of WritesSurvive acknowledged writes survive  *)
(* and the database implements KVStore.                                    *)
(***************************************************************************)
EXTENDS StorageInvariants, DataLemmas

USE DEF Given, history

-------------------------------------------------------------------------------
(* Reading a MANIFEST. *)

(* An edit takes a state of a MANIFEST to another. *)
LEMMA AppliedIsState ==
  ASSUME NEW s \in PartialState, NEW e \in EditRecord
  PROVE  Applied(s, e) \in PartialState
  BY DEF Applied, PartialState, EditRecord

(* What ReadManifest computes, record by record. *)
ReadsAs(f, records) ==
  /\ f[0] = Blank
  /\ \A i \in 1..Len(records) : f[i] = Applied(f[i - 1], records[i])

(* The recursion of ReadManifest has a solution, of which it is the last value. *)
LEMMA ManifestStates ==
  ASSUME NEW records \in Seq(EditRecord)
  PROVE  \E f \in [0..Len(records) -> PartialState] :
           ReadsAs(f, records) /\ ReadManifest(records) = f[Len(records)]
<1> DEFINE N == Len(records)
           h == [x \in PartialState \X (1..N) |-> Applied(x[1], records[x[2]])]
           Following(f) == [i \in 0..N |-> IF i = 0 THEN Blank ELSE Applied(f[i - 1], records[i])]
<1>1. N \in Nat /\ \A i \in 1..N : records[i] \in EditRecord  OBVIOUS
<1>2. h \in [PartialState \X (1..N) -> PartialState]
  <2>1. ASSUME NEW x \in PartialState \X (1..N) PROVE Applied(x[1], records[x[2]]) \in PartialState
    <3>1. x[1] \in PartialState /\ records[x[2]] \in EditRecord  BY <1>1
    <3> QED BY <3>1, AppliedIsState
  <2> QED BY <2>1
<1>3. Blank \in PartialState  BY DEF Blank, PartialState
<1>4. PICK f \in [0..N -> PartialState] : Approximates(f, N, Blank, h)
  <2> HIDE DEF N, h
  <2> QED BY <1>1, <1>2, <1>3, RecursionExists
<1>5. f[0] = Blank /\ \A i \in 1..N : f[i] = Applied(f[i - 1], records[i])
  <2>1. f[0] = Blank /\ \A i \in 1..N : f[i] = h[<<f[i - 1], i>>]  BY <1>4 DEF Approximates
  <2>2. ASSUME NEW i \in 1..N PROVE f[i] = Applied(f[i - 1], records[i])
    <3>1. f[i - 1] \in PartialState  OBVIOUS
    <3>2. <<f[i - 1], i>> \in PartialState \X (1..N)  BY <3>1
    <3>3. h[<<f[i - 1], i>>] = Applied(f[i - 1], records[i])  BY <3>2
    <3> HIDE DEF h
    <3> QED BY <2>1, <3>3
  <2> QED BY <2>1, <2>2
<1>6. f = Following(f)
  <2>1. ASSUME NEW i \in 0..N PROVE f[i] = Following(f)[i]
    <3>1. CASE i = 0
      BY <1>5, <3>1
    <3>2. CASE i # 0
      <4>1. i \in 1..N  BY <3>2
      <4> QED BY <1>5, <3>2, <4>1
    <3> QED BY <3>1, <3>2
  <2> HIDE DEF N, h
  <2> QED BY <2>1
<1> DEFINE g == CHOOSE upTo : upTo = Following(upTo)
<1>7. g = Following(g)  BY <1>6
<1>8. ReadManifest(records) = g[N]  BY Zenon DEF ReadManifest
<1> HIDE DEF g
<1>9. g[0] = Blank /\ \A i \in 1..N : g[i] = Applied(g[i - 1], records[i])
  <2>1. 0 \in 0..N /\ \A i \in 1..N : i \in 0..N /\ i # 0  BY <1>1
  <2>2. \A i \in 0..N : g[i] = IF i = 0 THEN Blank ELSE Applied(g[i - 1], records[i])  BY <1>7
  <2> QED BY <2>1, <2>2
<1> DEFINE T == {i \in Nat : i <= N => g[i] \in PartialState}
<1>10. Nat \subseteq T
  <2>1. 0 \in T  BY <1>3, <1>9
  <2>2. ASSUME NEW i \in Nat, i \in T PROVE i + 1 \in T
    <3> SUFFICES ASSUME i + 1 <= N PROVE g[i + 1] \in PartialState
      OBVIOUS
    <3>1. i + 1 \in 1..N /\ g[i] \in PartialState /\ (i + 1) - 1 = i  BY <2>2
    <3>2. g[i + 1] = Applied(g[i], records[i + 1]) /\ records[i + 1] \in EditRecord
      BY <1>1, <1>9, <3>1
    <3> QED BY <3>1, <3>2, AppliedIsState
  <2> HIDE DEF T
  <2> QED BY <2>1, <2>2, InductionOnSets
<1>11. g \in [0..N -> PartialState]
  <2>1. \A i \in 0..N : g[i] \in PartialState  BY <1>10
  <2>2. g = [i \in 0..N |-> g[i]]  BY <1>7
  <2> HIDE DEF N
  <2> QED BY <2>1, <2>2
<1> QED BY <1>8, <1>9, <1>11 DEF ReadsAs

(* A MANIFEST without records says nothing; each record is applied to what
   those before it say. *)
LEMMA ReadEmpty == ReadManifest(<<>>) = Blank
<1>1. <<>> \in Seq(EditRecord) /\ Len(<<>>) = 0  OBVIOUS
<1>2. PICK f \in [0..Len(<<>>) -> PartialState] :
        ReadsAs(f, <<>>) /\ ReadManifest(<<>>) = f[Len(<<>>)]
  BY <1>1, ManifestStates
<1> QED BY <1>1, <1>2 DEF ReadsAs

(* One more record is one more edit to apply. *)
LEMMA ReadAppended ==
  ASSUME NEW s \in Seq(EditRecord), NEW e \in EditRecord
  PROVE  ReadManifest(s \o <<e>>) = Applied(ReadManifest(s), e)
<1> DEFINE t == s \o <<e>>
           N == Len(s)
<1>1. /\ t \in Seq(EditRecord) /\ Len(t) = N + 1 /\ t[N + 1] = e /\ N \in Nat
      /\ \A i \in 1..N : s[i] = t[i]
  OBVIOUS
<1>2. PICK f \in [0..N -> PartialState] : ReadsAs(f, s) /\ ReadManifest(s) = f[N]
  BY ManifestStates
<1>3. PICK g \in [0..Len(t) -> PartialState] : ReadsAs(g, t) /\ ReadManifest(t) = g[Len(t)]
  BY <1>1, ManifestStates
<1> HIDE DEF t, N
<1>4. f[N] = g[N]
  <2>1. f[0] = g[0]  BY <1>2, <1>3 DEF ReadsAs
  <2>2. \A i \in 1..N : f[i] = Applied(f[i - 1], s[i])  BY <1>2 DEF ReadsAs, N
  <2>3. \A i \in 1..N : g[i] = Applied(g[i - 1], t[i])
    <3>1. \A i \in 1..(N + 1) : g[i] = Applied(g[i - 1], t[i])  BY <1>1, <1>3 DEF ReadsAs
    <3>2. \A i \in 1..N : i \in 1..(N + 1)  BY <1>1
    <3> QED BY <3>1, <3>2
  <2> DEFINE T == {i \in Nat : i <= N => f[i] = g[i]}
  <2>4. 0 \in T  BY <2>1
  <2>5. ASSUME NEW i \in Nat, i \in T PROVE i + 1 \in T
    <3> SUFFICES ASSUME i + 1 <= N PROVE f[i + 1] = g[i + 1]
      OBVIOUS
    <3>0. N \in Nat  BY <1>1
    <3>1. i + 1 \in 1..N /\ f[i] = g[i] /\ (i + 1) - 1 = i  BY <2>5, <3>0
    <3>2. f[i + 1] = Applied(f[i], s[i + 1]) /\ g[i + 1] = Applied(g[i], t[i + 1])
      BY <2>2, <2>3, <3>1
    <3> QED BY <1>1, <3>1, <3>2
  <2>6. Nat \subseteq T
    <3> HIDE DEF T
    <3> QED BY <2>4, <2>5, InductionOnSets
  <2> QED BY <1>1, <2>6
<1>5. g[N + 1] = Applied(g[N], e)
  <2>1. N + 1 \in 1..Len(t) /\ (N + 1) - 1 = N  BY <1>1
  <2>2. g[N + 1] = Applied(g[(N + 1) - 1], t[N + 1])  BY <1>3, <2>1 DEF ReadsAs
  <2> QED BY <1>1, <2>1, <2>2
<1>6. ReadManifest(s) = f[N] /\ ReadManifest(t) = g[N + 1]  BY <1>1, <1>2, <1>3
<1>7. ReadManifest(t) = Applied(ReadManifest(s), e)  BY <1>4, <1>5, <1>6
<1> QED BY <1>7 DEF t

-------------------------------------------------------------------------------
(* Files. *)

(* A file with more records. *)
LEMMA AppendedIsFile ==
  ASSUME NEW S, NEW file \in FileOf(S), NEW more, file.records \o more \in Seq(S)
  PROVE  /\ Appended(file, more) \in FileOf(S)
         /\ Appended(file, more).records = file.records \o more
         /\ Appended(file, more).synced = file.synced
         /\ Appended(file, more).tail = file.tail
<1> DEFINE T == Seq(S)
           r == file.records \o more
<1>1. file \in [records : T, synced : Nat, tail : Tails] /\ r \in T  BY DEF FileOf
<1> HIDE DEF T, r
<1>2. /\ [file EXCEPT !.records = r] \in [records : T, synced : Nat, tail : Tails]
      /\ [file EXCEPT !.records = r].records = r
      /\ [file EXCEPT !.records = r].synced = file.synced
      /\ [file EXCEPT !.records = r].tail = file.tail
  BY <1>1
<1> QED BY <1>2 DEF Appended, FileOf, T, r

(* A file of which the tail is another has the same records. *)
LEMMA TailIsFile ==
  ASSUME NEW S, NEW file \in FileOf(S), NEW t \in Tails
  PROVE  LET other == [file EXCEPT !.tail = t] IN
         /\ other \in FileOf(S) /\ other.records = file.records
         /\ other.synced = file.synced /\ other.tail = t
<1> DEFINE T == Seq(S)
<1>1. file \in [records : T, synced : Nat, tail : Tails]  BY DEF FileOf
<1> HIDE DEF T
<1>2. /\ [file EXCEPT !.tail = t] \in [records : T, synced : Nat, tail : Tails]
      /\ [file EXCEPT !.tail = t].records = file.records
      /\ [file EXCEPT !.tail = t].synced = file.synced
      /\ [file EXCEPT !.tail = t].tail = t
  BY <1>1
<1> QED BY <1>2 DEF FileOf, T

(* An append that fails leaves the records and a tail that is not sound. *)
LEMMA FailureIs ==
  ASSUME NEW S, NEW file \in FileOf(S)
  PROVE  /\ AfterFailure(file) \in FileOf(S) /\ AfterFailure(file).records = file.records
         /\ AfterFailure(file).synced = file.synced /\ AfterFailure(file).tail # "sound"
<1> DEFINE t == IF file.tail = "sound" THEN "torn" ELSE "damaged"
<1>1. t \in Tails /\ t # "sound"  BY DEF Tails
<1>2. AfterFailure(file) = [file EXCEPT !.tail = t]  BY DEF AfterFailure
<1> HIDE DEF t
<1> QED BY <1>1, <1>2, TailIsFile

(* An append that does not: behind a sound tail the record is there, behind
   another one it is there or not. *)
LEMMA AppendsAre ==
  ASSUME NEW S, NEW file \in FileOf(S), NEW more, file.records \o more \in Seq(S),
         NEW g \in Appends(file, more)
  PROVE  /\ g \in FileOf(S) /\ g.synced = file.synced
         /\ (g.tail = "sound") = (file.tail = "sound")
         /\ \/ g.records = file.records \o more
            \/ file.tail # "sound" /\ g.records = file.records
         /\ file.tail = "sound" => g = Appended(file, more)
<1>1. CASE file.tail = "sound"
  <2>1. g = Appended(file, more)  BY <1>1 DEF Appends
  <2> QED BY <1>1, <2>1, AppendedIsFile
<1>2. CASE file.tail # "sound"
  <2>1. PICK f \in {file, Appended(file, more)} : g = [f EXCEPT !.tail = "damaged"]
    BY <1>2 DEF Appends
  <2>2. f \in FileOf(S) /\ f.synced = file.synced
        /\ (f.records = file.records \o more \/ f.records = file.records)
    BY AppendedIsFile
  <2>3. "damaged" \in Tails /\ "damaged" # "sound"  BY DEF Tails
  <2>4. /\ g \in FileOf(S) /\ g.records = f.records
        /\ g.synced = f.synced /\ g.tail = "damaged"
    BY <2>1, <2>2, <2>3, TailIsFile
  <2> QED BY <1>2, <2>2, <2>3, <2>4
<1> QED BY <1>1, <1>2

(* A file that was synced. *)
LEMMA SyncedIsFile ==
  ASSUME NEW S, NEW file \in FileOf(S)
  PROVE  /\ Synced(file) \in FileOf(S) /\ Synced(file).records = file.records
         /\ Synced(file).synced = Len(file.records) /\ Len(file.records) \in Nat
         /\ Synced(file).tail = file.tail
<1> DEFINE T == Seq(S)
           n == Len(file.records)
<1>1. file \in [records : T, synced : Nat, tail : Tails]  BY DEF FileOf
<1>2. n \in Nat  BY DEF FileOf
<1> HIDE DEF T, n
<1>3. /\ [file EXCEPT !.synced = n] \in [records : T, synced : Nat, tail : Tails]
      /\ [file EXCEPT !.synced = n].records = file.records
      /\ [file EXCEPT !.synced = n].synced = n
      /\ [file EXCEPT !.synced = n].tail = file.tail
  BY <1>1, <1>2
<1> QED BY <1>2, <1>3 DEF Synced, FileOf, T, n

(* What a failing machine leaves of a file. *)
LEMMA TornIsFile ==
  ASSUME NEW S, NEW file \in FileOf(S), NEW n \in 0..Len(file.records)
  PROVE  /\ Torn(file, n) \in FileOf(S) /\ Torn(file, n).records = SubSeq(file.records, 1, n)
         /\ Torn(file, n).synced = n /\ Torn(file, n).tail = file.tail
<1> DEFINE T == Seq(S)
           r == SubSeq(file.records, 1, n)
<1>1. file \in [records : T, synced : Nat, tail : Tails] /\ n \in Nat  BY DEF FileOf
<1>2. r \in T
  <2>1. file.records \in Seq(S)  BY DEF FileOf
  <2> QED BY <2>1, FirstElements
<1>3. Torn(file, n) = [file EXCEPT !.records = r, !.synced = n]  BY DEF Torn
<1> HIDE DEF T, r
<1>4. LET t == [file EXCEPT !.records = r, !.synced = n] IN
      /\ t \in [records : T, synced : Nat, tail : Tails]
      /\ t.records = r /\ t.synced = n /\ t.tail = file.tail
  BY <1>1, <1>2
<1> QED BY <1>3, <1>4 DEF FileOf, T, r

-------------------------------------------------------------------------------
(* What may be read of a MANIFEST. *)

(* All of it may be read, and nothing else if the machine does not fail or it
   was synced. *)
LEMMA WholeIsRead ==
  ASSUME NEW file \in FileOf(EditRecord), file.records # <<>>
  PROVE  /\ ReadManifest(file.records) \in ReadsOf(file)
         /\ ~PowerFails \/ file.synced = Len(file.records) =>
              ReadsOf(file) = {ReadManifest(file.records)}
<1> DEFINE N == Len(file.records)
<1>1. file.records \in Seq(EditRecord) /\ N \in Nat \ {0}  BY DEF FileOf
<1>2. N \in CutsOf(file) /\ SubSeq(file.records, 1, N) = file.records
  BY <1>1, WholePrefix DEF CutsOf
<1>3. ReadManifest(file.records) \in ReadsOf(file)  BY <1>2 DEF ReadsOf
<1>4. ASSUME ~PowerFails \/ file.synced = N  PROVE CutsOf(file) = {N}
  BY <1>1, <1>4 DEF CutsOf
<1>5. ~PowerFails \/ file.synced = N => ReadsOf(file) = {ReadManifest(file.records)}
  BY <1>2, <1>4 DEF ReadsOf
<1> QED BY <1>3, <1>5

(* Another record: what could be read before, or that record is read too. *)
LEMMA ReadsAppended ==
  ASSUME NEW file \in FileOf(EditRecord), NEW e \in EditRecord
  PROVE  LET more == Appended(file, <<e>>) IN
         /\ more \in FileOf(EditRecord) /\ more.records = file.records \o <<e>>
         /\ more.records # <<>> /\ more.synced = file.synced
         /\ Len(more.records) = Len(file.records) + 1
         /\ ReadManifest(more.records) = Applied(ReadManifest(file.records), e)
         /\ ReadsOf(more) \subseteq ReadsOf(file) \cup {ReadManifest(more.records)}
<1> DEFINE more == Appended(file, <<e>>)
           N == Len(file.records)
<1>1. file.records \in Seq(EditRecord) /\ N \in Nat /\ file.synced \in Nat  BY DEF FileOf
<1>2. more.records = file.records \o <<e>> /\ more.synced = file.synced  BY DEF Appended, FileOf
<1>3. /\ more.records \in Seq(EditRecord) /\ Len(more.records) = N + 1 /\ more.records # <<>>
      /\ more \in FileOf(EditRecord)
  <2>1. file.records \o <<e>> \in Seq(EditRecord) /\ Len(file.records \o <<e>>) = N + 1  BY <1>1
  <2>2. more \in FileOf(EditRecord)  BY <2>1, AppendedIsFile
  <2>3. file.records \o <<e>> # <<>>  BY <1>1, <2>1
  <2> HIDE DEF more, N
  <2> QED BY <1>2, <2>1, <2>2, <2>3
<1>4. ReadManifest(more.records) = Applied(ReadManifest(file.records), e)
  BY <1>1, <1>2, ReadAppended
<1> HIDE DEF more, N
<1>5. ASSUME NEW k \in CutsOf(more)
      PROVE  ReadManifest(SubSeq(more.records, 1, k)) \in ReadsOf(file) \cup {ReadManifest(more.records)}
  <2>1. k \in 1..(N + 1)  BY <1>3, <1>5 DEF CutsOf
  <2>2. CASE k = N + 1
    <3>1. SubSeq(more.records, 1, k) = more.records  BY <1>3, <2>2, WholePrefix
    <3> QED BY <3>1
  <2>3. CASE k # N + 1
    <3>1. k \in 0..N /\ k \in 1..N  BY <1>1, <2>1, <2>3
    <3>2. PowerFails /\ file.synced <= k  BY <1>2, <1>3, <1>5, <2>3 DEF CutsOf
    <3>3. k \in CutsOf(file)  BY <3>1, <3>2 DEF CutsOf, N
    <3>4. SubSeq(more.records, 1, k) = SubSeq(file.records, 1, k)
      BY <1>1, <1>2, <3>1, PrefixOfAppended DEF N
    <3> QED BY <3>3, <3>4 DEF ReadsOf
  <2> QED BY <2>2, <2>3
<1>6. ReadsOf(more) \subseteq ReadsOf(file) \cup {ReadManifest(more.records)}
  BY <1>5 DEF ReadsOf
<1> QED BY <1>2, <1>3, <1>4, <1>6 DEF more, N

(* What may be read of a MANIFEST is settled by its records and its sync. *)
LEMMA ReadsOfRecords ==
  ASSUME NEW f, NEW g, f.records = g.records, f.synced = g.synced
  PROVE  ReadsOf(f) = ReadsOf(g)
<1>1. CutsOf(f) = CutsOf(g)  BY DEF CutsOf
<1> QED BY <1>1 DEF ReadsOf

(* A sync leaves one reading. *)
LEMMA ReadsSynced ==
  ASSUME NEW file \in FileOf(EditRecord), file.records # <<>>
  PROVE  LET done == Synced(file) IN
         /\ done \in FileOf(EditRecord) /\ done.records = file.records
         /\ done.synced = Len(file.records)
         /\ ReadsOf(done) = {ReadManifest(file.records)}
<1> DEFINE done == Synced(file)
<1>1. done.records = file.records /\ done.synced = Len(file.records)  BY DEF Synced, FileOf
<1>2. done \in FileOf(EditRecord)  BY SyncedIsFile
<1> HIDE DEF done
<1>3. ReadsOf(done) = {ReadManifest(done.records)}  BY <1>1, <1>2, WholeIsRead
<1> QED BY <1>1, <1>2, <1>3 DEF done

(* What is left after the machine failed is one of the readings. *)
LEMMA ReadsTorn ==
  ASSUME PowerFails, NEW file \in FileOf(EditRecord), NEW n \in 1..Len(file.records),
         file.synced <= n
  PROVE  LET torn == Torn(file, n) IN
         /\ torn \in FileOf(EditRecord) /\ torn.records # <<>>
         /\ torn.synced = Len(torn.records)
         /\ ReadsOf(torn) = {ReadManifest(torn.records)}
         /\ ReadManifest(torn.records) \in ReadsOf(file)
<1> DEFINE torn == Torn(file, n)
<1>1. file.records \in Seq(EditRecord) /\ n \in 0..Len(file.records) /\ n \in Nat  BY DEF FileOf
<1>2. /\ torn.records = SubSeq(file.records, 1, n) /\ torn.synced = n
      /\ torn \in FileOf(EditRecord)
  BY <1>1, TornIsFile
<1>3. torn.records \in Seq(EditRecord) /\ Len(torn.records) = n /\ torn.records # <<>>
  <2>1. SubSeq(file.records, 1, n) \in Seq(EditRecord) /\ Len(SubSeq(file.records, 1, n)) = n
    BY <1>1, FirstElements
  <2> QED BY <1>2, <2>1
<1>4. torn \in FileOf(EditRecord)  BY <1>2
<1> HIDE DEF torn
<1>5. ReadsOf(torn) = {ReadManifest(torn.records)}  BY <1>2, <1>3, <1>4, WholeIsRead
<1>6. n \in CutsOf(file)  BY DEF CutsOf
<1>7. ReadManifest(torn.records) \in ReadsOf(file)  BY <1>2, <1>6 DEF ReadsOf
<1> QED BY <1>2, <1>3, <1>4, <1>5, <1>7 DEF torn

(* A MANIFEST of one record, and of two. *)
LEMMA ReadOne ==
  ASSUME NEW e \in EditRecord
  PROVE  ReadManifest(<<e>>) = Applied(Blank, e)
<1>1. <<>> \in Seq(EditRecord) /\ <<>> \o <<e>> = <<e>>  OBVIOUS
<1> QED BY <1>1, ReadAppended, ReadEmpty

(* A MANIFEST of two records, as an open writes it. *)
LEMMA ReadTwo ==
  ASSUME NEW d \in EditRecord, NEW e \in EditRecord
  PROVE  ReadManifest(<<d, e>>) = Applied(Applied(Blank, d), e)
<1>1. <<d>> \in Seq(EditRecord) /\ <<d>> \o <<e>> = <<d, e>>  BY PairIs
<1>2. ReadManifest(<<d>> \o <<e>>) = Applied(ReadManifest(<<d>>), e)  BY <1>1, ReadAppended
<1> QED BY <1>1, <1>2, ReadOne

-------------------------------------------------------------------------------
(* Least and greatest numbers, and the tables of a recovery. *)

(* The least of some numbers. *)
LEMMA MinIs ==
  ASSUME NEW S \in SUBSET Nat, S # {}
  PROVE  Min(S) \in S /\ \A x \in S : Min(S) <= x
<1>1. \E x \in S : \A y \in S : x <= y  BY LeastNatural
<1> QED BY <1>1 DEF Min

(* The greatest of finitely many numbers. *)
LEMMA MaxIs ==
  ASSUME NEW N \in Nat, NEW S \in SUBSET (0..N), S # {}
  PROVE  Max(S) \in S /\ \A x \in S : x <= Max(S)
<1>1. PICK x \in S : \A y \in S : y <= x
  BY GreatestNatural
<1>2. \E z \in S : \A y \in S : z >= y  BY <1>1
<1>3. Max(S) \in S /\ \A y \in S : Max(S) >= y  BY <1>2 DEF Max
<1> QED BY <1>3

(* RecoverLogFile puts every record of a log in one of its tables. *)
LEMMA ChunksAre ==
  ASSUME StorageAssumption, NEW S, NEW records \in Seq(S)
  PROVE  /\ Len(Chunks(records)) \in Nat /\ DOMAIN Chunks(records) = 1..Len(Chunks(records))
         /\ \A i \in DOMAIN Chunks(records) : Chunks(records)[i] \subseteq ToSet(records)
         /\ ToSet(records) = UNION {Chunks(records)[i] : i \in DOMAIN Chunks(records)}
         /\ ToSet(records) \subseteq S
<1> DEFINE w == write_buffer_size + 1
           N == Len(records)
           c == Chunks(records)
<1>1. w \in Nat \ {0, 1} /\ N \in Nat /\ DOMAIN records = 1..N  BY DEF StorageAssumption
<1>2. \A j \in 0..N : ChunkOf(j) = (j - 1) \div w + 1  BY DEF ChunkOf
<1> HIDE DEF w
<1>3. ASSUME NEW j \in 1..N PROVE ChunkOf(j) \in 1..ChunkOf(N)
  <2>1. (j - 1) \div w \in Nat /\ (N - 1) \div w \in Nat /\ (j - 1) \div w <= (N - 1) \div w
    <3>1. j - 1 \in Nat /\ N - 1 \in Nat /\ j - 1 <= N - 1  BY <1>1
    <3> QED BY <1>1, <3>1, QuotientsGrow
  <2> DEFINE p == (j - 1) \div w
             q == (N - 1) \div w
  <2>2. ChunkOf(j) = p + 1 /\ ChunkOf(N) = q + 1  BY <1>1, <1>2
  <2> HIDE DEF p, q
  <2>3. p \in Nat /\ q \in Nat /\ p <= q  BY <2>1 DEF p, q
  <2> QED BY <2>2, <2>3
<1>4. ChunkOf(N) \in Nat
  <2>1. CASE N = 0
    <3>1. (0 - 1) \div w = 0 - 1  BY <1>1
    <3> QED BY <1>1, <1>2, <2>1, <3>1
  <2>2. CASE N # 0
    BY <1>1, <1>3, <2>2
  <2> QED BY <2>1, <2>2
<1>5. c = [i \in 1..ChunkOf(N) |-> {records[j] : j \in {k \in 1..N : ChunkOf(k) = i}}]
  BY <1>1 DEF Chunks
<1> HIDE DEF c
<1>6. DOMAIN c = 1..ChunkOf(N) /\ Len(c) = ChunkOf(N)  BY <1>4, <1>5
<1>7. ToSet(records) = {records[j] : j \in 1..N}  BY <1>1 DEF ToSet
<1>8. \A i \in DOMAIN c : c[i] \subseteq ToSet(records)  BY <1>5, <1>6, <1>7
<1>9. ASSUME NEW j \in 1..N PROVE records[j] \in c[ChunkOf(j)] /\ ChunkOf(j) \in DOMAIN c
  BY <1>3, <1>5, <1>6
<1>10. ToSet(records) = UNION {c[i] : i \in DOMAIN c}  BY <1>7, <1>8, <1>9
<1>11. ToSet(records) \subseteq S  BY <1>1, <1>7
<1> QED BY <1>4, <1>6, <1>8, <1>10, <1>11 DEF c
-------------------------------------------------------------------------------
(* Sets of files. *)

(* A file that was created. *)
LEMMA NewFileIsFile ==
  ASSUME NEW S
  PROVE  /\ NewFile \in FileOf(S) /\ NewFile.records = <<>> /\ NewFile.synced = 0
         /\ Len(NewFile.records) = 0 /\ NewFile.tail = "sound"
<1>1. <<>> \in Seq(S) /\ Len(<<>>) = 0  OBVIOUS
<1>2. NewFile.records = <<>> /\ NewFile.synced = 0 /\ NewFile.tail = "sound"  BY DEF NewFile
<1>3. NewFile \in FileOf(S)  BY <1>1 DEF NewFile, FileOf, Tails
<1> QED BY <1>1, <1>2, <1>3

(* Files with one more, or one that is written over. *)
LEMMA FilesWith ==
  ASSUME NEW S, NEW f, Files(f, S), NEW k \in Nat, NEW v \in FileOf(S), v.synced <= Len(v.records)
  PROVE  Files(With(f, k, v), S)
  BY DEF Files, With

(* Files of which one has changed. *)
LEMMA FilesExcept ==
  ASSUME NEW S, NEW f, Files(f, S), NEW k, NEW v \in FileOf(S), v.synced <= Len(v.records)
  PROVE  /\ Files([f EXCEPT ![k] = v], S) /\ DOMAIN [f EXCEPT ![k] = v] = DOMAIN f
         /\ \A n \in DOMAIN f : [f EXCEPT ![k] = v][n] = IF n = k THEN v ELSE f[n]
<1>1. /\ DOMAIN [f EXCEPT ![k] = v] = DOMAIN f
      /\ \A n \in DOMAIN f : [f EXCEPT ![k] = v][n] = IF n = k THEN v ELSE f[n]
  OBVIOUS
<1> QED BY <1>1 DEF Files

(* Files of which one is deleted. *)
LEMMA FilesWithout ==
  ASSUME NEW S, NEW f, Files(f, S), NEW k
  PROVE  Files(Without(f, k), S)
  BY DEF Files, Without

(* Files with more possible records, and what a failing machine leaves. *)
LEMMA FilesGrow ==
  ASSUME NEW S, NEW T, S \subseteq T, NEW f, Files(f, S)
  PROVE  Files(f, T)
<1>1. Seq(S) \subseteq Seq(T)  OBVIOUS
<1> QED BY <1>1 DEF Files, FileOf

(* What a failing machine leaves of files. *)
LEMMA FilesTorn ==
  ASSUME NEW S, NEW f, Files(f, S), NEW g \in Remains(f)
  PROVE  /\ Files(g, S) /\ DOMAIN g = DOMAIN f
         /\ \A x \in DOMAIN f : \E n \in 0..Len(f[x].records) :
              f[x].synced <= n /\ g[x] = Torn(f[x], n)
<1> DEFINE bound == Max({0} \cup {Len(f[x].records) : x \in DOMAIN f})
<1> HIDE DEF bound
<1>1. PICK cut \in [DOMAIN f -> 0..bound] :
        /\ g = [x \in DOMAIN f |-> Torn(f[x], cut[x])]
        /\ \A x \in DOMAIN f : f[x].synced <= cut[x] /\ cut[x] <= Len(f[x].records)
  BY Zenon DEF Remains, bound
<1>2. ASSUME NEW x \in DOMAIN f
      PROVE  /\ cut[x] \in 0..Len(f[x].records) /\ f[x].synced <= cut[x]
             /\ g[x] = Torn(f[x], cut[x])
             /\ g[x] \in FileOf(S) /\ g[x].synced <= Len(g[x].records)
  <2>1. f[x] \in FileOf(S) /\ f[x].synced <= Len(f[x].records)  BY DEF Files
  <2>2. f[x].records \in Seq(S) /\ f[x].synced \in Nat /\ Len(f[x].records) \in Nat
    BY <2>1 DEF FileOf
  <2>3. cut[x] \in Int /\ f[x].synced <= cut[x] /\ cut[x] <= Len(f[x].records)  BY <1>1
  <2>4. cut[x] \in 0..Len(f[x].records)  BY <2>2, <2>3
  <2>5. g[x] = Torn(f[x], cut[x])  BY <1>1
  <2>6. /\ SubSeq(f[x].records, 1, cut[x]) \in Seq(S)
        /\ Len(SubSeq(f[x].records, 1, cut[x])) = cut[x]
    BY <2>2, <2>4, FirstElements
  <2>7. g[x] \in FileOf(S) /\ g[x].synced <= Len(g[x].records)
    <3>1. /\ Torn(f[x], cut[x]) \in FileOf(S) /\ Torn(f[x], cut[x]).synced = cut[x]
          /\ Torn(f[x], cut[x]).records = SubSeq(f[x].records, 1, cut[x])
      BY <2>1, <2>4, TornIsFile
    <3> QED BY <2>4, <2>5, <2>6, <3>1
  <2> QED BY <2>3, <2>4, <2>5, <2>7
<1>3. DOMAIN g = DOMAIN f  BY <1>1
<1> QED BY <1>2, <1>3 DEF Files
-------------------------------------------------------------------------------
(* The readings of the MANIFEST that CURRENT names. *)

(* Of a database that was created there is a MANIFEST, and what it says is good. *)
LEMMA ReadingsAre ==
  ASSUME Types, ReadsInv, current # None
  PROVE  /\ current \in Nat /\ current \in DOMAIN manifests
         /\ manifests[current] \in FileOf(EditRecord) /\ manifests[current].records # <<>>
         /\ manifests[current].synced <= Len(manifests[current].records)
         /\ Latest \in Reads /\ GoodRead(Latest)
         /\ ~PowerFails => Reads = {Latest}
<1>1. /\ current \in Nat /\ current \in DOMAIN manifests
      /\ manifests[current] \in FileOf(EditRecord) /\ manifests[current].records # <<>>
      /\ manifests[current].synced <= Len(manifests[current].records)
  BY DEF Types, DiskTypes, ReadsInv, Files
<1>2. Latest \in Reads /\ (~PowerFails => Reads = {Latest})
  BY <1>1, WholeIsRead DEF Latest, Reads
<1>3. GoodRead(Latest)  BY <1>2 DEF ReadsInv
<1> QED BY <1>1, <1>2, <1>3

(* They stay when that MANIFEST and CURRENT stay. *)
LEMMA RecordsStay ==
  ASSUME ReadsInv, current # None, current' = current,
         current \in DOMAIN manifests', manifests'[current].records = manifests[current].records,
         manifests'[current].synced = manifests[current].synced,
         DOMAIN tables \subseteq DOMAIN tables',
         counts.writes \in Nat, counts'.writes \in Nat, counts.writes <= counts'.writes
  PROVE  Reads' = Reads /\ Latest' = Latest /\ ReadsInv'
<1>1. Reads' = Reads /\ Latest' = Latest  BY ReadsOfRecords DEF Reads, Latest
<1>2. ASSUME NEW s \in Reads PROVE GoodRead(s)'
  <2>1. GoodRead(s)  BY DEF ReadsInv
  <2>2. s.sequence \in Nat  BY <2>1 DEF GoodRead, CompleteState
  <2> QED BY <1>1, <2>1, <2>2 DEF GoodRead
<1>3. current' \in DOMAIN manifests' /\ manifests'[current'].records # <<>>  BY DEF ReadsInv
<1> QED BY <1>1, <1>2, <1>3 DEF ReadsInv

(* It is the same when the MANIFEST is the same. *)
LEMMA ReadsStay ==
  ASSUME ReadsInv, current # None, current' = current,
         current \in DOMAIN manifests', manifests'[current] = manifests[current],
         DOMAIN tables \subseteq DOMAIN tables',
         counts.writes \in Nat, counts'.writes \in Nat, counts.writes <= counts'.writes
  PROVE  Reads' = Reads /\ Latest' = Latest /\ ReadsInv'
  BY RecordsStay

(* No write is begun. *)
LEMMA IssuedStays ==
  ASSUME counts'.writes = counts.writes
  PROVE  Issued' = Issued
  BY DEF Issued

(* Init. *)
LEMMA DiskInit ==
  ASSUME Given, Init
  PROVE  DiskInv
<1>1. /\ current = None /\ DOMAIN manifests = {} /\ DOMAIN logs = {} /\ DOMAIN tables = {}
      /\ acknowledged = {} /\ durable = {} /\ doubtful = {}
      /\ counts = [writes |-> 0, crashes |-> 0, errors |-> 0, compactions |-> 0, skips |-> 0]
      /\ phase = "closed" /\ version = {} /\ descriptor = FALSE
      /\ numbers = [log |-> 0, logfile |-> 0, next |-> 2, manifest |-> 0, sequence |-> 0]
      /\ mem = {} /\ imm = None /\ recovering = None /\ pending_outputs = {}
      /\ flush = None /\ compaction = None /\ edit = None /\ obsolete = FALSE
      /\ bg_error = FALSE /\ writing = None /\ pinned = None
  BY DEF Init, Closed
<1>2. Types
  <2>1. numbers \in Numbers /\ numbers.sequence = 0  BY <1>1 DEF Numbers
  <2>2. counts \in Counts /\ counts.writes = 0 /\ MaxWrites \in Nat
    BY <1>1 DEF Counts, StorageAssumption
  <2>3. DiskTypes /\ HistoryTypes  BY <1>1, <2>2 DEF DiskTypes, HistoryTypes, Files
  <2>4. descriptor \in BOOLEAN /\ obsolete \in BOOLEAN /\ bg_error \in BOOLEAN  BY <1>1, Zenon
  <2>5. numbers.sequence <= counts.writes  BY <2>1, <2>2
  <2>6. ProcessTypes  BY <1>1, <2>1, <2>4, <2>5 DEF ProcessTypes
  <2> QED BY <2>3, <2>6 DEF Types
<1>3. ReadsInv  BY <1>1 DEF ReadsInv
<1>4. FilesInv
  BY <1>1 DEF FilesInv, PhaseInv, UnbornInv, RunningInv, LogsInv, LogfileInv, EditInv, RecordInv,
     FlushInv, CompactionInv, PinnedInv, VersionInv, SettledInv, FreshInv, Running
<1> QED BY <1>2, <1>3, <1>4 DEF DiskInv

-------------------------------------------------------------------------------
(* DB::Open keeps the invariant. *)

(* The process is gone: only the files count. *)
LEMMA ClosedFiles ==
  ASSUME ToClosed, current' = None => UnbornInv'
  PROVE  FilesInv'
<1>1. /\ phase' = "closed" /\ version' = {} /\ mem' = {} /\ recovering' = None
      /\ edit' = None /\ imm' = None /\ pending_outputs' = {} /\ flush' = None
      /\ compaction' = None /\ ~obsolete' /\ ~bg_error' /\ writing' = None /\ pinned' = None
  BY DEF ToClosed
<1>2. PhaseInv' /\ UnbornInv' /\ RunningInv' /\ LogsInv' /\ LogfileInv'
  BY <1>1 DEF PhaseInv, UnbornInv, RunningInv, LogsInv, LogfileInv, Running
<1>3. /\ EditInv' /\ RecordInv' /\ FlushInv' /\ CompactionInv' /\ PinnedInv' /\ VersionInv'
      /\ SettledInv' /\ FreshInv'
  BY <1>1 DEF EditInv, RecordInv, FlushInv, CompactionInv, PinnedInv, VersionInv, SettledInv,
     FreshInv, Running
<1> QED BY <1>2, <1>3 DEF FilesInv

(* A closed database has the types. *)
LEMMA ClosedTypes ==
  ASSUME ToClosed, counts'.writes \in Nat
  PROVE  ProcessTypes'
<1>1. numbers' = [log |-> 0, logfile |-> 0, next |-> 2, manifest |-> 0, sequence |-> 0]
  BY DEF ToClosed
<1>2. numbers' \in Numbers /\ numbers'.sequence = 0  BY <1>1 DEF Numbers
<1>3. /\ phase' = "closed" /\ version' = {} /\ descriptor' = FALSE
      /\ mem' = {} /\ imm' = None /\ recovering' = None /\ pending_outputs' = {}
      /\ flush' = None /\ compaction' = None /\ edit' = None /\ obsolete' = FALSE
      /\ bg_error' = FALSE /\ writing' = None
  BY DEF ToClosed
<1>4. descriptor' \in BOOLEAN /\ obsolete' \in BOOLEAN /\ bg_error' \in BOOLEAN  BY <1>3, Zenon
<1>5. numbers'.sequence <= counts'.writes  BY <1>2
<1> QED BY <1>2, <1>3, <1>4, <1>5 DEF ProcessTypes

(* NewDB: the first MANIFEST, which CURRENT does not name yet. *)
LEMMA NewDBKeeps ==
  ASSUME Given, DiskInv, NewDB
  PROVE  DiskInv'
<1>1. /\ phase = "closed" /\ current = None /\ phase' = "created"
      /\ manifests' = With(manifests, 1, Appended(NewFile, <<NewDBEdit>>))
      /\ UNCHANGED <<current, logs, tables, version, numbers, descriptor, mem, imm, recovering,
                     pending_outputs, flush, compaction, edit, obsolete, bg_error, writing,
                     pinned, history, counts>>
  BY DEF NewDB, history
<1>2. Issued' = Issued  BY <1>1, IssuedStays
<1> DEFINE file == Appended(NewFile, <<NewDBEdit>>)
<1>3. file \in FileOf(EditRecord) /\ file.synced <= Len(file.records) /\ file.records = <<NewDBEdit>>
  <2>1. NewDBEdit \in EditRecord  BY DEF NewDBEdit, Edit, EditRecord
  <2>2. <<NewDBEdit>> \in Seq(EditRecord) /\ <<>> \o <<NewDBEdit>> = <<NewDBEdit>>
        /\ Len(<<NewDBEdit>>) = 1
    BY <2>1
  <2>3. /\ NewFile \in FileOf(EditRecord) /\ NewFile.synced = 0
        /\ NewFile.records \o <<NewDBEdit>> = <<NewDBEdit>>
    BY <2>2, NewFileIsFile
  <2>4. file \in FileOf(EditRecord) /\ file.records = <<NewDBEdit>> /\ file.synced = 0
    <3>1. NewFile.records \o <<NewDBEdit>> \in Seq(EditRecord)  BY <2>2, <2>3
    <3> QED BY <2>3, <3>1, AppendedIsFile, Zenon
  <2> QED BY <2>2, <2>4
<1> HIDE DEF file
<1>4. Files(manifests', EditRecord)
  BY <1>1, <1>3, FilesWith DEF DiskInv, Types, DiskTypes, file
<1>5. Types'  BY <1>1, <1>2, <1>4 DEF DiskInv, Types, DiskTypes, ProcessTypes, HistoryTypes
<1>6. ReadsInv'  BY <1>1 DEF ReadsInv
<1>7. 1 \in DOMAIN manifests' /\ manifests'[1].records = <<NewDBEdit>>
  BY <1>1, <1>3 DEF With, file
<1>8. FilesInv  BY DEF DiskInv
<1>9. /\ version = {} /\ mem = {} /\ recovering = None /\ edit = None
      /\ imm = None /\ pending_outputs = {} /\ flush = None /\ compaction = None
      /\ ~obsolete /\ ~bg_error /\ writing = None /\ pinned = None
  BY <1>1, <1>8 DEF FilesInv, PhaseInv
<1>10. PhaseInv'  BY <1>1, <1>7, <1>9 DEF PhaseInv
<1>11. UnbornInv'  BY <1>1, <1>8 DEF FilesInv, UnbornInv
<1>12. /\ RunningInv' /\ LogsInv' /\ LogfileInv' /\ EditInv' /\ RecordInv' /\ FlushInv'
       /\ CompactionInv' /\ PinnedInv' /\ VersionInv' /\ SettledInv' /\ FreshInv'
  BY <1>1, <1>9 DEF RunningInv, LogsInv, LogfileInv, EditInv, RecordInv, FlushInv, CompactionInv,
     PinnedInv, VersionInv, SettledInv, FreshInv, Running
<1> QED BY <1>5, <1>6, <1>10, <1>11, <1>12 DEF DiskInv, FilesInv

(* SetCurrentFile of NewDB: what the first MANIFEST says. *)
LEMMA SetCurrentOfNewDBIs ==
  ASSUME Given, DiskInv, SetCurrentOfNewDB
  PROVE  /\ phase = "created" /\ current = None /\ current' = 1 /\ phase' = "closed"
         /\ version = {} /\ mem = {} /\ recovering = None /\ edit = None
         /\ imm = None /\ pending_outputs = {} /\ flush = None /\ compaction = None
         /\ ~obsolete /\ ~bg_error /\ writing = None /\ pinned = None
         /\ 1 \in DOMAIN manifests /\ manifests[1].records = <<NewDBEdit>>
         /\ Latest' = [files |-> {}, log |-> 0, next |-> 2, sequence |-> 0] /\ Reads' = {Latest'}
         /\ UNCHANGED <<manifests, logs, tables, version, numbers, descriptor, mem, imm,
                        recovering, pending_outputs, flush, compaction, edit, obsolete, bg_error,
                        writing, pinned, history, counts>>
<1>1. /\ phase = "created" /\ current' = 1 /\ phase' = "closed"
      /\ UNCHANGED <<manifests, logs, tables, version, numbers, descriptor, mem, imm, recovering,
                     pending_outputs, flush, compaction, edit, obsolete, bg_error, writing,
                     pinned, history, counts>>
  BY DEF SetCurrentOfNewDB, history
<1>2. /\ version = {} /\ mem = {} /\ recovering = None /\ edit = None /\ current = None
      /\ imm = None /\ pending_outputs = {} /\ flush = None /\ compaction = None
      /\ ~obsolete /\ ~bg_error /\ writing = None /\ pinned = None
      /\ 1 \in DOMAIN manifests /\ manifests[1].records = <<NewDBEdit>>
  BY <1>1 DEF DiskInv, FilesInv, PhaseInv
<1>3. NewDBEdit \in EditRecord /\ Applied(Blank, NewDBEdit) =
        [files |-> {}, log |-> 0, next |-> 2, sequence |-> 0]
  BY DEF NewDBEdit, Edit, EditRecord, Applied, Blank, NoneAssumption
<1>4. Latest' = [files |-> {}, log |-> 0, next |-> 2, sequence |-> 0] /\ Reads' = {Latest'}
  <2>1. manifests[1] \in FileOf(EditRecord)  BY <1>2 DEF DiskInv, Types, DiskTypes, Files
  <2>2. Len(manifests[1].records) = 1 /\ manifests[1].records # <<>>  BY <1>2
  <2>3. CutsOf(manifests[1]) = {1}  BY <2>2 DEF CutsOf
  <2>4. SubSeq(manifests[1].records, 1, 1) = manifests[1].records
    BY <2>1, <2>2, WholePrefix DEF FileOf
  <2>5. ReadsOf(manifests[1]) = {ReadManifest(manifests[1].records)}  BY <2>3, <2>4 DEF ReadsOf
  <2>6. ReadManifest(manifests[1].records) = Applied(Blank, NewDBEdit)  BY <1>2, <1>3, ReadOne
  <2> QED BY <1>1, <1>3, <2>5, <2>6 DEF Reads, Latest
<1> QED BY <1>1, <1>2, <1>4

(* The database is created. *)
LEMMA SetCurrentOfNewDBKeeps ==
  ASSUME Given, DiskInv, SetCurrentOfNewDB
  PROVE  DiskInv'
<1>1. /\ current' = 1 /\ phase' = "closed"
      /\ UNCHANGED <<manifests, logs, tables, version, numbers, descriptor, mem, imm, recovering,
                     pending_outputs, flush, compaction, edit, obsolete, bg_error, writing,
                     pinned, history, counts>>
  BY SetCurrentOfNewDBIs
<1>2. Issued' = Issued  BY <1>1, IssuedStays
<1>3. Types  BY DEF DiskInv
<1>4. Types'  BY <1>1, <1>2, <1>3 DEF Types, DiskTypes, ProcessTypes, HistoryTypes
<1>5. /\ version = {} /\ mem = {} /\ recovering = None /\ edit = None
      /\ imm = None /\ pending_outputs = {} /\ flush = None /\ compaction = None
      /\ ~obsolete /\ ~bg_error /\ writing = None /\ pinned = None
      /\ 1 \in DOMAIN manifests /\ manifests[1].records = <<NewDBEdit>>
  BY SetCurrentOfNewDBIs
<1>6. Latest' = [files |-> {}, log |-> 0, next |-> 2, sequence |-> 0] /\ Reads' = {Latest'}
  BY SetCurrentOfNewDBIs
<1>7. ReadsInv'
  <2>1. GoodRead(Latest)'
    BY <1>1, <1>3, <1>6 DEF GoodRead, CompleteState, Types, HistoryTypes, Counts
  <2>2. manifests'[1].records # <<>>  BY <1>1, <1>5
  <2> QED BY <1>1, <1>5, <1>6, <2>1, <2>2 DEF ReadsInv
<1>8. PhaseInv'  BY <1>1, <1>5 DEF PhaseInv
<1>9. UnbornInv'  BY <1>1 DEF UnbornInv, NoneAssumption
<1>10. /\ RunningInv' /\ LogsInv' /\ LogfileInv' /\ EditInv' /\ RecordInv' /\ FlushInv'
       /\ CompactionInv' /\ PinnedInv' /\ VersionInv' /\ SettledInv' /\ FreshInv'
  BY <1>1, <1>5 DEF RunningInv, LogsInv, LogfileInv, EditInv, RecordInv, FlushInv, CompactionInv,
     PinnedInv, VersionInv, SettledInv, FreshInv, Running
<1> QED BY <1>4, <1>7, <1>8, <1>9, <1>10 DEF DiskInv, FilesInv

(* VersionSet::Recover: the version is that of the MANIFEST, and the logs from its number on are to be read. *)
LEMMA RecoverVersionKeeps ==
  ASSUME Given, Options, DiskInv, RecoverVersion
  PROVE  DiskInv'
<1> DEFINE m == Latest
<1>1. /\ phase = "closed" /\ current # None /\ phase' = "logs" /\ descriptor' = reuse_logs
      /\ version' = m.files
      /\ numbers' = [log |-> m.log, logfile |-> 0, next |-> m.next + 1,
                     manifest |-> IF reuse_logs THEN current ELSE m.next,
                     sequence |-> m.sequence]
      /\ recovering' = [logs |-> LogsFrom(m.log), add |-> {}, max_sequence |-> 0,
                        save |-> ~reuse_logs, reused |-> FALSE]
      /\ UNCHANGED <<current, manifests, logs, tables, mem, imm, pending_outputs, flush,
                     compaction, edit, obsolete, bg_error, writing, pinned, history, counts>>
  BY DEF RecoverVersion, Latest, disk, history
<1>2. Types /\ FilesInv /\ ReadsInv  BY DEF DiskInv
<1>3. Issued' = Issued  BY <1>1, IssuedStays
<1>4. /\ current \in Nat /\ current \in DOMAIN manifests /\ m \in Reads /\ GoodRead(m)
      /\ (~PowerFails => Reads = {m})
  BY <1>1, <1>2, ReadingsAre
<1>5. /\ m.files \in SUBSET Nat /\ m.log \in Nat /\ m.next \in Nat /\ m.sequence \in Nat
      /\ m.files \subseteq DOMAIN tables /\ (\A n \in m.files : n < m.next)
      /\ m.log < m.next /\ current < m.next /\ m.sequence <= counts.writes
  BY <1>4 DEF GoodRead, CompleteState
<1>6. counts.writes \in Nat /\ reuse_logs \in BOOLEAN
  BY <1>2 DEF Types, HistoryTypes, Counts, StorageAssumption
<1>7. Reads' = Reads /\ Latest' = Latest /\ ReadsInv'  BY <1>1, <1>2, <1>4, <1>6, ReadsStay
<1> HIDE DEF m
<1>8. DOMAIN logs \subseteq Nat  BY <1>2 DEF Types, DiskTypes, Files
<1>9. recovering' \in Recovery /\ numbers' \in Numbers
  BY <1>1, <1>4, <1>5, <1>6, <1>8 DEF Recovery, Numbers, LogsFrom
<1>10. recovering' # None  BY <1>9 DEF NoneAssumption
<1>11. Types'
  <2>1. DiskTypes' /\ HistoryTypes'  BY <1>1, <1>2, <1>3 DEF Types, DiskTypes, HistoryTypes
  <2>2. ProcessTypes'  BY <1>1, <1>2, <1>3, <1>5, <1>6, <1>9 DEF Types, ProcessTypes
  <2> QED BY <2>1, <2>2 DEF Types
<1>12. /\ version = {} /\ mem = {} /\ recovering = None /\ edit = None
      /\ imm = None /\ pending_outputs = {} /\ flush = None /\ compaction = None
      /\ ~obsolete /\ ~bg_error /\ writing = None /\ pinned = None
  BY <1>1, <1>2 DEF FilesInv, PhaseInv
<1>13. PhaseInv' /\ UnbornInv'  BY <1>1, <1>10, <1>12 DEF PhaseInv, UnbornInv
<1>14. RunningInv'  BY <1>1, <1>4, <1>5, <1>6, <1>7 DEF RunningInv, m
<1>15. LogsInv'
  <2>1. LogsFrom(m.log) = {l \in DOMAIN logs : l >= m.log}  BY DEF LogsFrom
  <2>2. \A l \in DOMAIN logs \ LogsFrom(m.log) : l < m.log  BY <1>5, <1>8, <2>1
  <2>3. recovering'.logs = LogsFrom(m.log) /\ recovering'.add = {} /\ recovering'.reused = FALSE
        /\ recovering'.save = ~reuse_logs /\ numbers'.log = m.log /\ numbers'.next = m.next + 1
    BY <1>1
  <2>4. /\ LogsFrom(m.log) \subseteq DOMAIN logs /\ \A k \in LogsFrom(m.log) : m.log <= k
        /\ \A l \in DOMAIN logs \ LogsFrom(m.log) :
             l < m.next + 1 /\ \A k \in LogsFrom(m.log) : l < k
    BY <1>5, <1>8, <2>1
  <2>5. logs' = logs /\ mem' = {}  BY <1>1, <1>12
  <2> QED BY <1>6, <2>3, <2>4, <2>5 DEF LogsInv
<1>16. /\ LogfileInv' /\ EditInv' /\ RecordInv' /\ FlushInv' /\ CompactionInv' /\ PinnedInv'
       /\ SettledInv' /\ FreshInv'
  BY <1>1, <1>12 DEF LogfileInv, EditInv, RecordInv, FlushInv, CompactionInv, PinnedInv,
     SettledInv, FreshInv
<1>17. VersionInv'  BY <1>1, <1>7, <1>12 DEF VersionInv, Committed, m
<1> QED BY <1>7, <1>11, <1>13, <1>14, <1>15, <1>16, <1>17 DEF DiskInv, FilesInv

(* RecoverLogFile reads the oldest log; it keeps it, or puts its records into
   new tables. *)
Recovers(log, reused, made) ==
  /\ \A k \in recovering.logs : log <= k
  /\ log \in Nat /\ log \in DOMAIN logs
  /\ reused => reuse_logs /\ recovering.logs = {log} /\ made = {}
  /\ mem' = (IF reused THEN ToSet(logs[log].records) ELSE {})
  /\ recovering'.logs = recovering.logs \ {log} /\ recovering'.add = recovering.add \cup made
  /\ recovering'.save = (recovering.save \/ made # {}) /\ recovering'.reused = reused
  /\ recovering.max_sequence <= recovering'.max_sequence
  /\ \A r \in ToSet(logs[log].records) : r.seq <= recovering'.max_sequence
  /\ numbers'.logfile = (IF reused THEN log ELSE numbers.logfile) /\ log < numbers'.next
  /\ \A n \in made : numbers.next <= n /\ n < numbers'.next
  /\ DOMAIN tables' = DOMAIN tables \cup made
  /\ \A n \in made : tables'[n] \subseteq ToSet(logs[log].records)
  /\ reused \/ ToSet(logs[log].records) \subseteq UNION {tables'[n] : n \in made}
LEMMA RecoverLogFileIs ==
  ASSUME Given, DiskInv, RecoverLogFile
  PROVE  /\ phase = "logs" /\ Issued' = Issued
         /\ recovering # None /\ recovering \in Recovery /\ recovering.max_sequence <= counts.writes
         /\ edit = None /\ ~bg_error /\ imm = None /\ flush = None /\ compaction = None
         /\ ~obsolete /\ writing = None /\ pinned = None /\ current # None /\ pending_outputs = {}
         /\ numbers \in Numbers /\ numbers' \in Numbers /\ numbers.next <= numbers'.next
         /\ numbers'.log = numbers.log /\ numbers'.manifest = numbers.manifest
         /\ numbers'.sequence = numbers.sequence
         /\ recovering' \in Recovery /\ recovering' # None
         /\ recovering'.max_sequence <= counts.writes
         /\ \A n \in DOMAIN tables : n < numbers.next => tables'[n] = tables[n]
         /\ \A n \in DOMAIN tables' : tables'[n] \subseteq Issued
         /\ \E log \in recovering.logs, reused \in BOOLEAN, made \in SUBSET Nat :
              Recovers(log, reused, made)
         /\ UNCHANGED <<current, manifests, logs, phase, version, descriptor, imm,
                        pending_outputs, flush, compaction, edit, obsolete, bg_error, writing,
                        pinned, history, counts>>
<1> DEFINE log == Min(recovering.logs)
           records == logs[log].records
           chunks == Chunks(records)
           reused == reuse_logs /\ recovering.logs = {log} /\ Len(records) <= write_buffer_size
           next == numbers.next + (IF reused THEN 0 ELSE Len(chunks))
           made == numbers.next..next - 1
           sequences == {recovering.max_sequence} \cup {r.seq : r \in ToSet(records)}
<1>1. /\ phase = "logs" /\ recovering.logs # {}
      /\ tables' = [n \in DOMAIN tables \cup made |->
                      IF n \in made THEN chunks[n - numbers.next + 1] ELSE tables[n]]
      /\ mem' = IF reused THEN ToSet(records) ELSE {}
      /\ numbers' = [numbers EXCEPT !.next = MarkedUsed(next, log),
                                    !.logfile = IF reused THEN log ELSE @]
      /\ recovering' = [recovering EXCEPT
                          !.logs = @ \ {log}, !.add = @ \cup made,
                          !.save = @ \/ made # {}, !.reused = reused,
                          !.max_sequence = Max(sequences)]
      /\ UNCHANGED <<current, manifests, logs, phase, version, descriptor, imm, pending_outputs,
                     flush, compaction, edit, obsolete, bg_error, writing, pinned, history,
                     counts>>
  BY DEF RecoverLogFile, history
<1>2. Types /\ FilesInv /\ ReadsInv  BY DEF DiskInv
<1>3. Issued' = Issued  BY <1>1, IssuedStays
<1>4. /\ recovering # None /\ recovering \in Recovery /\ recovering.max_sequence <= counts.writes
      /\ edit = None /\ ~bg_error /\ imm = None /\ flush = None /\ compaction = None
      /\ ~obsolete /\ writing = None /\ pinned = None /\ current # None /\ pending_outputs = {}
  <2>1. PhaseInv /\ UnbornInv  BY <1>2 DEF FilesInv
  <2> QED BY <1>1, <1>2, <2>1 DEF Types, ProcessTypes, PhaseInv, UnbornInv
<1>5. /\ recovering.logs \in SUBSET Nat /\ recovering.add \in SUBSET Nat
      /\ recovering.max_sequence \in Nat /\ recovering.save \in BOOLEAN
      /\ recovering.reused \in BOOLEAN
  BY <1>4 DEF Recovery
<1>6. /\ numbers \in Numbers /\ numbers.next \in Nat /\ numbers.log \in Nat
      /\ numbers.logfile \in Nat /\ numbers.manifest \in Nat /\ numbers.sequence \in Nat
      /\ numbers.sequence <= counts.writes /\ counts.writes \in Nat
  BY <1>2 DEF Types, ProcessTypes, HistoryTypes, Numbers, Counts
<1>7. /\ log \in recovering.logs /\ \A k \in recovering.logs : log <= k
      /\ log \in Nat /\ log \in DOMAIN logs
  <2>1. log \in recovering.logs /\ \A k \in recovering.logs : log <= k  BY <1>1, <1>5, MinIs
  <2>2. recovering.logs \subseteq DOMAIN logs  BY <1>1, <1>2 DEF FilesInv, LogsInv
  <2> QED BY <1>5, <2>1, <2>2
<1>8. records \in Seq(Issued)  BY <1>2, <1>7 DEF Types, DiskTypes, Files, FileOf
<1>9. /\ Len(chunks) \in Nat /\ DOMAIN chunks = 1..Len(chunks)
      /\ \A i \in DOMAIN chunks : chunks[i] \subseteq ToSet(records)
      /\ ToSet(records) \subseteq UNION {chunks[i] : i \in DOMAIN chunks}
      /\ ToSet(records) \subseteq Issued
  BY <1>8, ChunksAre
<1> HIDE DEF chunks, records
<1>10. /\ next \in Nat /\ numbers.next <= next /\ made \subseteq Nat
       /\ \A n \in made : numbers.next <= n /\ n < next
       /\ \A n \in made : n - numbers.next + 1 \in DOMAIN chunks
       /\ ~reused => \A i \in DOMAIN chunks : numbers.next + i - 1 \in made
       /\ reused => made = {}
  <2>1. CASE reused
    <3>1. next = numbers.next + 0  BY <2>1
    <3>2. next = numbers.next  BY <1>6, <3>1
    <3> HIDE DEF next, reused
    <3>3. made = {}  BY <1>6, <3>2
    <3> QED BY <1>6, <2>1, <3>2, <3>3
  <2>2. CASE ~reused
    <3>1. next = numbers.next + Len(chunks)  BY <2>2
    <3> HIDE DEF next, reused
    <3>2. next \in Nat /\ numbers.next <= next  BY <1>6, <1>9, <3>1
    <3>3. \A n \in made : n \in Nat /\ numbers.next <= n /\ n < next  BY <1>6, <3>2
    <3> DEFINE first == numbers.next
               length == Len(chunks)
    <3> HIDE DEF made
    <3>4. ASSUME NEW n \in made PROVE n - numbers.next + 1 \in 1..Len(chunks)
      <4>1. n \in Nat /\ first <= n /\ n < first + length /\ first \in Nat /\ length \in Nat
        BY <1>6, <1>9, <3>1, <3>3
      <4> HIDE DEF first, length
      <4>2. n - first + 1 \in 1..length  BY <4>1
      <4> QED BY <4>2 DEF first, length
    <3>5. ASSUME NEW i \in 1..Len(chunks) PROVE numbers.next + i - 1 \in made
      <4>1. i \in Nat /\ 1 <= i /\ i <= length /\ first \in Nat /\ length \in Nat  BY <1>6, <1>9
      <4>2. next = first + length  BY <3>1
      <4> HIDE DEF first, length
      <4>3. first + i - 1 \in first..next - 1  BY <4>1, <4>2
      <4> QED BY <4>3 DEF first, made
    <3> QED BY <1>9, <2>2, <3>2, <3>3, <3>4, <3>5
  <2> QED BY <2>1, <2>2
<1>11. Max(sequences) \in Nat /\ Max(sequences) <= counts.writes
       /\ \A x \in sequences : x <= Max(sequences)
  <2>1. sequences \in SUBSET (0..counts.writes) /\ sequences # {}
    <3>1. \A r \in ToSet(records) : r.seq \in 0..counts.writes  BY <1>6, <1>9 DEF Issued
    <3>2. recovering.max_sequence \in 0..counts.writes  BY <1>4, <1>5, <1>6
    <3> QED BY <3>1, <3>2
  <2> HIDE DEF sequences
  <2>2. Max(sequences) \in sequences /\ \A x \in sequences : x <= Max(sequences)
    BY <1>6, <2>1, MaxIs
  <2>3. Max(sequences) \in 0..counts.writes  BY <2>1, <2>2
  <2>4. Max(sequences) \in Nat /\ Max(sequences) <= counts.writes  BY <1>6, <2>3
  <2> QED BY <2>2, <2>4
<1> HIDE DEF made, next, sequences, log, reused
<1>12. reused \in BOOLEAN  BY Zenon DEF reused
<1>13. /\ recovering'.logs = recovering.logs \ {log} /\ recovering'.add = recovering.add \cup made
       /\ recovering'.save = (recovering.save \/ made # {}) /\ recovering'.reused = reused
       /\ recovering'.max_sequence = Max(sequences) /\ recovering' \in Recovery
  <2>1. (recovering.save \/ made # {}) \in BOOLEAN  OBVIOUS
  <2> DEFINE save == recovering.save \/ made # {}
             max == Max(sequences)
             add == recovering.add \cup made
             rest == recovering.logs \ {log}
  <2>2. recovering' = [recovering EXCEPT !.logs = rest, !.add = add, !.save = save,
                         !.reused = reused, !.max_sequence = max]
    BY <1>1
  <2>3. /\ rest \in SUBSET Nat /\ add \in SUBSET Nat /\ save \in BOOLEAN /\ reused \in BOOLEAN
        /\ max \in Nat
    BY <1>5, <1>10, <1>11, <1>12, <2>1
  <2> HIDE DEF save, max, add, rest
  <2>4. /\ recovering'.logs = rest /\ recovering'.add = add /\ recovering'.save = save
        /\ recovering'.reused = reused /\ recovering'.max_sequence = max
    BY <1>4, <2>2, Zenon DEF Recovery
  <2>5. recovering' \in Recovery  BY <1>4, <2>2, <2>3, Zenon DEF Recovery
  <2> QED BY <2>4, <2>5 DEF save, max, add, rest
<1>14. /\ numbers'.next = MarkedUsed(next, log)
       /\ numbers'.logfile = (IF reused THEN log ELSE numbers.logfile)
       /\ numbers'.log = numbers.log /\ numbers'.manifest = numbers.manifest
       /\ numbers'.sequence = numbers.sequence
  BY <1>1, <1>6 DEF Numbers
<1>15. numbers'.next \in Nat /\ next <= numbers'.next /\ log < numbers'.next
  BY <1>7, <1>10, <1>14 DEF MarkedUsed
<1>16. numbers' \in Numbers
  <2>1. MarkedUsed(next, log) \in Nat /\ (IF reused THEN log ELSE numbers.logfile) \in Nat
    BY <1>6, <1>7, <1>14, <1>15
  <2> QED BY <1>1, <1>6, <2>1 DEF Numbers
<1>17. recovering' # None  BY <1>13 DEF NoneAssumption
<1>18. /\ DOMAIN tables' = DOMAIN tables \cup made
       /\ \A n \in DOMAIN tables : n < numbers.next => tables'[n] = tables[n]
       /\ \A n \in DOMAIN tables' : tables'[n] \subseteq Issued
  <2>1. \A n \in DOMAIN tables : tables[n] \subseteq Issued /\ n \in Nat
    BY <1>2 DEF Types, DiskTypes
  <2>2. DOMAIN tables' = DOMAIN tables \cup made  BY <1>1
  <2>3. ASSUME NEW n \in DOMAIN tables, n < numbers.next PROVE tables'[n] = tables[n]
    <3>1. n \notin made  BY <1>6, <1>10, <2>1, <2>3
    <3> QED BY <1>1, <3>1
  <2>4. ASSUME NEW n \in DOMAIN tables' PROVE tables'[n] \subseteq Issued
    BY <1>1, <1>9, <1>10, <2>1, <2>2
  <2> QED BY <2>2, <2>3, <2>4
<1>19. /\ \A n \in made : tables'[n] \subseteq ToSet(records)
       /\ reused \/ ToSet(records) \subseteq UNION {tables'[n] : n \in made}
  <2>1. \A n \in made : tables'[n] = chunks[n - numbers.next + 1]  BY <1>1
  <2>2. \A n \in made : tables'[n] \subseteq ToSet(records)  BY <1>9, <1>10, <2>1
  <2>3. ASSUME ~reused, NEW i \in DOMAIN chunks PROVE \E n \in made : chunks[i] = tables'[n]
    <3> DEFINE n == numbers.next + i - 1
    <3>1. n \in made  BY <1>10, <2>3
    <3>2. i \in Nat /\ numbers.next \in Nat  BY <1>6, <1>9
    <3>3. n - numbers.next + 1 = i  BY <3>2
    <3> QED BY <2>1, <3>1, <3>3
  <2> QED BY <1>9, <2>2, <2>3
<1>20. Recovers(log, reused, made)
  <2>1. made \subseteq Nat /\ (\A n \in made : numbers.next <= n /\ n < numbers'.next)
    BY <1>6, <1>10, <1>15
  <2>2. reused => reuse_logs /\ recovering.logs = {log} /\ made = {}  BY <1>10 DEF reused
  <2>3. /\ recovering.max_sequence <= recovering'.max_sequence
        /\ \A r \in ToSet(records) : r.seq <= recovering'.max_sequence
    BY <1>11, <1>13 DEF sequences
  <2> QED BY <1>1, <1>7, <1>13, <1>14, <1>15, <1>18, <1>19, <2>1, <2>2, <2>3 DEF Recovers, records
<1>21. made \in SUBSET Nat /\ numbers.next <= numbers'.next  BY <1>6, <1>10, <1>15
<1>22. \E l \in recovering.logs, r \in BOOLEAN, m \in SUBSET Nat : Recovers(l, r, m)
  BY <1>7, <1>12, <1>20, <1>21
<1>23. recovering'.max_sequence <= counts.writes  BY <1>11, <1>13
<1> QED BY <1>1, <1>3, <1>4, <1>6, <1>13, <1>14, <1>16, <1>17, <1>18, <1>21, <1>22, <1>23

(* Its tables are in no version; the number of the log is used up. *)
LEMMA RecoverLogFileKeeps ==
  ASSUME Given, Options, DiskInv, RecoverLogFile
  PROVE  DiskInv'
<1>1. /\ phase = "logs" /\ Issued' = Issued
      /\ UNCHANGED <<current, manifests, logs, phase, version, descriptor, imm, pending_outputs,
                     flush, compaction, edit, obsolete, bg_error, writing, pinned, history,
                     counts>>
  BY RecoverLogFileIs
<1>2. Types /\ FilesInv /\ ReadsInv  BY DEF DiskInv
<1>3. /\ recovering # None /\ recovering \in Recovery /\ recovering.max_sequence <= counts.writes
      /\ edit = None /\ ~bg_error /\ imm = None /\ flush = None /\ compaction = None
      /\ ~obsolete /\ writing = None /\ pinned = None /\ current # None /\ pending_outputs = {}
  BY RecoverLogFileIs
<1>4. /\ recovering' \in Recovery /\ recovering' # None /\ numbers' \in Numbers
      /\ recovering'.max_sequence <= counts.writes
      /\ \A n \in DOMAIN tables : n < numbers.next => tables'[n] = tables[n]
      /\ \A n \in DOMAIN tables' : tables'[n] \subseteq Issued
  BY RecoverLogFileIs
<1>5. recovering.logs \in SUBSET Nat /\ recovering.add \in SUBSET Nat  BY <1>3 DEF Recovery
<1>6. /\ numbers.next \in Nat /\ numbers.log \in Nat /\ numbers.manifest \in Nat
      /\ numbers.sequence <= counts.writes /\ counts.writes \in Nat
  BY <1>2 DEF Types, ProcessTypes, HistoryTypes, Numbers, Counts
<1>7. /\ numbers'.next \in Nat /\ numbers.next <= numbers'.next
      /\ numbers'.log = numbers.log /\ numbers'.manifest = numbers.manifest
      /\ numbers'.sequence = numbers.sequence
  BY <1>4, RecoverLogFileIs DEF Numbers
<1>8. PICK log \in recovering.logs, reused \in BOOLEAN, made \in SUBSET Nat :
        Recovers(log, reused, made)
  BY RecoverLogFileIs
<1>9. /\ log \in Nat /\ log \in DOMAIN logs /\ \A k \in recovering.logs : log <= k
      /\ reused => reuse_logs /\ recovering.logs = {log} /\ made = {}
      /\ mem' = (IF reused THEN ToSet(logs[log].records) ELSE {})
      /\ recovering'.logs = recovering.logs \ {log} /\ recovering'.add = recovering.add \cup made
      /\ recovering'.save = (recovering.save \/ made # {}) /\ recovering'.reused = reused
  BY <1>8 DEF Recovers
<1>10. /\ numbers'.logfile = (IF reused THEN log ELSE numbers.logfile) /\ log < numbers'.next
       /\ \A n \in made : n < numbers'.next
       /\ DOMAIN tables' = DOMAIN tables \cup made
  BY <1>8 DEF Recovers
<1>11. mem' \subseteq Issued
  <2>1. logs[log].records \in Seq(Issued)  BY <1>2, <1>9 DEF Types, DiskTypes, Files, FileOf
  <2>2. ToSet(logs[log].records) \subseteq Issued  BY <2>1 DEF ToSet
  <2> QED BY <1>9, <2>2
<1>12. Types'
  <2>1. DiskTypes' /\ HistoryTypes'
    BY <1>1, <1>2, <1>4, <1>10 DEF Types, DiskTypes, HistoryTypes
  <2>2. ProcessTypes'  BY <1>1, <1>2, <1>4, <1>6, <1>7, <1>11 DEF Types, ProcessTypes
  <2> QED BY <2>1, <2>2 DEF Types
<1>13. Reads' = Reads /\ Latest' = Latest /\ ReadsInv'
  <2>1. current \in DOMAIN manifests  BY <1>2, <1>3 DEF ReadsInv
  <2> QED BY <1>1, <1>2, <1>3, <1>6, <1>10, <2>1, ReadsStay
<1>14. PhaseInv' /\ UnbornInv'
  <2>1. PhaseInv /\ UnbornInv  BY <1>2 DEF FilesInv
  <2>2. PhaseInv'  BY <1>1, <1>4, <2>1 DEF PhaseInv
  <2> QED BY <1>1, <2>1, <2>2 DEF UnbornInv
<1>15. RunningInv'
  <2>1. /\ Latest.next <= numbers.next /\ numbers.manifest < numbers.next
        /\ version \subseteq DOMAIN tables /\ \A n \in version : n < numbers.next
        /\ (numbers.manifest # current => ~reuse_logs) /\ (numbers.manifest = current => reuse_logs)
    BY <1>1, <1>2 DEF FilesInv, RunningInv, Running
  <2>2. Latest.next \in Nat /\ version \subseteq Nat
    BY <1>2, <1>3, ReadingsAre DEF GoodRead, CompleteState, Types, ProcessTypes
  <2>3. Latest.next <= numbers'.next /\ numbers.manifest < numbers'.next
        /\ \A n \in version : n < numbers'.next
    BY <1>6, <1>7, <2>1, <2>2
  <2> QED BY <1>1, <1>7, <1>10, <1>13, <2>1, <2>3 DEF RunningInv
<1>16. LogsInv'
  <2>1. /\ recovering.logs \subseteq DOMAIN logs
        /\ \A k \in recovering.logs : numbers.log <= k
        /\ \A l \in DOMAIN logs \ recovering.logs :
             l < numbers.next /\ \A k \in recovering.logs : l < k
        /\ recovering.add \subseteq DOMAIN tables /\ \A n \in recovering.add : n < numbers.next
        /\ ~recovering.save => reuse_logs /\ recovering.add = {}
    BY <1>1, <1>2 DEF FilesInv, LogsInv
  <2>2. DOMAIN logs \subseteq Nat  BY <1>2 DEF Types, DiskTypes, Files
  <2>3. \A k \in recovering'.logs : k \in recovering.logs /\ numbers.log <= k /\ log < k
    BY <1>5, <1>9, <2>1
  <2>4. \A l \in DOMAIN logs \ recovering'.logs :
             l < numbers'.next /\ \A k \in recovering'.logs : l < k
    <3> SUFFICES ASSUME NEW l \in DOMAIN logs \ recovering'.logs
                 PROVE  l < numbers'.next /\ \A k \in recovering'.logs : l < k
      OBVIOUS
    <3>1. CASE l = log
      BY <1>10, <2>3, <3>1
    <3>2. CASE l # log
      <4>1. l \in DOMAIN logs \ recovering.logs  BY <1>9, <3>2
      <4> QED BY <1>6, <1>7, <2>1, <2>2, <2>3, <4>1
    <3> QED BY <3>1, <3>2
  <2>5. recovering'.add \subseteq DOMAIN tables' /\ \A n \in recovering'.add : n < numbers'.next
    <3>1. \A n \in recovering.add : n < numbers'.next  BY <1>5, <1>6, <1>7, <2>1
    <3> QED BY <1>9, <1>10, <2>1, <3>1
  <2>6. reused => \A l \in DOMAIN logs : l <= log  BY <1>9, <2>1, <2>2
  <2>7. /\ recovering'.logs \subseteq DOMAIN logs' /\ \A k \in recovering'.logs : numbers'.log <= k
        /\ numbers.log <= log
    BY <1>1, <1>7, <1>9, <2>1, <2>3
  <2>8. ~recovering'.save => reuse_logs /\ recovering'.add = {}  BY <1>9, <2>1
  <2>9. recovering'.reused => /\ reuse_logs /\ recovering'.logs = {}
                              /\ numbers'.logfile \in DOMAIN logs' /\ numbers'.log <= numbers'.logfile
                              /\ \A l \in DOMAIN logs' : l <= numbers'.logfile
                              /\ mem' = ToSet(logs'[numbers'.logfile].records)
    BY <1>1, <1>7, <1>9, <1>10, <2>6, <2>7
  <2>10. ~recovering'.reused => mem' = {}  BY <1>9
  <2> QED BY <1>1, <2>4, <2>5, <2>7, <2>8, <2>9, <2>10 DEF LogsInv
<1>17. /\ LogfileInv' /\ EditInv' /\ RecordInv' /\ FlushInv' /\ CompactionInv' /\ PinnedInv'
       /\ SettledInv' /\ FreshInv'
  BY <1>1, <1>3 DEF LogfileInv, EditInv, RecordInv, FlushInv, CompactionInv, PinnedInv,
     SettledInv, FreshInv
<1>18. VersionInv'
  <2>1. Latest.files = version /\ Latest.log = numbers.log
    BY <1>1, <1>2, <1>3 DEF FilesInv, VersionInv, Running, Committed
  <2> QED BY <1>1, <1>3, <1>7, <1>13, <2>1 DEF VersionInv, Committed
<1> QED BY <1>12, <1>13, <1>14, <1>15, <1>16, <1>17, <1>18 DEF DiskInv, FilesInv

(* A log that is passed over: its number is used up. *)
LEMMA SkipLogFileKeeps ==
  ASSUME Given, Options, DiskInv, SkipLogFile
  PROVE  DiskInv'
<1> DEFINE log == Min(recovering.logs)
<1>1. /\ phase = "logs" /\ recovering.logs # {}
      /\ counts' = [counts EXCEPT !.errors = @ + 1, !.skips = @ + 1]
      /\ numbers' = [numbers EXCEPT !.next = MarkedUsed(@, log)]
      /\ recovering' = [recovering EXCEPT !.logs = @ \ {log}, !.reused = FALSE]
      /\ UNCHANGED <<current, manifests, logs, tables, phase, version, descriptor, mem, imm,
                     pending_outputs, flush, compaction, edit, obsolete, bg_error, writing,
                     pinned, history>>
  BY DEF SkipLogFile, disk, history
<1>2. Types /\ FilesInv /\ ReadsInv  BY DEF DiskInv
<1>3. counts \in Counts /\ counts' \in Counts /\ counts'.writes = counts.writes /\ Issued' = Issued
  <2>1. counts \in Counts  BY <1>2 DEF Types, HistoryTypes
  <2>2. counts' \in Counts /\ counts'.writes = counts.writes
    <3> DEFINE errors == counts.errors + 1
               skips == counts.skips + 1
    <3>1. errors \in Nat /\ skips \in Nat  BY <2>1 DEF Counts
    <3>2. counts' = [counts EXCEPT !.errors = errors, !.skips = skips]  BY <1>1
    <3> HIDE DEF errors, skips
    <3> QED BY <2>1, <3>1, <3>2 DEF Counts
  <2> QED BY <2>1, <2>2, IssuedStays
<1>4. /\ recovering # None /\ recovering \in Recovery /\ recovering.max_sequence <= counts.writes
      /\ edit = None /\ ~bg_error /\ imm = None /\ flush = None /\ compaction = None
      /\ ~obsolete /\ writing = None /\ pinned = None /\ current # None /\ pending_outputs = {}
  <2>1. PhaseInv /\ UnbornInv  BY <1>2 DEF FilesInv
  <2> QED BY <1>1, <1>2, <2>1 DEF Types, ProcessTypes, PhaseInv, UnbornInv
<1>5. recovering.logs \in SUBSET Nat  BY <1>4 DEF Recovery
<1>6. /\ numbers \in Numbers /\ numbers.next \in Nat /\ numbers.log \in Nat
      /\ numbers.manifest \in Nat /\ counts.writes \in Nat
  BY <1>2, <1>3 DEF Types, ProcessTypes, Numbers, Counts
<1>7. /\ log \in recovering.logs /\ \A k \in recovering.logs : log <= k
      /\ log \in Nat
  BY <1>1, <1>5, MinIs
<1> HIDE DEF log
<1>8. /\ recovering'.logs = recovering.logs \ {log} /\ recovering'.add = recovering.add
      /\ recovering'.save = recovering.save /\ recovering'.reused = FALSE
      /\ recovering'.max_sequence = recovering.max_sequence /\ recovering' \in Recovery
  BY <1>1, <1>4, <1>5 DEF Recovery
<1>9. /\ numbers'.next = MarkedUsed(numbers.next, log) /\ numbers'.logfile = numbers.logfile
      /\ numbers'.log = numbers.log /\ numbers'.manifest = numbers.manifest
      /\ numbers'.sequence = numbers.sequence
  BY <1>1, <1>6 DEF Numbers
<1>10. numbers'.next \in Nat /\ numbers.next <= numbers'.next /\ log < numbers'.next
  BY <1>6, <1>7, <1>9 DEF MarkedUsed
<1>11. numbers' \in Numbers  BY <1>1, <1>6, <1>9, <1>10 DEF Numbers
<1>12. recovering' # None  BY <1>8 DEF NoneAssumption
<1>13. Types'
  <2>1. DiskTypes' /\ HistoryTypes'  BY <1>1, <1>2, <1>3 DEF Types, DiskTypes, HistoryTypes
  <2>2. ProcessTypes'  BY <1>1, <1>2, <1>3, <1>4, <1>8, <1>9, <1>11 DEF Types, ProcessTypes
  <2> QED BY <2>1, <2>2 DEF Types
<1>14. Reads' = Reads /\ Latest' = Latest /\ ReadsInv'
  <2>1. current \in DOMAIN manifests  BY <1>2, <1>4 DEF ReadsInv
  <2> QED BY <1>1, <1>2, <1>3, <1>4, <1>6, <2>1, ReadsStay
<1>15. PhaseInv' /\ UnbornInv'
  <2>1. PhaseInv /\ UnbornInv  BY <1>2 DEF FilesInv
  <2>2. PhaseInv'  BY <1>1, <1>12, <2>1 DEF PhaseInv
  <2> QED BY <1>1, <2>1, <2>2 DEF UnbornInv
<1>16. RunningInv'
  <2>1. /\ Latest.next <= numbers.next /\ numbers.manifest < numbers.next
        /\ version \subseteq DOMAIN tables /\ \A n \in version : n < numbers.next
        /\ (numbers.manifest # current => ~reuse_logs) /\ (numbers.manifest = current => reuse_logs)
    BY <1>1, <1>2 DEF FilesInv, RunningInv, Running
  <2>2. Latest.next \in Nat /\ version \subseteq Nat
    BY <1>2, <1>4, ReadingsAre DEF GoodRead, CompleteState, Types, ProcessTypes
  <2>3. Latest.next <= numbers'.next /\ numbers.manifest < numbers'.next
        /\ \A n \in version : n < numbers'.next
    BY <1>6, <1>10, <2>1, <2>2
  <2> QED BY <1>1, <1>9, <1>14, <2>1, <2>3 DEF RunningInv
<1>17. LogsInv'
  <2>1. /\ recovering.logs \subseteq DOMAIN logs
        /\ \A k \in recovering.logs : numbers.log <= k
        /\ \A l \in DOMAIN logs \ recovering.logs :
             l < numbers.next /\ \A k \in recovering.logs : l < k
        /\ recovering.add \subseteq DOMAIN tables /\ \A n \in recovering.add : n < numbers.next
        /\ ~recovering.save => reuse_logs /\ recovering.add = {}
        /\ mem = {}
    BY <1>1, <1>2 DEF FilesInv, LogsInv
  <2>2. DOMAIN logs \subseteq Nat /\ recovering.add \subseteq Nat
    BY <1>2, <1>4 DEF Types, DiskTypes, Files, Recovery
  <2>3. \A k \in recovering'.logs : k \in recovering.logs /\ numbers.log <= k /\ log < k
    BY <1>5, <1>7, <1>8, <2>1
  <2>4. \A l \in DOMAIN logs \ recovering'.logs :
             l < numbers'.next /\ \A k \in recovering'.logs : l < k
    <3> SUFFICES ASSUME NEW l \in DOMAIN logs \ recovering'.logs
                 PROVE  l < numbers'.next /\ \A k \in recovering'.logs : l < k
      OBVIOUS
    <3>1. CASE l = log
      BY <1>10, <2>3, <3>1
    <3>2. CASE l # log
      <4>1. l \in DOMAIN logs \ recovering.logs  BY <1>8, <3>2
      <4> QED BY <1>6, <1>10, <2>1, <2>2, <2>3, <4>1
    <3> QED BY <3>1, <3>2
  <2>5. recovering'.add \subseteq DOMAIN tables' /\ \A n \in recovering'.add : n < numbers'.next
    BY <1>1, <1>6, <1>8, <1>10, <2>1, <2>2
  <2>6. recovering'.logs \subseteq DOMAIN logs' /\ \A k \in recovering'.logs : numbers'.log <= k
    BY <1>1, <1>9, <2>1, <2>3
  <2> QED BY <1>1, <1>8, <2>1, <2>4, <2>5, <2>6 DEF LogsInv
<1>18. /\ LogfileInv' /\ EditInv' /\ RecordInv' /\ FlushInv' /\ CompactionInv' /\ PinnedInv'
       /\ SettledInv' /\ FreshInv'
  BY <1>1, <1>4 DEF LogfileInv, EditInv, RecordInv, FlushInv, CompactionInv, PinnedInv,
     SettledInv, FreshInv
<1>19. VersionInv'
  <2>1. Latest.files = version /\ Latest.log = numbers.log
    BY <1>1, <1>2, <1>4 DEF FilesInv, VersionInv, Running, Committed
  <2> QED BY <1>1, <1>4, <1>9, <1>14, <2>1 DEF VersionInv, Committed
<1> QED BY <1>13, <1>14, <1>15, <1>16, <1>17, <1>18, <1>19 DEF DiskInv, FilesInv

(* What NewLog makes of the numbers. *)
LEMMA NewLogIs ==
  ASSUME Given, Options, DiskInv, NewLog
  PROVE  /\ phase = "logs" /\ recovering # None /\ recovering \in Recovery /\ recovering.logs = {}
         /\ edit = None /\ current # None
         /\ numbers'.sequence = LastSequence(numbers.sequence, recovering.max_sequence)
         /\ numbers.sequence <= numbers'.sequence /\ recovering.max_sequence <= numbers'.sequence
         /\ numbers'.sequence \in {numbers.sequence, recovering.max_sequence}
         /\ numbers'.sequence <= counts.writes
         /\ numbers'.log = numbers.log /\ numbers'.manifest = numbers.manifest
         /\ numbers'.logfile = IF recovering.reused THEN numbers.logfile ELSE numbers.next
         /\ numbers'.next = IF recovering.reused THEN numbers.next ELSE numbers.next + 1
         /\ numbers \in Numbers /\ numbers' \in Numbers
         /\ logs' = IF recovering.reused THEN logs ELSE With(logs, numbers.next, NewFile)
         /\ recovering.save =>
              /\ edit' \in Change /\ edit' # None /\ phase' = "save" /\ ~obsolete'
              /\ edit'.step = "write" /\ edit'.by = "open" /\ edit'.fresh = ~reuse_logs
              /\ edit'.record = Edit(recovering.add, {}, numbers'.logfile, numbers'.next,
                                     numbers'.sequence)
              /\ doubtful' = doubtful
         /\ ~recovering.save =>
              /\ edit' = None /\ phase' = "open" /\ obsolete' /\ doubtful' = {}
         /\ obsolete' \in BOOLEAN
         /\ recovering' = None
         /\ UNCHANGED <<current, manifests, tables, version, descriptor, mem, imm,
                        pending_outputs, flush, compaction, bg_error, writing, pinned,
                        acknowledged, durable, counts>>
<1> DEFINE sequence == LastSequence(numbers.sequence, recovering.max_sequence)
           logfile == IF recovering.reused THEN numbers.logfile ELSE numbers.next
           next == IF recovering.reused THEN numbers.next ELSE numbers.next + 1
<1>1. /\ phase = "logs" /\ recovering.logs = {}
      /\ logs' = IF recovering.reused THEN logs ELSE With(logs, logfile, NewFile)
      /\ numbers' = [numbers EXCEPT !.sequence = sequence, !.logfile = logfile, !.next = next]
      /\ edit' = IF recovering.save
                 THEN [step |-> "write", by |-> "open", fresh |-> ~descriptor,
                       record |-> Edit(recovering.add, {}, logfile, next, sequence)]
                 ELSE None
      /\ phase' = IF recovering.save THEN "save" ELSE "open"
      /\ obsolete' = ~recovering.save
      /\ doubtful' = IF recovering.save THEN doubtful ELSE {}
      /\ recovering' = None
      /\ UNCHANGED <<current, manifests, tables, version, descriptor, mem, imm, pending_outputs,
                     flush, compaction, bg_error, writing, pinned, acknowledged, durable, counts>>
  BY DEF NewLog
<1>2. /\ recovering # None /\ recovering \in Recovery /\ recovering.max_sequence <= counts.writes
      /\ edit = None /\ descriptor = reuse_logs /\ current # None
      /\ numbers \in Numbers /\ numbers.sequence <= counts.writes /\ counts \in Counts
  BY <1>1 DEF DiskInv, FilesInv, PhaseInv, UnbornInv, Types, ProcessTypes, HistoryTypes
<1>3. /\ recovering.max_sequence \in Nat /\ numbers.sequence \in Nat /\ numbers.logfile \in Nat
      /\ numbers.next \in Nat /\ counts.writes \in Nat /\ recovering.add \in SUBSET Nat
      /\ recovering.save \in BOOLEAN /\ recovering.reused \in BOOLEAN
  BY <1>2 DEF Recovery, Numbers, Counts
<1>4. /\ numbers.sequence <= sequence /\ recovering.max_sequence <= sequence
      /\ sequence \in {numbers.sequence, recovering.max_sequence}
  <2> DEFINE S == {numbers.sequence, recovering.max_sequence}
  <2>1. S \in SUBSET (0..counts.writes) /\ S # {}  BY <1>2, <1>3
  <2>2. sequence = Max(S)  BY DEF LastSequence
  <2> HIDE DEF S, sequence
  <2>3. Max(S) \in S /\ \A x \in S : x <= Max(S)  BY <1>3, <2>1, MaxIs
  <2> QED BY <2>2, <2>3 DEF S
<1>5. sequence \in Nat /\ sequence <= counts.writes  BY <1>2, <1>3, <1>4
<1>6. logfile \in Nat /\ next \in Nat  BY <1>3
<1> HIDE DEF sequence, logfile, next
<1>7. /\ numbers'.sequence = sequence /\ numbers'.logfile = logfile /\ numbers'.next = next
      /\ numbers'.log = numbers.log /\ numbers'.manifest = numbers.manifest
      /\ numbers' \in Numbers
  BY <1>1, <1>2, <1>5, <1>6 DEF Numbers
<1>8. ASSUME recovering.save
      PROVE  /\ edit' \in Change /\ edit'.step = "write" /\ edit'.by = "open"
             /\ edit'.fresh = ~reuse_logs
             /\ edit'.record = Edit(recovering.add, {}, logfile, next, sequence)
  <2> DEFINE record == Edit(recovering.add, {}, logfile, next, sequence)
             fresh == ~descriptor
  <2>1. edit' = [step |-> "write", by |-> "open", fresh |-> fresh, record |-> record]
    BY <1>1, <1>8
  <2>2. record \in VersionEdit  BY <1>3, <1>5, <1>6 DEF Edit, VersionEdit
  <2>3. fresh \in BOOLEAN /\ fresh = ~reuse_logs  BY <1>2, Zenon
  <2> HIDE DEF record, fresh
  <2>4. edit' \in Change  BY <2>1, <2>2, <2>3, Zenon DEF Change
  <2>5. /\ edit'.step = "write" /\ edit'.by = "open" /\ edit'.fresh = fresh
        /\ edit'.record = record
    BY <2>1, Zenon
  <2> QED BY <2>3, <2>4, <2>5 DEF record
<1>9. recovering.save => edit' # None  BY <1>8 DEF NoneAssumption
<1>10. obsolete' \in BOOLEAN  BY <1>1, Zenon
<1>11. /\ recovering.save => phase' = "save" /\ ~obsolete' /\ doubtful' = doubtful
       /\ ~recovering.save => edit' = None /\ phase' = "open" /\ obsolete' /\ doubtful' = {}
  BY <1>1
<1>12. logs' = IF recovering.reused THEN logs ELSE With(logs, numbers.next, NewFile)
  BY <1>1 DEF logfile
<1>13. UNCHANGED <<current, manifests, tables, version, descriptor, mem, imm, pending_outputs,
                   flush, compaction, bg_error, writing, pinned, acknowledged, durable, counts>>
  BY <1>1
<1> QED BY <1>1, <1>2, <1>4, <1>5, <1>7, <1>8, <1>9, <1>10, <1>11, <1>12, <1>13
        DEF sequence, logfile, next

(* The end of a recovery: a new log, or the last one again, and the edit. *)
LEMMA NewLogKeeps ==
  ASSUME Given, Options, DiskInv, NewLog
  PROVE  DiskInv'
<1>1. /\ phase = "logs" /\ recovering # None /\ recovering \in Recovery /\ recovering.logs = {}
      /\ edit = None /\ current # None
      /\ numbers'.sequence <= counts.writes
      /\ numbers'.log = numbers.log /\ numbers'.manifest = numbers.manifest
      /\ numbers'.logfile = IF recovering.reused THEN numbers.logfile ELSE numbers.next
      /\ numbers'.next = IF recovering.reused THEN numbers.next ELSE numbers.next + 1
      /\ numbers \in Numbers /\ numbers' \in Numbers
      /\ logs' = IF recovering.reused THEN logs ELSE With(logs, numbers.next, NewFile)
      /\ obsolete' \in BOOLEAN /\ recovering' = None
  BY NewLogIs
<1>2. ASSUME recovering.save
      PROVE  /\ edit' \in Change /\ edit' # None /\ phase' = "save" /\ ~obsolete'
             /\ edit'.step = "write" /\ edit'.by = "open" /\ edit'.fresh = ~reuse_logs
             /\ edit'.record = Edit(recovering.add, {}, numbers'.logfile, numbers'.next,
                                    numbers'.sequence)
             /\ doubtful' = doubtful
  BY <1>2, NewLogIs
<1>3. ASSUME ~recovering.save
      PROVE  edit' = None /\ phase' = "open" /\ obsolete' /\ doubtful' = {}
  BY <1>3, NewLogIs
<1>4. UNCHANGED <<current, manifests, tables, version, descriptor, mem, imm, pending_outputs,
                  flush, compaction, bg_error, writing, pinned, acknowledged, durable, counts>>
  BY NewLogIs
<1>5. Types /\ FilesInv /\ ReadsInv  BY DEF DiskInv
<1>6. Issued' = Issued  BY <1>4, IssuedStays
<1>7. /\ numbers.next \in Nat /\ numbers.log \in Nat /\ numbers.logfile \in Nat
      /\ numbers.manifest \in Nat /\ numbers'.sequence \in Nat /\ counts.writes \in Nat
      /\ version \subseteq Nat /\ DOMAIN logs \subseteq Nat
  BY <1>1, <1>5 DEF Numbers, Types, ProcessTypes, HistoryTypes, Counts, DiskTypes, Files
<1>8. /\ recovering.add \in SUBSET Nat /\ recovering.save \in BOOLEAN
      /\ recovering.reused \in BOOLEAN
  BY <1>1 DEF Recovery
<1>9. /\ \A l \in DOMAIN logs : l < numbers.next
      /\ recovering.add \subseteq DOMAIN tables /\ \A n \in recovering.add : n < numbers.next
      /\ recovering.reused => /\ reuse_logs
                              /\ numbers.logfile \in DOMAIN logs /\ numbers.log <= numbers.logfile
                              /\ \A l \in DOMAIN logs : l <= numbers.logfile
                              /\ mem = ToSet(logs[numbers.logfile].records)
      /\ ~recovering.reused => mem = {}
      /\ ~recovering.save => reuse_logs /\ recovering.add = {}
  BY <1>1, <1>5 DEF FilesInv, LogsInv
<1>10. /\ imm = None /\ pending_outputs = {} /\ flush = None /\ compaction = None
       /\ ~obsolete /\ ~bg_error /\ writing = None /\ pinned = None /\ descriptor = reuse_logs
       /\ Latest.files = version /\ Latest.log = numbers.log
       /\ Latest.next <= numbers.next /\ numbers.manifest < numbers.next
       /\ version \subseteq DOMAIN tables /\ \A n \in version : n < numbers.next
       /\ (numbers.manifest # current => ~reuse_logs) /\ (numbers.manifest = current => reuse_logs)
  BY <1>1, <1>5 DEF FilesInv, PhaseInv, VersionInv, RunningInv, Running, Committed
<1>11. reuse_logs => ~PowerFails  BY DEF Options
<1>12. /\ Latest \in Reads /\ GoodRead(Latest) /\ current \in DOMAIN manifests
       /\ (~PowerFails => Reads = {Latest}) /\ Latest.next \in Nat /\ Latest.log \in Nat
  BY <1>1, <1>5, ReadingsAre DEF GoodRead, CompleteState
<1>13. Reads' = Reads /\ Latest' = Latest /\ ReadsInv'
  BY <1>1, <1>4, <1>5, <1>7, <1>12, ReadsStay
<1>14. numbers'.next \in Nat /\ numbers.next <= numbers'.next /\ numbers'.logfile < numbers'.next
       /\ numbers'.logfile \in Nat /\ numbers.log <= numbers'.logfile
  <2>1. CASE recovering.reused
    BY <1>1, <1>7, <1>9, <2>1
  <2>2. CASE ~recovering.reused
    <3>1. numbers.log < Latest.next  BY <1>10, <1>12 DEF GoodRead
    <3> QED BY <1>1, <1>7, <1>10, <1>12, <2>2, <3>1
  <2> QED BY <2>1, <2>2
<1>15. Files(logs', Issued) /\ numbers'.logfile \in DOMAIN logs'
       /\ (\A l \in DOMAIN logs' : l <= numbers'.logfile)
       /\ mem = ToSet(logs'[numbers'.logfile].records)
  <2>1. CASE recovering.reused
    BY <1>1, <1>5, <1>9, <2>1 DEF Types, DiskTypes
  <2>2. CASE ~recovering.reused
    <3>1. Files(logs', Issued)
      <4>1. NewFile \in FileOf(Issued) /\ NewFile.synced <= Len(NewFile.records)
        BY NewFileIsFile
      <4> QED BY <1>1, <1>5, <1>7, <2>2, <4>1, FilesWith DEF Types, DiskTypes
    <3>2. DOMAIN logs' = DOMAIN logs \cup {numbers.next} /\ logs'[numbers.next] = NewFile
      BY <1>1, <2>2 DEF With
    <3>3. numbers'.logfile = numbers.next /\ mem = {}  BY <1>1, <1>9, <2>2
    <3>4. ToSet(NewFile.records) = {}  BY NewFileIsFile DEF ToSet
    <3>5. \A l \in DOMAIN logs' : l <= numbers.next  BY <1>7, <1>9, <3>2
    <3> QED BY <3>1, <3>2, <3>3, <3>4, <3>5
  <2> QED BY <2>1, <2>2
<1>16. ASSUME NEW s \in Reads PROVE s.log <= numbers'.logfile
  <2>1. s.log \in Nat /\ s.next \in Nat /\ s.log < s.next /\ s.next <= Latest.next
    BY <1>1, <1>5 DEF ReadsInv, GoodRead, CompleteState
  <2>2. CASE recovering.reused
    <3>1. s = Latest  BY <1>9, <1>11, <1>12, <2>2
    <3> QED BY <1>10, <1>14, <3>1
  <2>3. CASE ~recovering.reused
    BY <1>1, <1>7, <1>10, <1>12, <2>1, <2>3
  <2> QED BY <2>2, <2>3
<1>17. ASSUME recovering.save
       PROVE  /\ edit'.record.add = recovering.add /\ edit'.record.del = {}
              /\ edit'.record.log = numbers'.logfile /\ edit'.record.next = numbers'.next
              /\ edit'.record.sequence = numbers'.sequence
  BY <1>2, <1>17 DEF Edit
<1>18. Types'
  <2>1. DiskTypes'  BY <1>4, <1>5, <1>6, <1>15 DEF Types, DiskTypes
  <2>2. doubtful' = doubtful \/ doubtful' = {}  BY <1>2, <1>3
  <2>3. HistoryTypes'  BY <1>4, <1>5, <1>6, <2>2 DEF Types, HistoryTypes
  <2>4. edit' # None => edit' \in Change /\ edit'.record.sequence <= counts'.writes
    BY <1>1, <1>2, <1>3, <1>4, <1>17
  <2>5. phase' \in {"save", "open"}  BY <1>2, <1>3
  <2>6. ProcessTypes'  BY <1>1, <1>4, <1>5, <1>6, <2>4, <2>5 DEF Types, ProcessTypes
  <2> QED BY <2>1, <2>3, <2>6 DEF Types
<1>19. PhaseInv' /\ UnbornInv'
  <2>1. CASE recovering.save
    BY <1>1, <1>2, <1>4, <1>10, <2>1 DEF PhaseInv, UnbornInv
  <2>2. CASE ~recovering.save
    BY <1>1, <1>3, <1>4, <1>9, <1>10, <2>2 DEF PhaseInv, UnbornInv
  <2> QED BY <2>1, <2>2
<1>20. RunningInv'
  <2>1. /\ Latest.next <= numbers'.next /\ numbers.manifest < numbers'.next
        /\ \A n \in version : n < numbers'.next
    BY <1>7, <1>10, <1>12, <1>14
  <2>2. CASE recovering.save
    BY <1>1, <1>2, <1>4, <1>10, <1>13, <2>1, <2>2 DEF RunningInv
  <2>3. CASE ~recovering.save
    BY <1>1, <1>3, <1>4, <1>9, <1>10, <1>13, <2>1, <2>3 DEF RunningInv
  <2> QED BY <2>2, <2>3
<1>21. LogsInv'  BY <1>2, <1>3 DEF LogsInv
<1>22. LogfileInv'  BY <1>1, <1>13, <1>14, <1>15, <1>16 DEF LogfileInv
<1>23. EditInv'
  <2>1. CASE recovering.save
    BY <1>2, <1>4, <1>10, <1>15, <1>17, <2>1 DEF EditInv
  <2>2. CASE ~recovering.save
    BY <1>3, <2>2 DEF EditInv
  <2> QED BY <2>1, <2>2
<1>24. RecordInv'
  <2>1. CASE recovering.save
    <3>1. \A n \in version \cup recovering.add : n < numbers'.next
      <4>1. \A n \in version : n < numbers'.next  BY <1>7, <1>10, <1>14
      <4>2. \A n \in recovering.add : n < numbers'.next  BY <1>7, <1>8, <1>9, <1>14
      <4> QED BY <4>1, <4>2
    <3>2. numbers.manifest < numbers'.next /\ Latest.next <= numbers'.next
      BY <1>7, <1>10, <1>12, <1>14
    <3> QED BY <1>1, <1>4, <1>9, <1>13, <1>14, <1>17, <2>1, <3>1, <3>2 DEF RecordInv
  <2>2. CASE ~recovering.save
    BY <1>3, <2>2 DEF RecordInv
  <2> QED BY <2>1, <2>2
<1>25. FlushInv' /\ CompactionInv' /\ PinnedInv'
  BY <1>4, <1>10 DEF FlushInv, CompactionInv, PinnedInv
<1>26. VersionInv' /\ FreshInv'
  <2>1. ~Committed' /\ FreshInv'  BY <1>2, <1>3 DEF Committed, FreshInv
  <2> QED BY <1>1, <1>4, <1>10, <1>13, <2>1 DEF VersionInv
<1>27. SettledInv'
  <2>1. CASE recovering.save
    BY <1>2, <2>1 DEF SettledInv
  <2>2. CASE ~recovering.save
    BY <1>3, <1>9, <1>11, <1>12, <1>13, <2>2 DEF SettledInv
  <2> QED BY <2>1, <2>2
<1> QED BY <1>13, <1>18, <1>19, <1>20, <1>21, <1>22, <1>23, <1>24, <1>25, <1>26, <1>27
        DEF DiskInv, FilesInv

(* DB::Open gives up; a MANIFEST that CURRENT does not name is deleted. *)
LEMMA OpenFailsKeeps ==
  ASSUME Given, Options, DiskInv, OpenFails
  PROVE  DiskInv'
<1>1. /\ phase \in {"created", "logs"}
      /\ counts' = [counts EXCEPT !.errors = @ + 1] \/ counts' = counts
      /\ manifests' = IF phase = "created" THEN Without(manifests, 1) ELSE manifests
      /\ ToClosed
      /\ UNCHANGED <<current, logs, tables, history>>
  BY DEF OpenFails, Fail, history
<1>2. Types /\ FilesInv /\ ReadsInv  BY DEF DiskInv
<1>3. counts \in Counts /\ counts' \in Counts /\ counts'.writes = counts.writes /\ Issued' = Issued
      /\ counts.writes \in Nat
  <2>1. counts \in Counts  BY <1>2 DEF Types, HistoryTypes
  <2>2. counts' \in Counts /\ counts'.writes = counts.writes /\ counts.writes \in Nat
    BY <1>1, <2>1 DEF Counts
  <2> QED BY <2>1, <2>2, IssuedStays
<1>4. Files(manifests', EditRecord)  BY <1>1, <1>2, FilesWithout DEF Types, DiskTypes
<1>5. Types'
  <2>1. DiskTypes' /\ HistoryTypes'
    BY <1>1, <1>2, <1>3, <1>4 DEF Types, DiskTypes, HistoryTypes
  <2>2. ProcessTypes'  BY <1>1, <1>3, ClosedTypes
  <2> QED BY <2>1, <2>2 DEF Types
<1>6. phase = "created" => current = None  BY <1>2 DEF FilesInv, PhaseInv
<1>7. ReadsInv'
  <2>1. CASE current = None
    BY <1>1, <2>1 DEF ReadsInv
  <2>2. CASE current # None
    <3>1. manifests' = manifests /\ current \in DOMAIN manifests
      BY <1>1, <1>2, <1>6, <2>2 DEF ReadsInv
    <3> QED BY <1>1, <1>2, <1>3, <2>2, <3>1, ReadsStay
  <2> QED BY <2>1, <2>2
<1>8. UnbornInv'
  <2>1. UnbornInv /\ phase' = "closed"  BY <1>1, <1>2 DEF FilesInv, ToClosed
  <2> QED BY <1>1, <2>1 DEF UnbornInv
<1>9. FilesInv'  BY <1>1, <1>8, ClosedFiles
<1> QED BY <1>5, <1>7, <1>9 DEF DiskInv
-------------------------------------------------------------------------------
(* LogAndApply keeps the invariant. *)

(* The edit under way, and where its record goes. *)
LEMMA EditIs ==
  ASSUME DiskInv, edit # None
  PROVE  /\ edit \in Change /\ edit.record \in VersionEdit /\ edit.fresh \in BOOLEAN
         /\ edit.record \in EditRecord
         /\ edit.step \in {"write", "sync", "current", "install"}
         /\ edit.by \in {"open", "flush", "compaction"}
         /\ edit.record.add \in SUBSET Nat /\ edit.record.del \in SUBSET Nat
         /\ edit.record.log \in Nat /\ edit.record.next \in Nat /\ edit.record.sequence \in Nat
         /\ current # None /\ Running /\ phase \in {"save", "open"} /\ recovering = None /\ ~obsolete
         /\ numbers \in Numbers /\ numbers.manifest \in Nat
         /\ edit.fresh /\ edit.step # "install" => numbers.manifest # current
         /\ ~edit.fresh \/ edit.step = "install" => numbers.manifest = current
<1>1. edit \in Change /\ PhaseInv /\ UnbornInv /\ EditInv /\ RunningInv /\ numbers \in Numbers
  BY DEF DiskInv, Types, ProcessTypes, FilesInv
<1>2. edit.record \in VersionEdit /\ edit.fresh \in BOOLEAN  BY <1>1, Zenon DEF Change
<1>3. edit.step \in {"write", "sync", "current", "install"}
      /\ edit.by \in {"open", "flush", "compaction"}
  BY <1>1 DEF Change
<1>4. edit.record \in EditRecord  BY <1>2 DEF VersionEdit, EditRecord
<1>5. /\ edit.record.add \in SUBSET Nat /\ edit.record.del \in SUBSET Nat
      /\ edit.record.log \in Nat /\ edit.record.next \in Nat /\ edit.record.sequence \in Nat
  BY <1>2 DEF VersionEdit
<1>6. phase = IF edit.by = "open" THEN "save" ELSE "open"  BY <1>1 DEF EditInv
<1>7. phase \in {"save", "open"} /\ Running /\ recovering = None /\ current # None /\ ~obsolete
  BY <1>1, <1>6 DEF PhaseInv, UnbornInv, Running
<1>8. numbers.manifest \in Nat  BY <1>1 DEF Numbers
<1>9. edit.fresh = (edit.by = "open" /\ ~reuse_logs)  BY <1>1 DEF EditInv
<1>10. edit.fresh /\ edit.step # "install" => numbers.manifest # current
  BY <1>1, <1>6, <1>7, <1>9 DEF RunningInv
<1>11. ~edit.fresh \/ edit.step = "install" => numbers.manifest = current
  BY <1>1, <1>6, <1>7, <1>9 DEF RunningInv
<1> QED BY <1>1, <1>2, <1>3, <1>4, <1>5, <1>7, <1>8, <1>10, <1>11

(* What becomes of a record that is appended to the MANIFEST. *)
RecordIsRead ==
  /\ manifests'[current].records = manifests[current].records \o <<edit.record>>
  /\ Latest' = Applied(Latest, edit.record)
  /\ Reads' \subseteq Reads \cup {Latest'}
RecordIsDropped ==
  /\ manifests[current].tail # "sound"
  /\ manifests'[current].records = manifests[current].records
  /\ manifests'[current].synced = manifests[current].synced
  /\ Reads' = Reads /\ Latest' = Latest

(* The new MANIFEST, or another record in the one that CURRENT names. *)
LEMMA WriteManifestIs ==
  ASSUME Given, Options, DiskInv, WriteManifest
  PROVE  /\ edit # None /\ edit.step = "write"
         /\ edit' \in Change /\ edit' # None
         /\ edit'.step = "sync" /\ edit'.by = edit.by /\ edit'.fresh = edit.fresh
         /\ edit'.record = edit.record
         /\ descriptor' = TRUE
         /\ UNCHANGED <<current, logs, tables, phase, version, numbers, mem, imm, recovering,
                        pending_outputs, flush, compaction, obsolete, bg_error, writing, pinned,
                        history>>
         /\ counts' \in Counts /\ counts'.writes = counts.writes
         /\ counts'.skips = 0 => /\ counts.skips = 0
                                 /\ edit.fresh \/ manifests[current].tail = "sound"
         /\ Files(manifests', EditRecord)
         /\ current \in DOMAIN manifests'
         /\ edit.fresh => /\ manifests'[current] = manifests[current]
                          /\ numbers.manifest \in DOMAIN manifests'
                          /\ manifests'[numbers.manifest].records = <<Snapshot, edit.record>>
                          /\ Reads' = Reads /\ Latest' = Latest
                          /\ manifests'[numbers.manifest].tail = "sound"
         /\ ~edit.fresh =>
              /\ (manifests'[current].tail = "sound") = (manifests[current].tail = "sound")
              /\ \A n \in DOMAIN manifests' : n # current => /\ n \in DOMAIN manifests
                                                             /\ manifests'[n] = manifests[n]
              /\ RecordIsRead \/ RecordIsDropped
<1>1. /\ edit # None /\ edit.step = "write"
      /\ edit.fresh =>
           /\ manifests' = With(manifests, numbers.manifest, Appended(NewFile, <<Snapshot, edit.record>>))
           /\ counts' = counts
      /\ ~edit.fresh =>
           /\ \E file \in Appends(manifests[numbers.manifest], <<edit.record>>) :
                manifests' = [manifests EXCEPT ![numbers.manifest] = file]
           /\ counts' = [counts EXCEPT !.skips =
                           IF manifests[numbers.manifest].tail = "sound" THEN @ ELSE @ + 1]
      /\ edit' = [edit EXCEPT !.step = "sync"]
      /\ descriptor' = TRUE
      /\ UNCHANGED <<current, logs, tables, phase, version, numbers, mem, imm, recovering,
                     pending_outputs, flush, compaction, obsolete, bg_error, writing, pinned,
                     history>>
  BY DEF WriteManifest, history
<1>2. /\ edit \in Change /\ edit.record \in EditRecord /\ edit.fresh \in BOOLEAN
      /\ current # None /\ numbers.manifest \in Nat
      /\ edit.fresh => numbers.manifest # current
      /\ ~edit.fresh => numbers.manifest = current
  BY <1>1, EditIs
<1>3. Types /\ ReadsInv  BY DEF DiskInv
<1>4. /\ current \in Nat /\ current \in DOMAIN manifests
      /\ manifests[current] \in FileOf(EditRecord) /\ manifests[current].records # <<>>
      /\ manifests[current].synced <= Len(manifests[current].records)
  BY <1>2, <1>3, ReadingsAre
<1>5. /\ edit' \in Change /\ edit'.step = "sync" /\ edit'.by = edit.by /\ edit'.fresh = edit.fresh
      /\ edit'.record = edit.record
  BY <1>1, <1>2 DEF Change
<1>6. edit' # None  BY <1>5 DEF NoneAssumption
<1>7. Files(manifests, EditRecord)  BY <1>3 DEF Types, DiskTypes
<1>8. ASSUME edit.fresh
      PROVE  /\ Files(manifests', EditRecord) /\ current \in DOMAIN manifests'
             /\ manifests'[current] = manifests[current]
             /\ numbers.manifest \in DOMAIN manifests'
             /\ manifests'[numbers.manifest].records = <<Snapshot, edit.record>>
             /\ manifests'[numbers.manifest].tail = "sound"
             /\ Reads' = Reads /\ Latest' = Latest
  <2> DEFINE file == Appended(NewFile, <<Snapshot, edit.record>>)
  <2>1. Snapshot \in EditRecord  BY <1>3 DEF Snapshot, Edit, EditRecord, Types, ProcessTypes
  <2>2. <<Snapshot, edit.record>> \in Seq(EditRecord)  BY <1>2, <2>1, PairIs
  <2>3. /\ <<>> \o <<Snapshot, edit.record>> = <<Snapshot, edit.record>>
        /\ Len(<<Snapshot, edit.record>>) = 2
    BY <2>2
  <2>4. /\ NewFile \in FileOf(EditRecord) /\ NewFile.records = <<>> /\ NewFile.synced = 0
        /\ NewFile.tail = "sound"
    BY NewFileIsFile
  <2>5. NewFile.records \o <<Snapshot, edit.record>> \in Seq(EditRecord)  BY <2>2, <2>3, <2>4
  <2>6. /\ file \in FileOf(EditRecord) /\ file.records = <<Snapshot, edit.record>> /\ file.synced = 0
        /\ file.tail = "sound"
    <3>1. /\ file \in FileOf(EditRecord) /\ file.synced = NewFile.synced
          /\ file.records = NewFile.records \o <<Snapshot, edit.record>> /\ file.tail = NewFile.tail
      BY <2>4, <2>5, AppendedIsFile
    <3> HIDE DEF file
    <3>2. file.records = <<Snapshot, edit.record>>  BY <2>3, <2>4, <3>1, Zenon
    <3> QED BY <2>4, <3>1, <3>2
  <2>7. file.synced <= Len(file.records)  BY <2>3, <2>6
  <2>8. manifests' = With(manifests, numbers.manifest, file)  BY <1>1, <1>8
  <2> HIDE DEF file
  <2>9. Files(manifests', EditRecord)  BY <1>2, <1>7, <2>6, <2>7, <2>8, FilesWith
  <2>10. /\ current \in DOMAIN manifests' /\ manifests'[current] = manifests[current]
         /\ numbers.manifest \in DOMAIN manifests' /\ manifests'[numbers.manifest] = file
    BY <1>2, <1>4, <1>8, <2>8 DEF With
  <2>11. Reads' = Reads /\ Latest' = Latest  BY <1>1, <2>10 DEF Reads, Latest
  <2> QED BY <2>6, <2>9, <2>10, <2>11
<1>9. ASSUME ~edit.fresh
      PROVE  /\ Files(manifests', EditRecord) /\ current \in DOMAIN manifests'
             /\ (manifests'[current].tail = "sound") = (manifests[current].tail = "sound")
             /\ \A n \in DOMAIN manifests' : n # current => /\ n \in DOMAIN manifests
                                                            /\ manifests'[n] = manifests[n]
             /\ RecordIsRead \/ RecordIsDropped
  <2> DEFINE old == manifests[current]
             more == Appended(old, <<edit.record>>)
  <2>1. /\ more \in FileOf(EditRecord) /\ more.records = old.records \o <<edit.record>>
        /\ more.synced = old.synced
        /\ Len(more.records) = Len(old.records) + 1
        /\ ReadManifest(more.records) = Applied(Latest, edit.record)
        /\ ReadsOf(more) \subseteq Reads \cup {ReadManifest(more.records)}
    BY <1>2, <1>4, ReadsAppended DEF Latest, Reads
  <2>2. PICK file \in Appends(old, <<edit.record>>) :
          manifests' = [manifests EXCEPT ![current] = file]
    BY <1>1, <1>2, <1>9
  <2>3. Len(old.records) \in Nat /\ old.synced \in Nat  BY <1>4 DEF FileOf
  <2>4. more.records \in Seq(EditRecord)
    <3> HIDE DEF more
    <3> QED BY <2>1 DEF FileOf
  <2>5. old.records \o <<edit.record>> \in Seq(EditRecord)
    <3> HIDE DEF more, old
    <3> QED BY <2>1, <2>4
  <2> HIDE DEF more, old
  <2>6. /\ file \in FileOf(EditRecord) /\ file.synced = old.synced
        /\ (file.tail = "sound") = (old.tail = "sound")
        /\ \/ file.records = old.records \o <<edit.record>>
           \/ old.tail # "sound" /\ file.records = old.records
    <3>1. old \in FileOf(EditRecord)  BY <1>4 DEF old
    <3> DEFINE r == <<edit.record>>
    <3>2. file \in Appends(old, r) /\ old.records \o r \in Seq(EditRecord)  BY <2>2, <2>5
    <3> HIDE DEF r
    <3>3. /\ file \in FileOf(EditRecord) /\ file.synced = old.synced
          /\ (file.tail = "sound") = (old.tail = "sound")
          /\ \/ file.records = old.records \o r
             \/ old.tail # "sound" /\ file.records = old.records
      BY <3>1, <3>2, AppendsAre
    <3> QED BY <3>3 DEF r
  <2>7. file.synced <= Len(file.records)
    <3>1. Len(file.records) = Len(old.records) \/ Len(file.records) = Len(old.records) + 1
      BY <2>1, <2>6
    <3> QED BY <1>4, <2>3, <2>6, <3>1 DEF old
  <2>8. /\ Files(manifests', EditRecord) /\ current \in DOMAIN manifests' /\ manifests'[current] = file
        /\ \A n \in DOMAIN manifests' : n # current => /\ n \in DOMAIN manifests
                                                       /\ manifests'[n] = manifests[n]
    BY <1>4, <1>7, <2>2, <2>6, <2>7, FilesExcept
  <2>9. Latest' = ReadManifest(file.records) /\ Reads' = ReadsOf(file)
    BY <1>1, <2>8 DEF Latest, Reads
  <2>10. CASE file.records = old.records \o <<edit.record>>
    <3>1. ReadsOf(file) = ReadsOf(more) /\ ReadManifest(file.records) = ReadManifest(more.records)
      BY <2>1, <2>6, <2>10, ReadsOfRecords
    <3>2. RecordIsRead  BY <2>1, <2>8, <2>9, <2>10, <3>1 DEF RecordIsRead, old
    <3> QED BY <2>6, <2>8, <3>2 DEF old
  <2>11. CASE old.tail # "sound" /\ file.records = old.records
    <3>1. ReadsOf(file) = ReadsOf(old) /\ ReadManifest(file.records) = ReadManifest(old.records)
      BY <2>6, <2>11, ReadsOfRecords
    <3>2. RecordIsDropped
      BY <2>6, <2>8, <2>9, <2>11, <3>1 DEF RecordIsDropped, Reads, Latest, old
    <3> QED BY <2>6, <2>8, <3>2 DEF old
  <2> QED BY <2>6, <2>10, <2>11
<1>10. /\ descriptor' = TRUE
       /\ UNCHANGED <<current, logs, tables, phase, version, numbers, mem, imm, recovering,
                      pending_outputs, flush, compaction, obsolete, bg_error, writing, pinned,
                      history>>
  BY <1>1
<1>11. /\ counts' \in Counts /\ counts'.writes = counts.writes
       /\ counts'.skips = 0 => /\ counts.skips = 0
                               /\ edit.fresh \/ manifests[current].tail = "sound"
  <2>1. counts \in Counts  BY <1>3 DEF Types, HistoryTypes
  <2>2. CASE edit.fresh
    BY <1>1, <2>1, <2>2
  <2>3. CASE ~edit.fresh
    <3> DEFINE n == IF manifests[current].tail = "sound" THEN counts.skips ELSE counts.skips + 1
    <3>1. counts.skips \in Nat /\ n \in Nat  BY <2>1 DEF Counts
    <3>2. counts' = [counts EXCEPT !.skips = n]  BY <1>1, <1>2, <2>3
    <3>3. n = 0 => counts.skips = 0 /\ manifests[current].tail = "sound"  BY <3>1
    <3> HIDE DEF n
    <3> QED BY <2>1, <3>1, <3>2, <3>3 DEF Counts
  <2> QED BY <1>2, <2>2, <2>3
<1> QED BY <1>1, <1>5, <1>6, <1>8, <1>9, <1>10, <1>2, <1>11

(* The record of an edit: from now on a recovery may read it, or not. *)
LEMMA WriteManifestKeeps ==
  ASSUME Given, Options, DiskInv, TailInv, WriteManifest
  PROVE  DiskInv'
<1>1. /\ edit # None /\ edit.step = "write"
      /\ edit' \in Change /\ edit' # None
      /\ edit'.step = "sync" /\ edit'.by = edit.by /\ edit'.fresh = edit.fresh
      /\ edit'.record = edit.record
      /\ descriptor' = TRUE
      /\ UNCHANGED <<current, logs, tables, phase, version, numbers, mem, imm, recovering,
                     pending_outputs, flush, compaction, obsolete, bg_error, writing, pinned,
                     history>>
      /\ counts' \in Counts /\ counts'.writes = counts.writes
      /\ Files(manifests', EditRecord)
      /\ current \in DOMAIN manifests'
  BY WriteManifestIs
<1>2. ASSUME edit.fresh
      PROVE  /\ manifests'[current] = manifests[current]
             /\ numbers.manifest \in DOMAIN manifests'
             /\ manifests'[numbers.manifest].records = <<Snapshot, edit.record>>
             /\ Reads' = Reads /\ Latest' = Latest
  BY <1>2, WriteManifestIs
<1> DEFINE dropped == edit.fresh \/ RecordIsDropped
<1>3. ASSUME ~dropped
      PROVE  /\ manifests'[current].records = manifests[current].records \o <<edit.record>>
             /\ Latest' = Applied(Latest, edit.record)
             /\ Reads' \subseteq Reads \cup {Latest'}
  BY <1>3, WriteManifestIs DEF RecordIsRead
<1>27. ASSUME dropped
       PROVE  /\ Reads' = Reads /\ Latest' = Latest
              /\ manifests'[current].records = manifests[current].records
              /\ manifests'[current].synced = manifests[current].synced
  BY <1>2, <1>27 DEF RecordIsDropped
<1>28. ASSUME RecordIsDropped, ~edit.fresh PROVE bg_error
  <2>1. manifests[current].tail # "sound" /\ DiskInv  BY <1>28 DEF RecordIsDropped
  <2>2. current # None /\ numbers.manifest = current /\ phase \in {"save", "open"}
        /\ edit.fresh = (edit.by = "open" /\ ~reuse_logs)
        /\ phase = IF edit.by = "open" THEN "save" ELSE "open"
    BY <1>1, <1>28, EditIs DEF DiskInv, FilesInv, EditInv
  <2>3. current \in DOMAIN manifests  BY <2>1, <2>2 DEF DiskInv, ReadsInv
  <2>4. CASE phase = "save"
    <3>1. reuse_logs  BY <1>28, <2>2, <2>4
    <3> QED BY <2>1, <2>3, <3>1 DEF TailInv, ReusedTails
  <2>5. CASE phase = "open"
    BY <2>1, <2>5 DEF TailInv, ManifestTail
  <2> QED BY <2>2, <2>4, <2>5
<1> HIDE DEF dropped
<1>4. Types /\ ReadsInv /\ PhaseInv /\ UnbornInv /\ RunningInv /\ LogfileInv /\ EditInv /\ RecordInv
      /\ FlushInv /\ CompactionInv /\ PinnedInv /\ VersionInv
  BY DEF DiskInv, FilesInv
<1>5. /\ edit.record \in EditRecord /\ edit.fresh \in BOOLEAN
      /\ edit.by \in {"open", "flush", "compaction"}
      /\ edit.record.add \in SUBSET Nat /\ edit.record.del \in SUBSET Nat
      /\ edit.record.log \in Nat /\ edit.record.next \in Nat /\ edit.record.sequence \in Nat
      /\ current # None /\ Running /\ phase \in {"save", "open"} /\ recovering = None /\ ~obsolete
      /\ numbers \in Numbers
      /\ ~edit.fresh => numbers.manifest = current
  BY <1>1, EditIs
<1>6. Issued' = Issued  BY <1>1, IssuedStays
<1>7. Types'
  <2>1. DiskTypes' /\ HistoryTypes'  BY <1>1, <1>4, <1>6 DEF Types, DiskTypes, HistoryTypes
  <2>2. edit'.record.sequence <= counts'.writes  BY <1>1, <1>4 DEF Types, ProcessTypes
  <2>3. ProcessTypes'  BY <1>1, <1>4, <1>6, <2>2 DEF Types, ProcessTypes
  <2> QED BY <2>1, <2>3 DEF Types
<1>8. /\ current \in Nat /\ current \in DOMAIN manifests
      /\ manifests[current] \in FileOf(EditRecord) /\ manifests[current].records # <<>>
      /\ Latest \in Reads /\ GoodRead(Latest)
  BY <1>4, <1>5, ReadingsAre
<1>9. /\ numbers.next \in Nat /\ numbers.logfile \in Nat /\ counts.writes \in Nat
  BY <1>4, <1>5 DEF Numbers, Types, HistoryTypes, Counts
<1>10. /\ Latest \in CompleteState
       /\ Latest.files \in SUBSET Nat /\ Latest.log \in Nat /\ Latest.next \in Nat
       /\ Latest.sequence \in Nat
       /\ Latest.files \subseteq DOMAIN tables /\ \A n \in Latest.files : n < Latest.next
  BY <1>8 DEF GoodRead, CompleteState
<1>11. /\ edit.record.next <= numbers.next /\ edit.record.log < edit.record.next
       /\ edit.record.log <= numbers.logfile
       /\ edit.record.add \subseteq DOMAIN tables
       /\ (\A n \in version \cup edit.record.add : n < edit.record.next)
       /\ numbers.manifest < edit.record.next /\ Latest.next <= edit.record.next
  BY <1>1, <1>4 DEF RecordInv
<1>12. ASSUME ~dropped
       PROVE  /\ Latest'.files = (Latest.files \ edit.record.del) \cup edit.record.add
              /\ Latest'.log = edit.record.log /\ Latest'.next = edit.record.next
              /\ Latest'.sequence = edit.record.sequence
  <2>1. edit.record.log # None /\ edit.record.next # None /\ edit.record.sequence # None
    BY <1>5 DEF NoneAssumption
  <2> QED BY <1>3, <1>12, <2>1 DEF Applied
<1>13. ASSUME ~dropped, NEW s \in Reads' PROVE GoodRead(s)'
  <2>1. s \in Reads \/ s = Latest'  BY <1>3, <1>13
  <2>2. CASE s \in Reads
    <3>1. GoodRead(s)  BY <1>4, <1>5, <2>2 DEF ReadsInv
    <3>2. s.next <= Latest'.next
      BY <1>5, <1>10, <1>11, <1>12, <1>13, <3>1 DEF GoodRead, CompleteState
    <3> QED BY <1>1, <3>1, <3>2 DEF GoodRead
  <2>3. CASE s = Latest'
    <3>1. s \in CompleteState
      <4>1. Latest' = Applied(Latest, edit.record)  BY <1>3, <1>13
      <4>2. Latest' = [files |-> (Latest.files \ edit.record.del) \cup edit.record.add,
                       log |-> edit.record.log, next |-> edit.record.next,
                       sequence |-> edit.record.sequence]
        BY <1>5, <4>1 DEF Applied, NoneAssumption
      <4> QED BY <1>5, <1>10, <2>3, <4>2 DEF CompleteState
    <3>2. s.files \subseteq DOMAIN tables  BY <1>10, <1>11, <1>12, <1>13, <2>3
    <3>3. \A n \in s.files : n < s.next
      <4>1. \A n \in Latest.files : n < edit.record.next  BY <1>5, <1>10, <1>11
      <4> QED BY <1>11, <1>12, <1>13, <2>3, <4>1
    <3>4. s.log < s.next /\ current < s.next /\ s.next <= Latest'.next
      BY <1>5, <1>11, <1>12, <1>13, <2>3 DEF dropped
    <3>5. s.sequence <= counts.writes  BY <1>1, <1>4, <1>12, <1>13, <2>3 DEF Types, ProcessTypes
    <3> QED BY <1>1, <3>1, <3>2, <3>3, <3>4, <3>5 DEF GoodRead
  <2> QED BY <2>1, <2>2, <2>3
<1>14. ReadsInv'
  <2>1. CASE dropped
    BY <1>1, <1>4, <1>5, <1>9, <1>27, <2>1, RecordsStay
  <2>2. CASE ~dropped
    <3>1. manifests'[current].records # <<>>
      <4>1. manifests[current].records \in Seq(EditRecord)  BY <1>8 DEF FileOf
      <4>2. Len(manifests[current].records \o <<edit.record>>) = Len(manifests[current].records) + 1
            /\ Len(manifests[current].records) \in Nat
        BY <1>5, <4>1
      <4>3. Len(manifests'[current].records) # 0  BY <1>3, <2>2, <4>2
      <4> QED BY <4>3
    <3> QED BY <1>1, <1>13, <2>2, <3>1 DEF ReadsInv
  <2> QED BY <2>1, <2>2
<1>15. PhaseInv' /\ UnbornInv'  BY <1>1, <1>4 DEF PhaseInv, UnbornInv
<1>16. RunningInv'
  <2>1. Latest'.next <= numbers.next  BY <1>4, <1>5, <1>11, <1>12, <1>27 DEF RunningInv
  <2> QED BY <1>1, <1>4, <2>1 DEF RunningInv, Running
<1>17. LogsInv'  BY <1>1, <1>5 DEF LogsInv
<1>18. LogfileInv'
  <2>1. ASSUME NEW s \in Reads' PROVE s.log <= numbers.logfile
    BY <1>3, <1>4, <1>5, <1>11, <1>12, <1>27 DEF LogfileInv
  <2> QED BY <1>1, <1>4, <1>5, <2>1 DEF LogfileInv
<1>19. EditInv'  BY <1>1, <1>4 DEF EditInv
<1>20. RecordInv'  BY <1>1, <1>4 DEF RecordInv
<1>21. FlushInv'
  <2>1. CASE flush # None /\ edit.by # "flush"
    <3>1. edit.by # "compaction" /\ edit.by # "open"  BY <1>1, <1>4, <2>1 DEF EditInv, PhaseInv
    <3> QED BY <1>5, <2>1, <3>1
  <2>2. CASE ~(flush # None /\ edit.by # "flush")
    BY <1>1, <1>4, <2>2 DEF FlushInv
  <2> QED BY <2>1, <2>2
<1>22. CompactionInv'
  <2>1. CASE compaction # None /\ edit.by # "compaction"
    <3>1. edit.by = "flush" /\ edit.record.add = {flush} /\ flush # compaction.output
      BY <1>1, <1>4, <1>5, <2>1 DEF EditInv, PhaseInv, CompactionInv
    <3>2. compaction.output \notin version /\ \A s \in Reads : compaction.output \notin s.files
      BY <1>4, <2>1 DEF CompactionInv
    <3>4. \A s \in Reads' : compaction.output \notin s.files
      BY <1>3, <1>8, <1>12, <1>27, <3>1, <3>2
    <3> QED BY <1>1, <1>4, <2>1, <3>2, <3>4 DEF CompactionInv
  <2>2. CASE ~(compaction # None /\ edit.by # "compaction")
    BY <1>1, <1>4, <2>2 DEF CompactionInv
  <2> QED BY <2>1, <2>2
<1>23. PinnedInv'  BY <1>1, <1>4 DEF PinnedInv
<1>24. VersionInv'
  <2>1. ASSUME ~bg_error PROVE Latest.files = version /\ Latest.log = numbers.log
    BY <1>1, <1>4, <1>5, <2>1 DEF VersionInv, Committed
  <2>2. CASE edit.fresh
    <3>1. ~Committed'  BY <1>1, <2>2 DEF Committed
    <3> QED BY <1>1, <1>2, <2>1, <2>2, <3>1 DEF VersionInv
  <2>3. CASE ~dropped
    <3>1. ~edit.fresh /\ Committed'  BY <1>1, <2>3 DEF Committed, dropped
    <3> QED BY <1>1, <1>12, <2>1, <2>3, <3>1 DEF VersionInv
  <2>4. CASE RecordIsDropped /\ ~edit.fresh
    BY <1>1, <1>28, <2>4 DEF VersionInv
  <2> QED BY <1>5, <2>2, <2>3, <2>4 DEF dropped
<1>25. SettledInv'  BY <1>1 DEF SettledInv
<1>26. FreshInv'
  <2>1. Snapshot' = Snapshot  BY <1>1 DEF Snapshot
  <2> QED BY <1>1, <1>2, <2>1 DEF FreshInv
<1> QED BY <1>7, <1>14, <1>15, <1>16, <1>17, <1>18, <1>19, <1>20, <1>21, <1>22, <1>23, <1>24,
        <1>25, <1>26 DEF DiskInv, FilesInv

(* The sync of a MANIFEST: of what may be read, only the last remains. *)
LEMMA SyncManifestIs ==
  ASSUME Given, Options, DiskInv, SyncManifest
  PROVE  /\ edit # None /\ edit.step = "sync"
         /\ edit' \in Change /\ edit' # None
         /\ edit'.step = (IF edit.fresh THEN "current" ELSE "install")
         /\ edit'.by = edit.by /\ edit'.fresh = edit.fresh /\ edit'.record = edit.record
         /\ UNCHANGED <<current, logs, tables, phase, version, numbers, descriptor, mem, imm,
                        recovering, pending_outputs, flush, compaction, obsolete, bg_error,
                        writing, pinned, history, counts>>
         /\ Files(manifests', EditRecord)
         /\ current \in DOMAIN manifests' /\ manifests'[current].records = manifests[current].records
         /\ Latest' = Latest
         /\ edit.fresh => /\ manifests'[current] = manifests[current] /\ Reads' = Reads
                          /\ numbers.manifest \in DOMAIN manifests'
                          /\ manifests'[numbers.manifest].records = <<Snapshot, edit.record>>
                          /\ manifests'[numbers.manifest].synced = 2
         /\ ~edit.fresh => Reads' = {Latest}
<1>1. /\ edit # None /\ edit.step = "sync"
      /\ manifests' = [manifests EXCEPT ![numbers.manifest] = Synced(@)]
      /\ edit' = [edit EXCEPT !.step = IF edit.fresh THEN "current" ELSE "install"]
      /\ UNCHANGED <<current, logs, tables, phase, version, numbers, descriptor, mem, imm,
                     recovering, pending_outputs, flush, compaction, obsolete, bg_error, writing,
                     pinned, history, counts>>
  BY DEF SyncManifest, history
<1>2. /\ edit \in Change /\ edit.record \in EditRecord /\ edit.fresh \in BOOLEAN
      /\ current # None /\ numbers.manifest \in Nat
      /\ edit.fresh => numbers.manifest # current
      /\ ~edit.fresh => numbers.manifest = current
  BY <1>1, EditIs
<1>3. Types /\ ReadsInv /\ FreshInv  BY DEF DiskInv, FilesInv
<1>4. /\ current \in Nat /\ current \in DOMAIN manifests
      /\ manifests[current] \in FileOf(EditRecord) /\ manifests[current].records # <<>>
  BY <1>2, <1>3, ReadingsAre
<1>5. /\ edit' \in Change /\ edit'.step = (IF edit.fresh THEN "current" ELSE "install")
      /\ edit'.by = edit.by /\ edit'.fresh = edit.fresh /\ edit'.record = edit.record
  <2> DEFINE step == IF edit.fresh THEN "current" ELSE "install"
  <2>1. step \in {"write", "sync", "current", "install"}  OBVIOUS
  <2>2. edit' = [edit EXCEPT !.step = step]  BY <1>1
  <2> HIDE DEF step
  <2>3. /\ edit' \in Change /\ edit'.step = step
        /\ edit'.by = edit.by /\ edit'.fresh = edit.fresh /\ edit'.record = edit.record
    BY <1>2, <2>1, <2>2 DEF Change
  <2> QED BY <2>3 DEF step
<1>6. edit' # None  BY <1>5 DEF NoneAssumption
<1>7. Files(manifests, EditRecord)  BY <1>3 DEF Types, DiskTypes
<1>8. numbers.manifest \in DOMAIN manifests
  <2>1. CASE edit.fresh
    BY <1>1, <1>3, <2>1 DEF FreshInv
  <2>2. CASE ~edit.fresh
    BY <1>2, <1>4, <2>2
  <2> QED BY <1>2, <2>1, <2>2
<1> DEFINE old == manifests[numbers.manifest]
           file == Synced(old)
<1>9. /\ old \in FileOf(EditRecord) /\ file \in FileOf(EditRecord) /\ file.records = old.records
      /\ file.synced = Len(old.records) /\ Len(old.records) \in Nat
  <2>1. old \in FileOf(EditRecord)  BY <1>7, <1>8 DEF Files
  <2> QED BY <2>1, SyncedIsFile
<1>10. manifests' = [manifests EXCEPT ![numbers.manifest] = file]  BY <1>1
<1> HIDE DEF file, old
<1>11. /\ Files(manifests', EditRecord) /\ DOMAIN manifests' = DOMAIN manifests
       /\ manifests'[numbers.manifest] = file
       /\ numbers.manifest # current => manifests'[current] = manifests[current]
  <2>1. file.synced <= Len(file.records)  BY <1>9
  <2> QED BY <1>4, <1>7, <1>8, <1>9, <1>10, <2>1, FilesExcept
<1>12. manifests'[current].records = manifests[current].records /\ current \in DOMAIN manifests'
  BY <1>4, <1>9, <1>11 DEF old
<1>13. Latest' = Latest  BY <1>1, <1>12 DEF Latest
<1>14. ASSUME edit.fresh
       PROVE  /\ manifests'[current] = manifests[current] /\ Reads' = Reads
              /\ numbers.manifest \in DOMAIN manifests'
              /\ manifests'[numbers.manifest].records = <<Snapshot, edit.record>>
              /\ manifests'[numbers.manifest].synced = 2
  <2>1. manifests'[current] = manifests[current]  BY <1>2, <1>11, <1>14
  <2>2. Reads' = Reads  BY <1>1, <2>1 DEF Reads
  <2>3. old.records = <<Snapshot, edit.record>>  BY <1>1, <1>3, <1>14 DEF FreshInv, old
  <2>4. Len(old.records) = 2  BY <2>3
  <2> QED BY <1>8, <1>9, <1>11, <2>1, <2>2, <2>3, <2>4
<1>15. ASSUME ~edit.fresh PROVE Reads' = {Latest}
  <2>1. manifests'[current] = file /\ file = Synced(manifests[current])
    BY <1>2, <1>11, <1>15 DEF file, old
  <2>2. ReadsOf(file) = {ReadManifest(manifests[current].records)}  BY <1>4, <2>1, ReadsSynced
  <2> QED BY <1>1, <2>1, <2>2 DEF Reads, Latest
<1> QED BY <1>1, <1>5, <1>6, <1>11, <1>12, <1>13, <1>14, <1>15

(* VersionSet::LogAndApply syncs the MANIFEST. *)
LEMMA SyncManifestKeeps ==
  ASSUME Given, Options, DiskInv, SyncManifest
  PROVE  DiskInv'
<1>1. /\ edit # None /\ edit.step = "sync"
      /\ edit' \in Change /\ edit' # None
      /\ edit'.step = (IF edit.fresh THEN "current" ELSE "install")
      /\ edit'.by = edit.by /\ edit'.fresh = edit.fresh /\ edit'.record = edit.record
      /\ UNCHANGED <<current, logs, tables, phase, version, numbers, descriptor, mem, imm,
                     recovering, pending_outputs, flush, compaction, obsolete, bg_error, writing,
                     pinned, history, counts>>
      /\ Files(manifests', EditRecord)
      /\ current \in DOMAIN manifests' /\ manifests'[current].records = manifests[current].records
      /\ Latest' = Latest
  BY SyncManifestIs
<1>2. ASSUME edit.fresh
      PROVE  /\ Reads' = Reads /\ numbers.manifest \in DOMAIN manifests'
             /\ manifests'[numbers.manifest].records = <<Snapshot, edit.record>>
             /\ manifests'[numbers.manifest].synced = 2
  BY <1>2, SyncManifestIs
<1>3. ~edit.fresh => Reads' = {Latest}  BY SyncManifestIs
<1>4. Types /\ ReadsInv /\ PhaseInv /\ UnbornInv /\ RunningInv /\ LogfileInv /\ EditInv /\ RecordInv
      /\ FlushInv /\ CompactionInv /\ PinnedInv /\ VersionInv
  BY DEF DiskInv, FilesInv
<1>5. /\ edit.fresh \in BOOLEAN
      /\ current # None /\ Running /\ phase \in {"save", "open"} /\ recovering = None /\ ~obsolete
  BY <1>1, EditIs
<1>6. Issued' = Issued  BY <1>1, IssuedStays
<1>7. Types'
  <2>1. DiskTypes' /\ HistoryTypes'  BY <1>1, <1>4, <1>6 DEF Types, DiskTypes, HistoryTypes
  <2>2. edit'.record.sequence <= counts'.writes  BY <1>1, <1>4 DEF Types, ProcessTypes
  <2>3. ProcessTypes'  BY <1>1, <1>4, <1>6, <2>2 DEF Types, ProcessTypes
  <2> QED BY <2>1, <2>3 DEF Types
<1>8. Latest \in Reads  BY <1>4, <1>5, ReadingsAre
<1>9. Reads' \subseteq Reads  BY <1>2, <1>3, <1>5, <1>8
<1>10. ReadsInv'
  <2>1. ASSUME NEW s \in Reads' PROVE GoodRead(s)'
    <3>1. GoodRead(s)  BY <1>4, <1>5, <1>9 DEF ReadsInv
    <3> QED BY <1>1, <3>1 DEF GoodRead
  <2> QED BY <1>1, <1>4, <1>5, <2>1 DEF ReadsInv
<1>11. PhaseInv' /\ UnbornInv'  BY <1>1, <1>4 DEF PhaseInv, UnbornInv
<1>12. RunningInv'
  <2>1. edit'.step # "install" \/ ~edit.fresh  BY <1>1
  <2>2. edit.fresh => numbers.manifest # current  BY <1>1, EditIs
  <2>3. ~edit.fresh => numbers.manifest = current  BY <1>1, EditIs
  <2> QED BY <1>1, <1>4, <1>5, <2>1, <2>2, <2>3 DEF RunningInv, Running, EditInv
<1>13. LogsInv'  BY <1>1, <1>5 DEF LogsInv
<1>14. LogfileInv'  BY <1>1, <1>4, <1>9 DEF LogfileInv
<1>15. EditInv' /\ RecordInv'  BY <1>1, <1>4 DEF EditInv, RecordInv
<1>16. FlushInv' /\ CompactionInv' /\ PinnedInv'
  BY <1>1, <1>4, <1>9 DEF FlushInv, CompactionInv, PinnedInv
<1>17. VersionInv'
  <2>1. Committed' = Committed  BY <1>1, <1>5 DEF Committed
  <2> QED BY <1>1, <1>4, <2>1 DEF VersionInv, Running
<1>18. SettledInv'  BY <1>1, <1>3, <1>4, <1>5 DEF SettledInv, EditInv
<1>19. FreshInv'
  <2>1. Snapshot' = Snapshot  BY <1>1 DEF Snapshot
  <2> QED BY <1>1, <1>2, <2>1 DEF FreshInv
<1> QED BY <1>7, <1>10, <1>11, <1>12, <1>13, <1>14, <1>15, <1>16, <1>17, <1>18, <1>19
        DEF DiskInv, FilesInv

(* CURRENT names the new MANIFEST, which is synced and whole. *)
LEMMA SetCurrentFileIs ==
  ASSUME Given, Options, DiskInv, SetCurrentFile
  PROVE  /\ edit # None /\ edit.step = "current" /\ edit.fresh /\ edit.by = "open" /\ ~reuse_logs
         /\ current' = numbers.manifest
         /\ edit' \in Change /\ edit' # None /\ edit'.step = "install"
         /\ edit'.by = edit.by /\ edit'.fresh = edit.fresh /\ edit'.record = edit.record
         /\ UNCHANGED <<manifests, logs, tables, phase, version, numbers, descriptor, mem, imm,
                        recovering, pending_outputs, flush, compaction, obsolete, bg_error,
                        writing, pinned, history, counts>>
         /\ current' # None
         /\ current' \in DOMAIN manifests /\ manifests[current'].records # <<>>
         /\ Latest' \in CompleteState /\ Reads' = {Latest'}
         /\ Latest'.files = version \cup edit.record.add /\ Latest'.log = edit.record.log
         /\ Latest'.next = edit.record.next /\ Latest'.sequence = edit.record.sequence
<1>1. /\ edit # None /\ edit.step = "current" /\ current' = numbers.manifest
      /\ edit' = [edit EXCEPT !.step = "install"]
      /\ UNCHANGED <<manifests, logs, tables, phase, version, numbers, descriptor, mem, imm,
                     recovering, pending_outputs, flush, compaction, obsolete, bg_error, writing,
                     pinned, history, counts>>
  BY DEF SetCurrentFile, history
<1>2. Types /\ FreshInv /\ EditInv  BY DEF DiskInv, FilesInv
<1>3. edit.fresh /\ edit.by = "open" /\ ~reuse_logs /\ edit.record.del = {}
  BY <1>1, <1>2 DEF EditInv
<1>4. /\ edit \in Change /\ edit.record \in EditRecord /\ numbers.manifest \in Nat
      /\ edit.record.add \in SUBSET Nat
      /\ edit.record.log \in Nat /\ edit.record.next \in Nat /\ edit.record.sequence \in Nat
  BY <1>1, EditIs
<1>5. /\ edit' \in Change /\ edit'.step = "install"
      /\ edit'.by = edit.by /\ edit'.fresh = edit.fresh /\ edit'.record = edit.record
  BY <1>1, <1>4 DEF Change
<1>6. edit' # None /\ current' # None  BY <1>1, <1>4, <1>5 DEF NoneAssumption
<1> DEFINE file == manifests[numbers.manifest]
<1>7. /\ numbers.manifest \in DOMAIN manifests /\ file.records = <<Snapshot, edit.record>>
      /\ file.synced = 2
  BY <1>1, <1>2, <1>3 DEF FreshInv
<1>8. file \in FileOf(EditRecord)  BY <1>2, <1>7 DEF Types, DiskTypes, Files
<1> HIDE DEF file
<1>9. Len(file.records) = 2 /\ file.records # <<>>  BY <1>7
<1>10. ReadsOf(file) = {ReadManifest(file.records)}  BY <1>7, <1>8, <1>9, WholeIsRead
<1>11. Reads' = {Latest'} /\ Latest' = ReadManifest(<<Snapshot, edit.record>>)
  BY <1>1, <1>7, <1>10 DEF Reads, Latest, file
<1>12. Snapshot \in EditRecord /\ version \in SUBSET Nat
  BY <1>2 DEF Snapshot, Edit, EditRecord, Types, ProcessTypes
<1>13. Latest' = Applied(Applied(Blank, Snapshot), edit.record)  BY <1>4, <1>11, <1>12, ReadTwo
<1>14. Applied(Blank, Snapshot) = [files |-> version, log |-> None, next |-> None, sequence |-> None]
  BY <1>12 DEF Applied, Blank, Snapshot, Edit
<1>15. Latest' = [files |-> version \cup edit.record.add, log |-> edit.record.log,
                  next |-> edit.record.next, sequence |-> edit.record.sequence]
  BY <1>3, <1>4, <1>13, <1>14 DEF Applied, NoneAssumption
<1>16. Latest' \in CompleteState  BY <1>4, <1>12, <1>15 DEF CompleteState
<1>17. current' \in DOMAIN manifests /\ manifests[current'].records # <<>>
  BY <1>1, <1>7, <1>9 DEF file
<1>18. /\ Latest'.files = version \cup edit.record.add /\ Latest'.log = edit.record.log
       /\ Latest'.next = edit.record.next /\ Latest'.sequence = edit.record.sequence
  BY <1>15
<1>19. Reads' = {Latest'}  BY <1>11
<1> HIDE DEF file
<1> QED BY <1>1, <1>3, <1>5, <1>6, <1>16, <1>17, <1>18, <1>19

(* SetCurrentFile, the commit of an open. *)
LEMMA SetCurrentFileKeeps ==
  ASSUME Given, Options, DiskInv, SetCurrentFile
  PROVE  DiskInv'
<1>1. /\ edit # None /\ edit.step = "current" /\ edit.fresh /\ edit.by = "open" /\ ~reuse_logs
      /\ current' = numbers.manifest
      /\ edit' \in Change /\ edit' # None /\ edit'.step = "install"
      /\ edit'.by = edit.by /\ edit'.fresh = edit.fresh /\ edit'.record = edit.record
      /\ UNCHANGED <<manifests, logs, tables, phase, version, numbers, descriptor, mem, imm,
                     recovering, pending_outputs, flush, compaction, obsolete, bg_error, writing,
                     pinned, history, counts>>
  BY SetCurrentFileIs
<1>2. /\ current' # None
      /\ current' \in DOMAIN manifests /\ manifests[current'].records # <<>>
      /\ Latest' \in CompleteState /\ Reads' = {Latest'}
      /\ Latest'.files = version \cup edit.record.add /\ Latest'.log = edit.record.log
      /\ Latest'.next = edit.record.next /\ Latest'.sequence = edit.record.sequence
  BY SetCurrentFileIs
<1>3. Types /\ ReadsInv /\ PhaseInv /\ UnbornInv /\ RunningInv /\ LogfileInv /\ EditInv /\ RecordInv
  BY DEF DiskInv, FilesInv
<1>4. /\ edit.record.add \in SUBSET Nat
      /\ edit.record.log \in Nat /\ edit.record.next \in Nat
      /\ Running /\ phase \in {"save", "open"} /\ recovering = None /\ ~obsolete
      /\ numbers.manifest \in Nat
  BY <1>1, EditIs
<1>5. /\ phase = "save" /\ edit.record.del = {} /\ edit.record.log = numbers.logfile
      /\ descriptor /\ mem = ToSet(logs[numbers.logfile].records)
  BY <1>1, <1>3 DEF EditInv
<1>6. /\ imm = None /\ pending_outputs = {} /\ flush = None /\ compaction = None
      /\ ~obsolete /\ ~bg_error /\ writing = None /\ pinned = None
  BY <1>3, <1>5 DEF PhaseInv
<1>7. Issued' = Issued  BY <1>1, IssuedStays
<1>8. edit'.record.sequence <= counts'.writes  BY <1>1, <1>3 DEF Types, ProcessTypes
<1>9. Types'
  <2>1. DiskTypes' /\ HistoryTypes'
    BY <1>1, <1>3, <1>4, <1>7 DEF Types, DiskTypes, HistoryTypes
  <2>2. ProcessTypes'  BY <1>1, <1>3, <1>7, <1>8 DEF Types, ProcessTypes
  <2> QED BY <2>1, <2>2 DEF Types
<1>10. /\ edit.record.next <= numbers.next /\ edit.record.log < edit.record.next
       /\ numbers.log <= edit.record.log
       /\ edit.record.add \subseteq DOMAIN tables
       /\ (\A n \in version \cup edit.record.add : n < edit.record.next)
       /\ numbers.manifest < edit.record.next
  BY <1>1, <1>3 DEF RecordInv
<1>11. /\ numbers.manifest < numbers.next
       /\ version \subseteq DOMAIN tables /\ \A n \in version : n < numbers.next
  BY <1>3, <1>4 DEF RunningInv
<1>12. ReadsInv'
  <2>1. GoodRead(Latest)'  BY <1>1, <1>2, <1>4, <1>8, <1>10, <1>11 DEF GoodRead
  <2> QED BY <1>1, <1>2, <2>1 DEF ReadsInv
<1>13. PhaseInv' /\ UnbornInv'  BY <1>1, <1>2, <1>3, <1>5 DEF PhaseInv, UnbornInv
<1>14. RunningInv'  BY <1>1, <1>2, <1>5, <1>10, <1>11 DEF RunningInv
<1>15. LogsInv'  BY <1>1, <1>5 DEF LogsInv
<1>16. LogfileInv'
  <2>1. numbers.logfile \in Nat  BY <1>4, <1>5
  <2> QED BY <1>1, <1>2, <1>3, <1>5, <2>1 DEF LogfileInv
<1>17. EditInv'  BY <1>1, <1>5, <1>3 DEF EditInv
<1>18. RecordInv'  BY <1>1, <1>3 DEF RecordInv
<1>19. FlushInv' /\ CompactionInv' /\ PinnedInv'
  BY <1>1, <1>6 DEF FlushInv, CompactionInv, PinnedInv
<1>20. VersionInv'
  <2>1. Committed'  BY <1>1 DEF Committed
  <2> QED BY <1>1, <1>2, <1>5, <2>1 DEF VersionInv
<1>21. SettledInv' /\ FreshInv'  BY <1>1, <1>2 DEF SettledInv, FreshInv
<1> QED BY <1>9, <1>12, <1>13, <1>14, <1>15, <1>16, <1>17, <1>18, <1>19, <1>20, <1>21
        DEF DiskInv, FilesInv

(* The new version is installed; the MANIFEST has said the same before. *)
LEMMA InstallVersionKeeps ==
  ASSUME Given, Options, DiskInv, InstallVersion
  PROVE  DiskInv'
<1>1. /\ edit # None /\ edit.step = "install"
      /\ version' = (version \ edit.record.del) \cup edit.record.add
      /\ numbers' = [numbers EXCEPT !.log = edit.record.log]
      /\ phase' = "open" /\ obsolete' = TRUE
      /\ imm' = IF edit.by = "flush" THEN None ELSE imm
      /\ flush' = IF edit.by = "flush" THEN None ELSE flush
      /\ compaction' = IF edit.by = "compaction" THEN None ELSE compaction
      /\ pending_outputs' = IF edit.by = "compaction" THEN pending_outputs \ edit.record.add
                            ELSE pending_outputs
      /\ edit' = None
      /\ doubtful' = IF edit.by = "open" THEN {} ELSE doubtful
      /\ UNCHANGED <<current, manifests, logs, tables, descriptor, mem, recovering, bg_error,
                     writing, pinned, acknowledged, durable, counts>>
  BY DEF InstallVersion, disk
<1>2. Types /\ ReadsInv /\ PhaseInv /\ UnbornInv /\ RunningInv /\ LogfileInv /\ EditInv /\ RecordInv
      /\ FlushInv /\ CompactionInv /\ PinnedInv /\ VersionInv /\ SettledInv
  BY DEF DiskInv, FilesInv
<1>3. /\ edit.by \in {"open", "flush", "compaction"}
      /\ edit.record.add \in SUBSET Nat /\ edit.record.del \in SUBSET Nat
      /\ edit.record.log \in Nat /\ edit.record.next \in Nat
      /\ current # None /\ Running /\ phase \in {"save", "open"} /\ recovering = None /\ ~obsolete
      /\ numbers \in Numbers /\ numbers.manifest = current
  BY <1>1, EditIs
<1>4. /\ numbers' \in Numbers /\ numbers'.log = edit.record.log
      /\ numbers'.logfile = numbers.logfile /\ numbers'.next = numbers.next
      /\ numbers'.manifest = numbers.manifest /\ numbers'.sequence = numbers.sequence
  BY <1>1, <1>3 DEF Numbers
<1>5. Issued' = Issued  BY <1>1, IssuedStays
<1>6. Types'
  <2>1. DiskTypes' /\ HistoryTypes'  BY <1>1, <1>2, <1>5 DEF Types, DiskTypes, HistoryTypes
  <2>2. numbers'.sequence <= counts'.writes  BY <1>1, <1>2, <1>4 DEF Types, ProcessTypes
  <2>3. imm' # None => imm' \subseteq Issued'  BY <1>1, <1>2, <1>5 DEF Types, ProcessTypes
  <2>4. flush' # None => flush' \in Nat  BY <1>1, <1>2 DEF Types, ProcessTypes
  <2>5. compaction' # None => compaction' \in CompactionState
    BY <1>1, <1>2 DEF Types, ProcessTypes
  <2>6. version' \subseteq Nat /\ pending_outputs' \subseteq Nat
    BY <1>1, <1>2, <1>3 DEF Types, ProcessTypes
  <2>7. obsolete' \in BOOLEAN  BY <1>1, Zenon
  <2>8. ProcessTypes'
    BY <1>1, <1>2, <1>4, <1>5, <2>2, <2>3, <2>4, <2>5, <2>6, <2>7 DEF Types, ProcessTypes
  <2> QED BY <2>1, <2>8 DEF Types
<1>7. /\ counts.writes \in Nat /\ current \in DOMAIN manifests
      /\ Latest \in Reads /\ GoodRead(Latest)
  BY <1>2, <1>3, ReadingsAre DEF Types, HistoryTypes, Counts
<1>8. Reads' = Reads /\ Latest' = Latest /\ ReadsInv'  BY <1>1, <1>2, <1>3, <1>7, ReadsStay
<1>9. Reads = {Latest}  BY <1>1, <1>2 DEF SettledInv
<1>10. descriptor  BY <1>1, <1>2 DEF EditInv
<1>11. PhaseInv' /\ UnbornInv'
  <2>1. PhaseInv'  BY <1>1, <1>3, <1>10 DEF PhaseInv
  <2> QED BY <1>1, <1>3, <2>1 DEF UnbornInv
<1>12. /\ edit.record.next <= numbers.next
       /\ numbers.log <= edit.record.log /\ edit.record.log <= numbers.logfile
       /\ edit.record.add \subseteq DOMAIN tables
       /\ \A n \in version \cup edit.record.add : n < edit.record.next
  BY <1>1, <1>2 DEF RecordInv
<1>13. /\ Latest.next <= numbers.next /\ numbers.manifest < numbers.next
       /\ version \subseteq DOMAIN tables /\ \A n \in version : n < numbers.next
  BY <1>2, <1>3 DEF RunningInv
<1>14. \A n \in version' : n < numbers.next
  <2>1. numbers.next \in Nat /\ version \subseteq Nat
    BY <1>2, <1>3 DEF Numbers, Types, ProcessTypes
  <2> QED BY <1>1, <1>3, <1>12, <1>13, <2>1
<1>15. RunningInv'
  <2>1. version' \subseteq DOMAIN tables  BY <1>1, <1>12, <1>13
  <2> QED BY <1>1, <1>3, <1>4, <1>8, <1>13, <1>14, <2>1 DEF RunningInv
<1>16. LogsInv' /\ EditInv' /\ RecordInv' /\ FreshInv'
  BY <1>1 DEF LogsInv, EditInv, RecordInv, FreshInv
<1>17. LogfileInv'  BY <1>1, <1>2, <1>3, <1>4, <1>8, <1>12 DEF LogfileInv
<1>18. FlushInv'
  <2>1. CASE flush' # None
    <3>1. edit.by # "flush" /\ flush # None /\ flush' = flush  BY <1>1, <2>1
    <3>2. edit.by # "compaction" /\ edit.by # "open"  BY <1>1, <1>2, <3>1 DEF EditInv, PhaseInv
    <3> QED BY <1>3, <3>1, <3>2
  <2>2. CASE flush' = None
    BY <2>2 DEF FlushInv
  <2> QED BY <2>1, <2>2
<1>19. CompactionInv'
  <2>1. CASE compaction' # None
    <3>1. edit.by # "compaction" /\ compaction # None /\ compaction' = compaction  BY <1>1, <2>1
    <3>2. edit.by = "flush" /\ edit.record.add = {flush} /\ edit.record.del = {}
      BY <1>1, <1>2, <1>3, <3>1 DEF EditInv, PhaseInv
    <3>3. /\ compaction.inputs \subseteq version /\ compaction.output \in pending_outputs
          /\ compaction.output < numbers.next /\ compaction.output \in DOMAIN tables
          /\ compaction.output # flush
          /\ compaction.output \notin version /\ \A s \in Reads : compaction.output \notin s.files
      BY <1>2, <3>1 DEF CompactionInv
    <3>4. version' = version \cup {flush} /\ flush' = None /\ pending_outputs' = pending_outputs
      BY <1>1, <3>2
    <3>5. compaction.output # None
      BY <1>2, <3>1 DEF Types, ProcessTypes, CompactionState, NoneAssumption
    <3> QED BY <1>1, <1>4, <1>8, <3>1, <3>3, <3>4, <3>5 DEF CompactionInv
  <2>2. CASE compaction' = None
    BY <2>2 DEF CompactionInv
  <2> QED BY <2>1, <2>2
<1>20. PinnedInv'  BY <1>1, <1>2 DEF PinnedInv
<1>21. VersionInv'
  <2>1. Committed /\ ~Committed'  BY <1>1 DEF Committed
  <2> QED BY <1>1, <1>2, <1>3, <1>4, <1>8, <2>1 DEF VersionInv
<1>22. SettledInv'  BY <1>1, <1>8, <1>9 DEF SettledInv
<1> QED BY <1>6, <1>8, <1>11, <1>15, <1>16, <1>17, <1>18, <1>19, <1>20, <1>21, <1>22
        DEF DiskInv, FilesInv

(* LogAndApply fails: an open gives up, the background thread stops. *)
LEMMA LogAndApplyFailsKeeps ==
  ASSUME Given, Options, DiskInv, LogAndApplyFails
  PROVE  DiskInv'
<1>1. /\ edit # None /\ edit.step # "install" /\ counts' = [counts EXCEPT !.errors = @ + 1]
      /\ manifests' = IF edit.fresh THEN Without(manifests, numbers.manifest)
                      ELSE IF edit.step = "write"
                      THEN [manifests EXCEPT ![numbers.manifest] = AfterFailure(manifests[numbers.manifest])]
                      ELSE manifests
      /\ edit.by = "open" => ToClosed
      /\ edit.by # "open" =>
           /\ bg_error' = TRUE
           /\ edit' = None
           /\ flush' = IF edit.by = "flush" THEN None ELSE flush
           /\ compaction' = IF edit.by = "compaction" THEN None ELSE compaction
           /\ pending_outputs' = pending_outputs \ edit.record.add
           /\ UNCHANGED <<phase, version, numbers, descriptor, mem, imm, recovering, obsolete,
                          writing, pinned>>
      /\ UNCHANGED <<current, logs, tables, history>>
  BY DEF LogAndApplyFails, Fail, history
<1>2. Types /\ ReadsInv /\ PhaseInv /\ UnbornInv /\ RunningInv /\ LogsInv /\ LogfileInv /\ EditInv
      /\ RecordInv /\ FlushInv /\ CompactionInv /\ PinnedInv
  BY DEF DiskInv, FilesInv
<1>3. /\ edit.by \in {"open", "flush", "compaction"} /\ edit.fresh \in BOOLEAN
      /\ edit.record.add \in SUBSET Nat
      /\ current # None /\ Running /\ recovering = None /\ ~obsolete
      /\ edit.fresh => numbers.manifest # current
      /\ ~edit.fresh => numbers.manifest = current
  BY <1>1, EditIs
<1>4. counts \in Counts /\ counts' \in Counts /\ counts'.writes = counts.writes /\ Issued' = Issued
      /\ counts.writes \in Nat
  <2>1. counts \in Counts  BY <1>2 DEF Types, HistoryTypes
  <2>2. counts' \in Counts /\ counts'.writes = counts.writes /\ counts.writes \in Nat
    BY <1>1, <2>1 DEF Counts
  <2> QED BY <2>1, <2>2, IssuedStays
<1>5. /\ Files(manifests', EditRecord) /\ current \in DOMAIN manifests'
      /\ manifests'[current].records = manifests[current].records
      /\ manifests'[current].synced = manifests[current].synced
  <2>1. current \in DOMAIN manifests /\ Files(manifests, EditRecord)
    BY <1>2, <1>3 DEF ReadsInv, Types, DiskTypes
  <2>2. CASE edit.fresh
    <3>1. manifests' = Without(manifests, numbers.manifest)  BY <1>1, <2>2
    <3>2. current \in DOMAIN manifests' /\ manifests'[current] = manifests[current]
      BY <1>3, <2>1, <2>2, <3>1 DEF Without
    <3> QED BY <2>1, <3>1, <3>2, FilesWithout
  <2>3. CASE ~edit.fresh /\ edit.step = "write"
    <3> DEFINE file == manifests[current]
               torn == AfterFailure(file)
    <3>1. manifests' = [manifests EXCEPT ![current] = torn]  BY <1>1, <1>3, <2>3
    <3>2. file \in FileOf(EditRecord) /\ file.synced <= Len(file.records)  BY <2>1 DEF Files
    <3>3. torn \in FileOf(EditRecord) /\ torn.records = file.records /\ torn.synced = file.synced
      BY <3>2, FailureIs
    <3> HIDE DEF torn
    <3>4. Files(manifests', EditRecord) /\ current \in DOMAIN manifests' /\ manifests'[current] = torn
      BY <2>1, <3>1, <3>2, <3>3, FilesExcept
    <3> QED BY <3>3, <3>4
  <2>4. CASE ~edit.fresh /\ edit.step # "write"
    BY <1>1, <2>1, <2>4
  <2> QED BY <1>3, <2>2, <2>3, <2>4
<1>7. Reads' = Reads /\ Latest' = Latest /\ ReadsInv'
  BY <1>1, <1>2, <1>3, <1>4, <1>5, RecordsStay
<1>8. DiskTypes' /\ HistoryTypes'  BY <1>1, <1>2, <1>4, <1>5 DEF Types, DiskTypes, HistoryTypes
<1>9. CASE edit.by = "open"
  <2>1. ProcessTypes'  BY <1>1, <1>4, <1>9, ClosedTypes
  <2>2. FilesInv'  BY <1>1, <1>3, <1>9, ClosedFiles
  <2> QED BY <1>7, <1>8, <2>1, <2>2 DEF DiskInv, Types
<1>10. CASE edit.by # "open"
  <2>1. /\ bg_error' = TRUE
        /\ edit' = None
        /\ flush' = IF edit.by = "flush" THEN None ELSE flush
        /\ compaction' = IF edit.by = "compaction" THEN None ELSE compaction
        /\ pending_outputs' = pending_outputs \ edit.record.add
        /\ UNCHANGED <<phase, version, numbers, descriptor, mem, imm, recovering, obsolete,
                       writing, pinned>>
    BY <1>1, <1>10
  <2>2. phase = "open" /\ ~edit.fresh  BY <1>1, <1>2, <1>10 DEF EditInv
  <2>3. ProcessTypes'
    <3>1. bg_error' \in BOOLEAN  BY <2>1, Zenon
    <3>2. pending_outputs' \subseteq Nat  BY <1>2, <2>1 DEF Types, ProcessTypes
    <3>3. (flush' # None => flush' \in Nat) /\ (compaction' # None => compaction' \in CompactionState)
      BY <1>2, <2>1 DEF Types, ProcessTypes
    <3> QED BY <1>2, <1>4, <2>1, <3>1, <3>2, <3>3 DEF Types, ProcessTypes
  <2>4. PhaseInv' /\ UnbornInv'  BY <1>1, <1>2, <1>3, <2>1, <2>2 DEF PhaseInv, UnbornInv
  <2>5. RunningInv' /\ LogfileInv'
    BY <1>1, <1>2, <1>7, <2>1, <2>2 DEF RunningInv, LogfileInv, Running
  <2>6. LogsInv' /\ EditInv' /\ RecordInv' /\ FreshInv' /\ VersionInv' /\ SettledInv'
    BY <2>1, <2>2 DEF LogsInv, EditInv, RecordInv, FreshInv, VersionInv, SettledInv
  <2>7. PinnedInv'  BY <1>1, <1>2, <2>1 DEF PinnedInv
  <2>8. FlushInv'
    <3>1. CASE flush' # None
      <4>1. edit.by # "flush" /\ flush # None /\ flush' = flush  BY <2>1, <3>1
      <4>2. edit.by # "compaction"  BY <1>1, <1>2, <4>1 DEF EditInv
      <4> QED BY <1>3, <1>10, <4>1, <4>2
    <3>2. CASE flush' = None
      BY <3>2 DEF FlushInv
    <3> QED BY <3>1, <3>2
  <2>9. CompactionInv'
    <3>1. CASE compaction' # None
      <4>1. edit.by # "compaction" /\ compaction # None /\ compaction' = compaction
        BY <2>1, <3>1
      <4>2. edit.by = "flush" /\ edit.record.add = {flush}
        BY <1>1, <1>2, <1>3, <1>10, <4>1 DEF EditInv
      <4>3. /\ compaction.inputs \subseteq version /\ compaction.output \in pending_outputs
            /\ compaction.output < numbers.next /\ compaction.output \in DOMAIN tables
            /\ compaction.output # flush
            /\ compaction.output \notin version /\ \A s \in Reads : compaction.output \notin s.files
        BY <1>2, <4>1 DEF CompactionInv
      <4>4. compaction.output \in pending_outputs' /\ flush' = None  BY <2>1, <4>2, <4>3
      <4>5. compaction.output # None
        BY <1>2, <4>1 DEF Types, ProcessTypes, CompactionState, NoneAssumption
      <4> QED BY <1>1, <1>7, <2>1, <4>1, <4>3, <4>4, <4>5 DEF CompactionInv
    <3>2. CASE compaction' = None
      BY <3>2 DEF CompactionInv
    <3> QED BY <3>1, <3>2
  <2> QED BY <1>7, <1>8, <2>3, <2>4, <2>5, <2>6, <2>7, <2>8, <2>9 DEF DiskInv, FilesInv, Types
<1> QED BY <1>9, <1>10

-------------------------------------------------------------------------------
(* DeleteObsoleteFiles. *)

(* When it deletes, nothing is uncertain. *)
LEMMA DeletingIs ==
  ASSUME NoneAssumption, DiskInv, obsolete
  PROVE  /\ phase = "open" /\ edit = None /\ recovering = None /\ Running /\ current # None
         /\ numbers \in Numbers /\ numbers.manifest = current
         /\ ~bg_error => Reads = {Latest} /\ Latest.files = version /\ Latest.log = numbers.log
<1>1. Types /\ PhaseInv /\ UnbornInv /\ RunningInv /\ VersionInv /\ SettledInv
  BY DEF DiskInv, FilesInv
<1>2. phase = "open" /\ edit = None /\ recovering = None /\ Running
  BY <1>1 DEF PhaseInv, Running
<1>3. current # None  BY <1>1, <1>2 DEF UnbornInv
<1>4. numbers \in Numbers /\ numbers.manifest = current
  BY <1>1, <1>2 DEF Types, ProcessTypes, RunningInv
<1>5. ASSUME ~bg_error PROVE Reads = {Latest} /\ Latest.files = version /\ Latest.log = numbers.log
  <2>1. ~Committed  BY <1>2 DEF Committed
  <2> QED BY <1>1, <1>2, <1>5, <2>1 DEF VersionInv, SettledInv
<1> QED BY <1>2, <1>3, <1>4, <1>5

(* DeleteObsoleteFiles deletes a log, a MANIFEST or a table. *)
LEMMA DeleteFileKeeps ==
  ASSUME Given, Options, DiskInv, DeleteFile
  PROVE  DiskInv'
<1>1. /\ obsolete /\ ~bg_error
      /\ UNCHANGED <<current, phase, version, numbers, descriptor, mem, imm, recovering,
                     pending_outputs, flush, compaction, edit, obsolete, bg_error, writing,
                     pinned, history, counts>>
      /\ \/ \E n \in ObsoleteLogs : logs' = Without(logs, n) /\ UNCHANGED <<manifests, tables>>
         \/ \E n \in ObsoleteManifests :
              manifests' = Without(manifests, n) /\ UNCHANGED <<logs, tables>>
         \/ \E n \in ObsoleteTables :
              tables' = Without(tables, n) /\ UNCHANGED <<logs, manifests>>
  BY DEF DeleteFile, MayDelete, process, history
<1>2. Types /\ ReadsInv /\ PhaseInv /\ UnbornInv /\ RunningInv /\ LogfileInv
      /\ FlushInv /\ CompactionInv /\ PinnedInv /\ VersionInv /\ SettledInv
  BY DEF DiskInv, FilesInv
<1>3. /\ phase = "open" /\ edit = None /\ recovering = None /\ Running /\ current # None
      /\ numbers \in Numbers /\ numbers.manifest = current
      /\ Reads = {Latest} /\ Latest.files = version /\ Latest.log = numbers.log
  BY <1>1, DeletingIs
<1>4. Issued' = Issued  BY <1>1, IssuedStays
<1>5. ProcessTypes' /\ HistoryTypes'  BY <1>1, <1>2, <1>4 DEF Types, ProcessTypes, HistoryTypes
<1>6. /\ counts.writes \in Nat /\ current \in DOMAIN manifests
      /\ Latest \in Reads /\ GoodRead(Latest)
  BY <1>2, <1>3, ReadingsAre DEF Types, HistoryTypes, Counts
<1>7. PhaseInv' /\ LogsInv' /\ EditInv' /\ RecordInv' /\ FreshInv'
  BY <1>1, <1>2, <1>3 DEF PhaseInv, LogsInv, EditInv, RecordInv, FreshInv
<1>8. UnbornInv'  BY <1>1, <1>3 DEF UnbornInv
<1>9. CASE \E n \in ObsoleteLogs : logs' = Without(logs, n) /\ UNCHANGED <<manifests, tables>>
  <2>1. PICK n \in ObsoleteLogs : logs' = Without(logs, n) /\ UNCHANGED <<manifests, tables>>
    BY <1>9
  <2>2. n < numbers.log /\ DOMAIN logs' = DOMAIN logs \ {n}  BY <2>1 DEF ObsoleteLogs, Without
  <2>3. DiskTypes'
    <3>1. Files(logs, Issued) /\ Files(logs', Issued)
      BY <1>2, <2>1, FilesWithout DEF Types, DiskTypes
    <3> QED BY <1>1, <1>2, <1>4, <2>1, <3>1 DEF Types, DiskTypes
  <2>4. Reads' = Reads /\ Latest' = Latest /\ ReadsInv'
    BY <1>1, <1>2, <1>3, <1>6, <2>1, ReadsStay
  <2>5. RunningInv' /\ FlushInv' /\ CompactionInv' /\ PinnedInv' /\ SettledInv'
    BY <1>1, <1>2, <2>1, <2>4 DEF RunningInv, Running, FlushInv, CompactionInv, PinnedInv, SettledInv
  <2>6. VersionInv'  BY <1>1, <1>3, <2>4 DEF VersionInv, Committed
  <2>7. LogfileInv'
    <3>1. /\ numbers.logfile \in DOMAIN logs
          /\ numbers.log <= numbers.logfile /\ numbers.logfile < numbers.next
          /\ \A l \in DOMAIN logs : l <= numbers.logfile
          /\ \A s \in Reads : s.log <= numbers.logfile
      BY <1>2, <1>3 DEF LogfileInv
    <3>2. numbers.log \in Nat /\ numbers.logfile \in Nat /\ n \in Nat
      BY <1>2, <1>3, <2>1 DEF Numbers, ObsoleteLogs, Types, DiskTypes, Files
    <3>3. numbers.logfile \in DOMAIN logs'  BY <2>2, <3>1, <3>2
    <3> QED BY <1>1, <2>2, <2>4, <3>1, <3>3 DEF LogfileInv
  <2> QED BY <1>5, <1>7, <1>8, <2>3, <2>4, <2>5, <2>6, <2>7 DEF DiskInv, FilesInv, Types
<1>10. CASE \E n \in ObsoleteManifests :
              manifests' = Without(manifests, n) /\ UNCHANGED <<logs, tables>>
  <2>1. PICK n \in ObsoleteManifests : manifests' = Without(manifests, n) /\ UNCHANGED <<logs, tables>>
    BY <1>10
  <2>2. n \in Nat /\ n < current
    BY <1>2, <1>3, <2>1 DEF ObsoleteManifests, Types, DiskTypes, Files
  <2>3. DiskTypes'
    <3>1. Files(manifests', EditRecord)  BY <1>2, <2>1, FilesWithout DEF Types, DiskTypes
    <3> QED BY <1>1, <1>2, <1>4, <2>1, <3>1 DEF Types, DiskTypes
  <2>4. current \in Nat  BY <1>3 DEF Numbers
  <2>5. current \in DOMAIN manifests' /\ manifests'[current] = manifests[current]
    BY <1>6, <2>1, <2>2, <2>4 DEF Without
  <2>6. Reads' = Reads /\ Latest' = Latest /\ ReadsInv'
    BY <1>1, <1>2, <1>3, <1>6, <2>1, <2>5, ReadsStay
  <2>7. RunningInv' /\ FlushInv' /\ CompactionInv' /\ PinnedInv' /\ SettledInv'
    BY <1>1, <1>2, <2>1, <2>6 DEF RunningInv, Running, FlushInv, CompactionInv, PinnedInv, SettledInv
  <2>8. VersionInv'  BY <1>1, <1>3, <2>6 DEF VersionInv, Committed
  <2>9. LogfileInv'  BY <1>1, <1>2, <2>1, <2>6 DEF LogfileInv
  <2> QED BY <1>5, <1>7, <1>8, <2>3, <2>6, <2>7, <2>8, <2>9 DEF DiskInv, FilesInv, Types
<1>11. CASE \E n \in ObsoleteTables : tables' = Without(tables, n) /\ UNCHANGED <<logs, manifests>>
  <2>1. PICK n \in ObsoleteTables : tables' = Without(tables, n) /\ UNCHANGED <<logs, manifests>>
    BY <1>11
  <2>2. /\ n \notin version /\ (pinned # None => n \notin pinned) /\ n \notin pending_outputs
        /\ DOMAIN tables' = DOMAIN tables \ {n}
        /\ \A k \in DOMAIN tables' : tables'[k] = tables[k]
    BY <2>1 DEF ObsoleteTables, Live, OfVersions, Without
  <2>3. DiskTypes'  BY <1>1, <1>2, <1>4, <2>1, <2>2 DEF Types, DiskTypes
  <2>4. Reads' = Reads /\ Latest' = Latest  BY <1>1, <2>1 DEF Reads, Latest
  <2>5. GoodRead(Latest)'  BY <1>1, <1>3, <1>6, <2>2, <2>4 DEF GoodRead
  <2>6. ReadsInv'  BY <1>1, <1>2, <1>3, <2>1, <2>4, <2>5 DEF ReadsInv
  <2>7. RunningInv' /\ FlushInv' /\ PinnedInv' /\ SettledInv'
    BY <1>1, <1>2, <2>1, <2>2, <2>4 DEF RunningInv, Running, FlushInv, PinnedInv, SettledInv
  <2>8. CompactionInv'  BY <1>1, <1>2, <2>1, <2>2, <2>4 DEF CompactionInv
  <2>9. VersionInv'  BY <1>1, <1>3, <2>4 DEF VersionInv, Committed
  <2>10. LogfileInv'  BY <1>1, <1>2, <2>1, <2>4 DEF LogfileInv
  <2> QED BY <1>5, <1>7, <1>8, <2>3, <2>6, <2>7, <2>8, <2>9, <2>10 DEF DiskInv, FilesInv, Types
<1> QED BY <1>1, <1>9, <1>10, <1>11

(* A step that changes none of the files, the numbers and what is built. *)
LEMMA RestStays ==
  ASSUME DiskInv, current # None, counts.writes \in Nat,
         UNCHANGED <<current, manifests, logs, tables, phase, version, numbers, descriptor, mem,
                     imm, recovering, pending_outputs, flush, compaction, edit, bg_error>>,
         counts'.writes \in Nat, counts.writes <= counts'.writes, Types', PinnedInv',
         phase # "open" => ~obsolete' /\ writing' = None /\ pinned' = None,
         obsolete' => edit = None
  PROVE  DiskInv'
<1>1. ReadsInv /\ PhaseInv /\ UnbornInv /\ RunningInv /\ LogsInv /\ LogfileInv /\ EditInv /\ RecordInv
      /\ FlushInv /\ CompactionInv /\ PinnedInv /\ VersionInv /\ SettledInv /\ FreshInv
  BY DEF DiskInv, FilesInv
<1>2. current \in DOMAIN manifests  BY <1>1 DEF ReadsInv
<1>3. Reads' = Reads /\ Latest' = Latest /\ ReadsInv'  BY <1>1, <1>2, ReadsStay
<1>4. PhaseInv' /\ UnbornInv' /\ LogsInv' /\ LogfileInv'
  BY <1>1, <1>3 DEF PhaseInv, UnbornInv, LogsInv, LogfileInv
<1>5. RunningInv' /\ EditInv' /\ RecordInv'
  BY <1>1, <1>3 DEF RunningInv, Running, EditInv, RecordInv
<1>6. FlushInv' /\ CompactionInv'  BY <1>1, <1>3 DEF FlushInv, CompactionInv
<1>7. VersionInv'  BY <1>1, <1>3 DEF VersionInv, Running, Committed
<1>8. SettledInv' /\ FreshInv'  BY <1>1, <1>3 DEF SettledInv, FreshInv, Snapshot, Edit
<1> QED BY <1>3, <1>4, <1>5, <1>6, <1>7, <1>8 DEF DiskInv, FilesInv

(* DeleteObsoleteFiles is done. *)
LEMMA AllDeletedKeeps ==
  ASSUME Given, DiskInv, AllDeleted
  PROVE  DiskInv'
<1>1. /\ obsolete /\ obsolete' = FALSE
      /\ UNCHANGED <<current, manifests, logs, tables, phase, version, numbers, descriptor, mem,
                     imm, recovering, pending_outputs, flush, compaction, edit, bg_error, writing,
                     pinned, history, counts>>
  BY DEF AllDeleted, disk, history
<1>2. phase = "open" /\ current # None  BY <1>1, DeletingIs
<1>3. Types  BY DEF DiskInv
<1>4. Issued' = Issued  BY <1>1, IssuedStays
<1>5. obsolete' \in BOOLEAN  BY <1>1, Zenon
<1>6. Types'  BY <1>1, <1>3, <1>4, <1>5 DEF Types, DiskTypes, ProcessTypes, HistoryTypes
<1>7. counts.writes \in Nat  BY <1>3 DEF Types, HistoryTypes, Counts
<1>8. PinnedInv'  BY <1>1 DEF DiskInv, FilesInv, PinnedInv
<1> QED BY <1>1, <1>2, <1>6, <1>7, <1>8, RestStays

-------------------------------------------------------------------------------
(* Writes. *)

(* With one write more there are more possible entries. *)
LEMMA IssuedGrows ==
  ASSUME counts.writes \in Nat, counts'.writes \in Nat, counts.writes <= counts'.writes
  PROVE  Issued \subseteq Issued'
<1> SUFFICES ASSUME NEW e \in Issued PROVE e \in Issued'
  OBVIOUS
<1>1. 1..counts.writes \subseteq 1..counts'.writes  OBVIOUS
<1> QED BY <1>1 DEF Issued

(* In an open database there are no files without a MANIFEST, and a change is
   not that of an open. *)
LEMMA OpenIs ==
  ASSUME DiskInv, phase = "open"
  PROVE  /\ current # None /\ descriptor /\ Running /\ recovering = None
         /\ counts \in Counts /\ counts.writes \in Nat /\ numbers \in Numbers
         /\ numbers.logfile \in DOMAIN logs
         /\ edit # None => edit.by # "open" /\ ~edit.fresh /\ ~obsolete
<1>1. Types /\ PhaseInv /\ UnbornInv /\ LogfileInv /\ EditInv  BY DEF DiskInv, FilesInv
<1>2. current # None /\ descriptor /\ Running /\ recovering = None
  BY <1>1 DEF PhaseInv, UnbornInv, Running
<1>3. counts \in Counts /\ counts.writes \in Nat /\ numbers \in Numbers
  BY <1>1 DEF Types, HistoryTypes, ProcessTypes, Counts
<1>4. numbers.logfile \in DOMAIN logs  BY <1>1 DEF LogfileInv
<1>5. edit # None => edit.by # "open" /\ ~edit.fresh /\ ~obsolete  BY <1>1 DEF EditInv, PhaseInv
<1> QED BY <1>2, <1>3, <1>4, <1>5

(* A write begins, with the next sequence number. *)
LEMMA BeginWriteKeeps ==
  ASSUME Given, DiskInv, NEW sync \in BOOLEAN, BeginWrite(sync)
  PROVE  DiskInv'
<1> DEFINE e == [id |-> counts.writes + 1, seq |-> numbers.sequence + 1]
<1>1. /\ phase = "open" /\ ~obsolete /\ counts.writes < MaxWrites
      /\ writing' = [entry |-> e, sync |-> sync, step |-> "log"]
      /\ doubtful' = doubtful \cup {e}
      /\ counts' = [counts EXCEPT !.writes = @ + 1]
      /\ UNCHANGED <<current, manifests, logs, tables, phase, version, numbers, descriptor, mem,
                     imm, recovering, pending_outputs, flush, compaction, edit, obsolete,
                     bg_error, pinned, acknowledged, durable>>
  BY DEF BeginWrite, Ready, disk
<1>2. /\ current # None /\ counts \in Counts /\ counts.writes \in Nat /\ numbers \in Numbers
      /\ edit # None => ~obsolete
  BY <1>1, OpenIs
<1>3. Types  BY DEF DiskInv
<1>4. numbers.sequence \in Nat /\ numbers.sequence <= counts.writes
  BY <1>2, <1>3 DEF Numbers, Types, ProcessTypes
<1>5. counts' \in Counts /\ counts'.writes = counts.writes + 1  BY <1>1, <1>2 DEF Counts
<1>6. MaxWrites \in Nat  BY DEF StorageAssumption
<1>7. counts'.writes <= MaxWrites /\ counts.writes <= counts'.writes /\ counts'.writes \in Nat
  BY <1>1, <1>2, <1>5, <1>6
<1>8. Issued \subseteq Issued'  BY <1>2, <1>7, IssuedGrows
<1>9. e \in Issued' /\ e \in Entry
  <2>1. /\ counts.writes + 1 \in 1..counts'.writes /\ numbers.sequence + 1 \in 1..counts'.writes
        /\ counts.writes + 1 \in 1..MaxWrites /\ numbers.sequence + 1 \in 1..MaxWrites
    BY <1>2, <1>4, <1>5, <1>6, <1>7
  <2> QED BY <2>1 DEF Issued, Entry
<1> HIDE DEF e
<1>10. DiskTypes'
  <2>1. Files(logs', Issued')  BY <1>1, <1>3, <1>8, FilesGrow DEF Types, DiskTypes
  <2>2. \A n \in DOMAIN tables : tables[n] \subseteq Issued'  BY <1>3, <1>8 DEF Types, DiskTypes
  <2> QED BY <1>1, <1>3, <2>1, <2>2 DEF Types, DiskTypes
<1>11. ProcessTypes'
  <2>1. numbers'.sequence <= counts'.writes  BY <1>1, <1>4, <1>7, <1>2
  <2>2. recovering' # None => recovering' \in Recovery /\ recovering'.max_sequence <= counts'.writes
    BY <1>1, <1>2, <1>3, <1>7 DEF Types, ProcessTypes, Recovery
  <2>3. edit' # None => edit' \in Change /\ edit'.record.sequence <= counts'.writes
    <3>1. ASSUME edit # None PROVE edit.record.sequence <= counts'.writes
      <4>1. edit \in Change /\ edit.record.sequence <= counts.writes
        BY <1>3, <3>1 DEF Types, ProcessTypes
      <4>2. edit.record.sequence \in Nat  BY <4>1 DEF Change, VersionEdit
      <4> QED BY <1>2, <1>7, <4>1, <4>2
    <3> QED BY <1>1, <1>3, <3>1 DEF Types, ProcessTypes
  <2>4. writing' \in Writer /\ writing'.entry \in Issued'
    <3>1. writing' \in Writer  BY <1>1, <1>9 DEF Writer
    <3> QED BY <1>1, <1>9, <3>1
  <2>5. mem' \subseteq Issued' /\ (imm' # None => imm' \subseteq Issued')
    BY <1>1, <1>3, <1>8 DEF Types, ProcessTypes
  <2> QED BY <1>1, <1>2, <1>3, <2>1, <2>2, <2>3, <2>4, <2>5 DEF Types, ProcessTypes
<1>12. HistoryTypes'
  <2>1. acknowledged' \subseteq Issued' /\ durable' \subseteq Issued' /\ doubtful' \subseteq Issued'
    BY <1>1, <1>3, <1>8, <1>9 DEF Types, HistoryTypes
  <2> QED BY <1>5, <1>7, <2>1 DEF HistoryTypes
<1>13. Types'  BY <1>10, <1>11, <1>12 DEF Types
<1>14. PinnedInv'  BY <1>1 DEF DiskInv, FilesInv, PinnedInv
<1> QED BY <1>1, <1>2, <1>7, <1>13, <1>14, RestStays

(* What the steps of a write leave as it is. *)
LEMMA WritingStays ==
  ASSUME DiskInv, phase = "open", Types',
         UNCHANGED <<current, manifests, tables, phase, version, descriptor, imm, recovering,
                     pending_outputs, flush, compaction, edit, obsolete, pinned>>,
         DOMAIN logs' = DOMAIN logs, counts'.writes = counts.writes, bg_error => bg_error',
         numbers'.log = numbers.log, numbers'.logfile = numbers.logfile,
         numbers'.next = numbers.next, numbers'.manifest = numbers.manifest
  PROVE  DiskInv'
<1>1. ReadsInv /\ PhaseInv /\ UnbornInv /\ RunningInv /\ LogsInv /\ LogfileInv /\ EditInv /\ RecordInv
      /\ FlushInv /\ CompactionInv /\ PinnedInv /\ VersionInv /\ SettledInv /\ FreshInv
  BY DEF DiskInv, FilesInv
<1>2. current # None /\ counts.writes \in Nat /\ (edit # None => edit.by # "open" /\ ~edit.fresh)
  BY OpenIs
<1>3. current \in DOMAIN manifests  BY <1>1, <1>2 DEF ReadsInv
<1>4. Reads' = Reads /\ Latest' = Latest /\ ReadsInv'  BY <1>1, <1>2, <1>3, ReadsStay
<1>5. PhaseInv' /\ UnbornInv' /\ LogsInv' /\ LogfileInv'
  BY <1>1, <1>2, <1>4 DEF PhaseInv, UnbornInv, LogsInv, LogfileInv
<1>6. RunningInv' /\ EditInv' /\ RecordInv'
  BY <1>1, <1>2, <1>4 DEF RunningInv, Running, EditInv, RecordInv
<1>7. FlushInv' /\ CompactionInv' /\ PinnedInv'
  BY <1>1, <1>4 DEF FlushInv, CompactionInv, PinnedInv
<1>8. VersionInv'  BY <1>1, <1>4 DEF VersionInv, Running, Committed
<1>9. SettledInv' /\ FreshInv'  BY <1>1, <1>2, <1>4 DEF SettledInv, FreshInv
<1> QED BY <1>4, <1>5, <1>6, <1>7, <1>8, <1>9 DEF DiskInv, FilesInv

(* A write is under way. *)
LEMMA WriterIs ==
  ASSUME DiskInv, writing # None
  PROVE  /\ phase = "open" /\ writing \in Writer /\ writing.entry \in Issued
         /\ writing.sync \in BOOLEAN /\ writing.entry.seq \in Nat
         /\ writing.entry.seq <= counts.writes
<1>1. Types /\ PhaseInv  BY DEF DiskInv, FilesInv
<1>2. phase = "open"  BY <1>1 DEF PhaseInv
<1>3. writing \in Writer /\ writing.entry \in Issued  BY <1>1 DEF Types, ProcessTypes
<1>4. writing.sync \in BOOLEAN  BY <1>3, Zenon DEF Writer
<1>5. counts.writes \in Nat  BY <1>1 DEF Types, HistoryTypes, Counts
<1>6. writing.entry.seq \in Nat /\ writing.entry.seq <= counts.writes  BY <1>3, <1>5 DEF Issued
<1> QED BY <1>2, <1>3, <1>4, <1>6

(* The log as a write may leave it: with its record, or behind a failed append
   without it. *)
LogTakes(g) ==
  /\ g \in FileOf(Issued) /\ g.synced <= Len(g.records)
  /\ g.synced = logs[numbers.logfile].synced
  /\ \/ g.records = logs[numbers.logfile].records \o <<writing.entry>>
     \/ g.records = logs[numbers.logfile].records /\ g.tail # "sound"
LEMMA LogTaken ==
  ASSUME DiskInv, writing # None
  PROVE  LET file == logs[numbers.logfile] IN
         /\ \A g \in Appends(file, <<writing.entry>>) :
              LogTakes(g) /\ (g.tail = "sound") = (file.tail = "sound")
         /\ \A g \in {file, Appended(file, <<writing.entry>>)} :
              LogTakes(AfterFailure(g)) /\ AfterFailure(g).tail # "sound"
<1> DEFINE file == logs[numbers.logfile]
           r == <<writing.entry>>
<1>1. writing.entry \in Issued /\ phase = "open"  BY WriterIs
<1>2. numbers.logfile \in DOMAIN logs  BY <1>1, OpenIs
<1>3. Files(logs, Issued)  BY DEF DiskInv, Types, DiskTypes
<1>4. file \in FileOf(Issued) /\ file.synced <= Len(file.records)  BY <1>2, <1>3 DEF Files
<1>5. file.records \in Seq(Issued) /\ file.synced \in Nat  BY <1>4 DEF FileOf
<1> HIDE DEF file
<1>6. /\ file.records \o r \in Seq(Issued)
      /\ Len(file.records \o r) = Len(file.records) + 1
      /\ Len(file.records) \in Nat
  BY <1>1, <1>5
<1>7. ASSUME NEW g \in FileOf(Issued), g.synced = file.synced,
             \/ g.records = file.records \o r
             \/ g.records = file.records /\ g.tail # "sound"
      PROVE  LogTakes(g)
  <2>1. g.synced <= Len(g.records)
    <3>1. Len(g.records) = Len(file.records) \/ Len(g.records) = Len(file.records) + 1
      BY <1>6, <1>7
    <3> QED BY <1>4, <1>5, <1>6, <1>7, <3>1
  <2> QED BY <1>7, <2>1 DEF LogTakes, file
<1> HIDE DEF r
<1>8. ASSUME NEW g \in Appends(file, r)
      PROVE  LogTakes(g) /\ (g.tail = "sound") = (file.tail = "sound")
  <2>1. /\ g \in FileOf(Issued) /\ g.synced = file.synced
        /\ (g.tail = "sound") = (file.tail = "sound")
        /\ \/ g.records = file.records \o r
           \/ file.tail # "sound" /\ g.records = file.records
    BY <1>4, <1>6, AppendsAre
  <2> QED BY <1>7, <2>1
<1>9. ASSUME NEW g \in {file, Appended(file, r)}
      PROVE  LogTakes(AfterFailure(g)) /\ AfterFailure(g).tail # "sound"
  <2>1. /\ g \in FileOf(Issued) /\ g.synced = file.synced
        /\ g.records = file.records \o r \/ g.records = file.records
    BY <1>4, <1>6, AppendedIsFile
  <2>2. /\ AfterFailure(g) \in FileOf(Issued) /\ AfterFailure(g).records = g.records
        /\ AfterFailure(g).synced = g.synced /\ AfterFailure(g).tail # "sound"
    BY <2>1, FailureIs
  <2> QED BY <1>7, <2>1, <2>2
<1> QED BY <1>8, <1>9 DEF file, r

(* The logs with it. *)
LEMMA LogWithEntry ==
  ASSUME DiskInv, writing # None, NEW g, LogTakes(g),
         logs' = [logs EXCEPT ![numbers.logfile] = g]
  PROVE  /\ Files(logs', Issued) /\ DOMAIN logs' = DOMAIN logs
         /\ numbers.logfile \in DOMAIN logs /\ logs'[numbers.logfile] = g
         /\ \A n \in DOMAIN logs : n # numbers.logfile => logs'[n] = logs[n]
<1>1. phase = "open"  BY WriterIs
<1>2. numbers.logfile \in DOMAIN logs  BY <1>1, OpenIs
<1>3. Files(logs, Issued)  BY DEF DiskInv, Types, DiskTypes
<1>4. g \in FileOf(Issued) /\ g.synced <= Len(g.records)  BY DEF LogTakes
<1> QED BY <1>2, <1>3, <1>4, FilesExcept

(* The record of a write in the log. *)
LEMMA AddRecordKeeps ==
  ASSUME Given, DiskInv, AddRecord
  PROVE  DiskInv'
<1>1. /\ writing # None /\ writing.step = "log"
      /\ \E file \in Appends(logs[numbers.logfile], <<writing.entry>>) :
           logs' = [logs EXCEPT ![numbers.logfile] = file]
      /\ writing' = [writing EXCEPT !.step = AfterRecord(writing.sync)]
      /\ UNCHANGED <<current, manifests, tables, phase, version, numbers, descriptor, mem, imm,
                     recovering, pending_outputs, flush, compaction, edit, obsolete, bg_error,
                     pinned, history, counts>>
  BY DEF AddRecord, history
<1>2. phase = "open" /\ writing \in Writer /\ writing.entry \in Issued /\ writing.sync \in BOOLEAN
  BY <1>1, WriterIs
<1>3. Types  BY DEF DiskInv
<1>4. Files(logs', Issued) /\ DOMAIN logs' = DOMAIN logs
  <2>1. PICK file \in Appends(logs[numbers.logfile], <<writing.entry>>) :
          logs' = [logs EXCEPT ![numbers.logfile] = file]
    BY <1>1
  <2>2. LogTakes(file)  BY <1>1, LogTaken
  <2> QED BY <1>1, <2>1, <2>2, LogWithEntry
<1>5. Issued' = Issued  BY <1>1, IssuedStays
<1>6. writing' \in Writer /\ writing'.entry = writing.entry
  <2> DEFINE step == AfterRecord(writing.sync)
  <2>1. step \in {"log", "sync", "insert"}  BY DEF AfterRecord
  <2> HIDE DEF step
  <2>2. writing' = [writing EXCEPT !.step = step]  BY <1>1 DEF step
  <2> QED BY <1>2, <2>1, <2>2 DEF Writer
<1>7. Types'
  <2>1. DiskTypes' /\ HistoryTypes'
    BY <1>1, <1>3, <1>4, <1>5 DEF Types, DiskTypes, HistoryTypes
  <2>2. ProcessTypes'  BY <1>1, <1>2, <1>3, <1>5, <1>6 DEF Types, ProcessTypes
  <2> QED BY <2>1, <2>2 DEF Types
<1> QED BY <1>1, <1>2, <1>4, <1>7, WritingStays

(* The sync of the log. *)
LEMMA SyncLogKeeps ==
  ASSUME Given, DiskInv, SyncLog
  PROVE  DiskInv'
<1>1. /\ writing # None
      /\ logs' = [logs EXCEPT ![numbers.logfile] = Synced(@)]
      /\ writing' = [writing EXCEPT !.step = "insert"]
      /\ UNCHANGED <<current, manifests, tables, phase, version, numbers, descriptor, mem, imm,
                     recovering, pending_outputs, flush, compaction, edit, obsolete, bg_error,
                     pinned, history, counts>>
  BY DEF SyncLog, history
<1>2. phase = "open" /\ writing \in Writer /\ writing.entry \in Issued  BY <1>1, WriterIs
<1>3. Types  BY DEF DiskInv
<1>4. Files(logs', Issued) /\ DOMAIN logs' = DOMAIN logs
  <2> DEFINE file == logs[numbers.logfile]
             done == Synced(file)
  <2>1. numbers.logfile \in DOMAIN logs  BY <1>2, OpenIs
  <2>2. Files(logs, Issued)  BY <1>3 DEF Types, DiskTypes
  <2>3. file \in FileOf(Issued)  BY <2>1, <2>2 DEF Files
  <2> HIDE DEF file
  <2>4. done \in FileOf(Issued) /\ done.synced <= Len(done.records)  BY <2>3, SyncedIsFile
  <2> HIDE DEF done
  <2>5. logs' = [logs EXCEPT ![numbers.logfile] = done]  BY <1>1 DEF done, file
  <2> QED BY <2>2, <2>4, <2>5, FilesExcept
<1>5. Issued' = Issued  BY <1>1, IssuedStays
<1>6. writing' \in Writer /\ writing'.entry = writing.entry  BY <1>1, <1>2 DEF Writer
<1>7. Types'
  <2>1. DiskTypes' /\ HistoryTypes'
    BY <1>1, <1>3, <1>4, <1>5 DEF Types, DiskTypes, HistoryTypes
  <2>2. ProcessTypes'  BY <1>1, <1>2, <1>3, <1>5, <1>6 DEF Types, ProcessTypes
  <2> QED BY <2>1, <2>2 DEF Types
<1> QED BY <1>1, <1>2, <1>4, <1>7, WritingStays

(* The sequence number of a write becomes the last one. *)
LEMMA SequenceTaken ==
  ASSUME DiskInv, writing # None, numbers' = [numbers EXCEPT !.sequence = writing.entry.seq]
  PROVE  /\ numbers' \in Numbers /\ numbers'.sequence = writing.entry.seq
         /\ numbers'.sequence <= counts.writes
         /\ numbers'.log = numbers.log /\ numbers'.logfile = numbers.logfile
         /\ numbers'.next = numbers.next /\ numbers'.manifest = numbers.manifest
<1>1. phase = "open" /\ writing.entry.seq \in Nat /\ writing.entry.seq <= counts.writes
  BY WriterIs
<1>2. numbers \in Numbers  BY <1>1, OpenIs
<1> QED BY <1>1, <1>2 DEF Numbers

(* The memtable has the write, and it is acknowledged. *)
LEMMA InsertIntoKeeps ==
  ASSUME Given, DiskInv, InsertInto
  PROVE  DiskInv'
<1>1. /\ writing # None
      /\ mem' = mem \cup {writing.entry}
      /\ numbers' = [numbers EXCEPT !.sequence = writing.entry.seq]
      /\ acknowledged' \in {acknowledged, acknowledged \cup {writing.entry}}
      /\ durable' \in {durable, durable \cup {writing.entry}}
      /\ doubtful' \in {doubtful, doubtful \ {writing.entry}}
      /\ writing' = None
      /\ UNCHANGED <<current, manifests, logs, tables, phase, version, descriptor, imm,
                     recovering, pending_outputs, flush, compaction, edit, obsolete, bg_error,
                     pinned, counts>>
  BY DEF InsertInto, disk, history
<1>2. phase = "open" /\ writing.entry \in Issued  BY <1>1, WriterIs
<1>3. Types  BY DEF DiskInv
<1>4. Issued' = Issued  BY <1>1, IssuedStays
<1>5. /\ numbers' \in Numbers /\ numbers'.sequence <= counts.writes
      /\ numbers'.log = numbers.log /\ numbers'.logfile = numbers.logfile
      /\ numbers'.next = numbers.next /\ numbers'.manifest = numbers.manifest
  BY <1>1, SequenceTaken
<1>6. HistoryTypes'
  <2>1. durable' \subseteq Issued  BY <1>1, <1>2, <1>3 DEF Types, HistoryTypes
  <2> QED BY <1>1, <1>2, <1>3, <1>4, <2>1 DEF Types, HistoryTypes
<1>7. ProcessTypes'
  <2>1. mem' \subseteq Issued  BY <1>1, <1>2, <1>3 DEF Types, ProcessTypes
  <2> QED BY <1>1, <1>3, <1>4, <1>5, <2>1 DEF Types, ProcessTypes
<1>8. Types'  BY <1>1, <1>3, <1>4, <1>6, <1>7 DEF Types, DiskTypes
<1> QED BY <1>1, <1>2, <1>5, <1>8, WritingStays

(* A write fails, with its record in the log or not. *)
LEMMA WriteFailsKeeps ==
  ASSUME Given, DiskInv, WriteFails
  PROVE  DiskInv'
<1>1. /\ writing # None
      /\ counts' = [counts EXCEPT !.errors = @ + 1]
      /\ \/ logs' = logs
         \/ \E file \in {logs[numbers.logfile], Appended(logs[numbers.logfile], <<writing.entry>>)} :
              logs' = [logs EXCEPT ![numbers.logfile] = AfterFailure(file)]
      /\ numbers' = [numbers EXCEPT !.sequence = writing.entry.seq]
      /\ bg_error' = (bg_error \/ writing.step = "sync")
      /\ writing' = None
      /\ UNCHANGED <<current, manifests, tables, phase, version, descriptor, mem, imm, recovering,
                     pending_outputs, flush, compaction, edit, obsolete, pinned, history>>
  BY DEF WriteFails, Fail, history
<1>2. phase = "open" /\ writing.entry \in Issued  BY <1>1, WriterIs
<1>3. Types  BY DEF DiskInv
<1>4. counts' \in Counts /\ counts'.writes = counts.writes
  BY <1>1, <1>3 DEF Types, HistoryTypes, Counts
<1>5. Issued' = Issued  BY <1>4, IssuedStays
<1>6. /\ numbers' \in Numbers /\ numbers'.sequence <= counts.writes
      /\ numbers'.log = numbers.log /\ numbers'.logfile = numbers.logfile
      /\ numbers'.next = numbers.next /\ numbers'.manifest = numbers.manifest
  BY <1>1, SequenceTaken
<1>7. Files(logs', Issued) /\ DOMAIN logs' = DOMAIN logs
  <2>1. Files(logs, Issued)  BY <1>3 DEF Types, DiskTypes
  <2>2. ASSUME NEW file \in {logs[numbers.logfile], Appended(logs[numbers.logfile], <<writing.entry>>)},
               logs' = [logs EXCEPT ![numbers.logfile] = AfterFailure(file)]
        PROVE  Files(logs', Issued) /\ DOMAIN logs' = DOMAIN logs
    <3>1. LogTakes(AfterFailure(file))  BY <1>1, LogTaken
    <3> QED BY <1>1, <2>2, <3>1, LogWithEntry
  <2> QED BY <1>1, <2>1, <2>2
<1>8. bg_error' \in BOOLEAN /\ (bg_error => bg_error')  BY <1>1, Zenon
<1>9. Types'
  <2>1. DiskTypes' /\ HistoryTypes'
    BY <1>1, <1>3, <1>4, <1>5, <1>7 DEF Types, DiskTypes, HistoryTypes
  <2>2. ProcessTypes'  BY <1>1, <1>3, <1>4, <1>5, <1>6, <1>8 DEF Types, ProcessTypes
  <2> QED BY <2>1, <2>2 DEF Types
<1> QED BY <1>1, <1>2, <1>4, <1>6, <1>7, <1>8, <1>9, WritingStays

(* A number of a new file is in no use. *)
LEMMA NextIsNew ==
  ASSUME NoneAssumption, DiskInv, phase = "open"
  PROVE  /\ numbers.next \in Nat /\ numbers.next # None /\ numbers.next \notin version
         /\ \A s \in Reads : numbers.next \notin s.files
         /\ \A l \in DOMAIN logs : l < numbers.next
         /\ (flush # None => flush < numbers.next)
         /\ (compaction # None => compaction.output < numbers.next)
<1>1. Types /\ ReadsInv /\ RunningInv /\ LogfileInv /\ FlushInv /\ CompactionInv
  BY DEF DiskInv, FilesInv
<1>2. current # None /\ Running /\ numbers \in Numbers  BY OpenIs
<1>3. numbers.next \in Nat /\ numbers.logfile \in Nat  BY <1>2 DEF Numbers
<1>4. numbers.next # None  BY <1>3 DEF NoneAssumption
<1>5. numbers.next \notin version  BY <1>1, <1>2, <1>3 DEF RunningInv
<1>6. ASSUME NEW s \in Reads PROVE numbers.next \notin s.files
  <2>1. GoodRead(s) /\ GoodRead(Latest)  BY <1>1, <1>2, ReadingsAre DEF ReadsInv
  <2>2. s.next \in Nat /\ Latest.next \in Nat /\ s.next <= Latest.next /\ \A n \in s.files : n < s.next
    BY <2>1 DEF GoodRead, CompleteState
  <2>3. Latest.next <= numbers.next  BY <1>1, <1>2 DEF RunningInv
  <2> QED BY <1>3, <2>2, <2>3
<1>7. ASSUME NEW l \in DOMAIN logs PROVE l < numbers.next
  <2>1. l \in Nat  BY <1>1 DEF Types, DiskTypes, Files
  <2> QED BY <1>1, <1>3, <2>1 DEF LogfileInv
<1>8. (flush # None => flush < numbers.next) /\ (compaction # None => compaction.output < numbers.next)
  BY <1>1 DEF FlushInv, CompactionInv
<1> QED BY <1>3, <1>4, <1>5, <1>6, <1>7, <1>8

(* A new log and a new memtable. *)
LEMMA SwitchMemTableKeeps ==
  ASSUME Given, DiskInv, SwitchMemTable
  PROVE  DiskInv'
<1>1. /\ phase = "open" /\ ~obsolete /\ imm = None
      /\ logs' = With(logs, numbers.next, NewFile)
      /\ numbers' = [numbers EXCEPT !.logfile = numbers.next, !.next = @ + 1]
      /\ imm' = mem /\ mem' = {}
      /\ UNCHANGED <<current, manifests, tables, phase, version, descriptor, recovering,
                     pending_outputs, flush, compaction, edit, obsolete, bg_error, writing,
                     pinned, history, counts>>
  BY DEF SwitchMemTable, Ready, history
<1>2. /\ current # None /\ descriptor /\ Running /\ counts.writes \in Nat /\ numbers \in Numbers
      /\ edit # None => edit.by # "open" /\ ~edit.fresh
  BY <1>1, OpenIs
<1>3. Types /\ ReadsInv /\ PhaseInv /\ RunningInv /\ LogfileInv /\ EditInv
      /\ RecordInv /\ FlushInv /\ CompactionInv /\ PinnedInv /\ VersionInv /\ SettledInv
  BY DEF DiskInv, FilesInv
<1>4. /\ numbers' \in Numbers /\ numbers'.logfile = numbers.next /\ numbers'.next = numbers.next + 1
      /\ numbers'.log = numbers.log /\ numbers'.manifest = numbers.manifest
      /\ numbers'.sequence = numbers.sequence
      /\ numbers.next \in Nat /\ numbers.logfile \in Nat /\ numbers.log \in Nat
      /\ numbers.manifest \in Nat
  <2>1. numbers.next \in Nat /\ numbers.logfile \in Nat /\ numbers.log \in Nat
        /\ numbers.manifest \in Nat
    BY <1>2 DEF Numbers
  <2> DEFINE k == numbers.next
             i == k + 1
  <2>2. numbers' = [numbers EXCEPT !.logfile = k, !.next = i] /\ k \in Nat /\ i \in Nat
    BY <1>1, <2>1
  <2> HIDE DEF k, i
  <2>3. /\ numbers' \in Numbers /\ numbers'.logfile = k /\ numbers'.next = i
        /\ numbers'.log = numbers.log /\ numbers'.manifest = numbers.manifest
        /\ numbers'.sequence = numbers.sequence
    BY <1>2, <2>2 DEF Numbers
  <2> QED BY <2>1, <2>3 DEF k, i
<1>5. \A l \in DOMAIN logs : l < numbers.next  BY <1>1, NextIsNew
<1>6. Issued' = Issued  BY <1>1, IssuedStays
<1>7. DOMAIN logs' = DOMAIN logs \cup {numbers.next}  BY <1>1 DEF With
<1>8. Types'
  <2>1. Files(logs', Issued)
    <3>1. NewFile \in FileOf(Issued) /\ NewFile.synced <= Len(NewFile.records)  BY NewFileIsFile
    <3> QED BY <1>1, <1>3, <1>4, <3>1, FilesWith DEF Types, DiskTypes
  <2>2. DiskTypes' /\ HistoryTypes'
    BY <1>1, <1>3, <1>6, <2>1 DEF Types, DiskTypes, HistoryTypes
  <2>3. imm' \subseteq Issued /\ mem' \subseteq Issued  BY <1>1, <1>3 DEF Types, ProcessTypes
  <2>4. numbers'.sequence <= counts'.writes  BY <1>1, <1>3, <1>4 DEF Types, ProcessTypes
  <2>5. ProcessTypes'  BY <1>1, <1>3, <1>4, <1>6, <2>3, <2>4 DEF Types, ProcessTypes
  <2> QED BY <2>2, <2>5 DEF Types
<1>9. current \in DOMAIN manifests  BY <1>2, <1>3 DEF ReadsInv
<1>10. Reads' = Reads /\ Latest' = Latest /\ ReadsInv'  BY <1>1, <1>2, <1>3, <1>9, ReadsStay
<1>11. flush = None  BY <1>1, <1>3 DEF FlushInv
<1>12. PhaseInv' /\ UnbornInv' /\ LogsInv' /\ EditInv'
  BY <1>1, <1>2, <1>3 DEF PhaseInv, UnbornInv, LogsInv, EditInv
<1>13. GoodRead(Latest) /\ Latest.next \in Nat
  BY <1>2, <1>3, ReadingsAre DEF GoodRead, CompleteState
<1>14. RunningInv'
  <2>1. /\ Latest.next <= numbers.next /\ numbers.manifest < numbers.next
        /\ version \subseteq DOMAIN tables /\ version \subseteq Nat
        /\ \A n \in version : n < numbers.next
        /\ numbers.manifest = current
    BY <1>1, <1>2, <1>3 DEF RunningInv, Types, ProcessTypes
  <2>2. Latest'.next <= numbers'.next /\ numbers'.manifest < numbers'.next
    BY <1>4, <1>10, <1>13, <2>1
  <2>3. \A n \in version' : n < numbers'.next  BY <1>1, <1>4, <2>1
  <2> QED BY <1>1, <1>4, <1>10, <2>1, <2>2, <2>3 DEF RunningInv
<1>15. LogfileInv'
  <2>1. /\ numbers.log <= numbers.logfile /\ numbers.logfile < numbers.next
        /\ \A s \in Reads : s.log <= numbers.logfile
    BY <1>1, <1>3 DEF LogfileInv
  <2>2. numbers.log <= numbers.next  BY <1>4, <2>1
  <2>3. \A s \in Reads : s.log <= numbers.next
    <3>1. \A s \in Reads : s.log \in Nat  BY <1>2, <1>3 DEF ReadsInv, GoodRead, CompleteState
    <3> QED BY <1>4, <2>1, <3>1
  <2>4. \A l \in DOMAIN logs' : l <= numbers.next
    <3>1. DOMAIN logs \subseteq Nat  BY <1>3 DEF Types, DiskTypes, Files
    <3>2. \A l \in DOMAIN logs : l <= numbers.next  BY <1>4, <1>5, <3>1
    <3> QED BY <1>4, <1>7, <3>2
  <2>5. numbers'.logfile \in DOMAIN logs' /\ numbers'.logfile < numbers'.next  BY <1>4, <1>7
  <2> QED BY <1>4, <1>10, <2>2, <2>3, <2>4, <2>5 DEF LogfileInv
<1>16. RecordInv'
  <2>1. CASE edit # None
    <3>1. /\ edit.record.next <= numbers.next /\ edit.record.log < edit.record.next
          /\ numbers.log <= edit.record.log /\ edit.record.log <= numbers.logfile
          /\ edit.record.add \subseteq DOMAIN tables
          /\ \A n \in version \cup edit.record.add : n < edit.record.next
          /\ numbers.manifest < edit.record.next
          /\ edit.step = "write" => Latest.next <= edit.record.next
      BY <1>3, <2>1 DEF RecordInv
    <3>2. edit.record.next \in Nat /\ edit.record.log \in Nat  BY <2>1, EditIs
    <3>3. edit.record.next <= numbers'.next /\ edit.record.log <= numbers'.logfile
      BY <1>4, <3>1, <3>2
    <3> QED BY <1>1, <1>4, <1>10, <3>1, <3>3 DEF RecordInv
  <2>2. CASE edit = None
    BY <1>1, <2>2 DEF RecordInv
  <2> QED BY <2>1, <2>2
<1>17. FlushInv' /\ PinnedInv'  BY <1>1, <1>3, <1>11 DEF FlushInv, PinnedInv
<1>18. CompactionInv'
  <2>1. CASE compaction # None
    <3>1. compaction.output \in Nat /\ compaction.output < numbers.next
      BY <1>3, <2>1 DEF Types, ProcessTypes, CompactionState, CompactionInv
    <3>2. compaction.output < numbers'.next  BY <1>4, <3>1
    <3> QED BY <1>1, <1>3, <1>10, <3>2 DEF CompactionInv
  <2>2. CASE compaction = None
    BY <1>1, <2>2 DEF CompactionInv
  <2> QED BY <2>1, <2>2
<1>19. VersionInv' /\ SettledInv' /\ FreshInv'
  BY <1>1, <1>2, <1>3, <1>4, <1>10 DEF VersionInv, Running, Committed, SettledInv, FreshInv
<1> QED BY <1>8, <1>10, <1>12, <1>14, <1>15, <1>16, <1>17, <1>18, <1>19 DEF DiskInv, FilesInv

-------------------------------------------------------------------------------
(* Flushes and compactions. *)

(* What their steps leave as it is. *)
LEMMA BuildingStays ==
  ASSUME DiskInv, phase = "open", edit = None, Types', FlushInv', CompactionInv', EditInv', RecordInv',
         UNCHANGED <<current, manifests, logs, phase, version, descriptor, mem, imm, recovering,
                     obsolete, writing, pinned>>,
         DOMAIN tables \subseteq DOMAIN tables', counts'.writes = counts.writes,
         bg_error => bg_error', numbers.next <= numbers'.next,
         numbers'.log = numbers.log, numbers'.logfile = numbers.logfile,
         numbers'.manifest = numbers.manifest,
         edit' # None => edit'.step = "write" /\ ~edit'.fresh /\ ~obsolete
  PROVE  DiskInv'
<1>1. Types /\ ReadsInv /\ PhaseInv /\ UnbornInv /\ RunningInv /\ LogfileInv /\ PinnedInv
      /\ VersionInv /\ SettledInv
  BY DEF DiskInv, FilesInv
<1>2. /\ current # None /\ counts.writes \in Nat /\ numbers \in Numbers /\ descriptor
      /\ Running /\ recovering = None
  BY OpenIs
<1>3. current \in DOMAIN manifests /\ GoodRead(Latest)  BY <1>1, <1>2, ReadingsAre
<1>4. Reads' = Reads /\ Latest' = Latest /\ ReadsInv'  BY <1>1, <1>2, <1>3, ReadsStay
<1>5. /\ numbers.next \in Nat /\ numbers.manifest \in Nat /\ numbers.logfile \in Nat
      /\ numbers'.next \in Nat
  BY <1>2 DEF Numbers, Types, ProcessTypes
<1>6. PhaseInv' /\ UnbornInv' /\ LogsInv'  BY <1>1, <1>2 DEF PhaseInv, UnbornInv, LogsInv
<1>7. RunningInv'
  <2>1. /\ Latest.next <= numbers.next /\ numbers.manifest < numbers.next
        /\ version \subseteq DOMAIN tables /\ version \subseteq Nat
        /\ \A n \in version : n < numbers.next
        /\ numbers.manifest = current
    BY <1>1, <1>2 DEF RunningInv, Types, ProcessTypes
  <2>2. Latest.next \in Nat  BY <1>3 DEF GoodRead, CompleteState
  <2>3. Latest'.next <= numbers'.next /\ numbers'.manifest < numbers'.next
    BY <1>4, <1>5, <2>1, <2>2
  <2>4. \A n \in version' : n < numbers'.next  BY <1>5, <2>1
  <2> QED BY <1>4, <2>1, <2>3, <2>4 DEF RunningInv
<1>8. LogfileInv'
  <2>1. /\ numbers.logfile \in DOMAIN logs
        /\ numbers.log <= numbers.logfile /\ numbers.logfile < numbers.next
        /\ \A l \in DOMAIN logs : l <= numbers.logfile
        /\ \A s \in Reads : s.log <= numbers.logfile
    BY <1>1 DEF LogfileInv
  <2>2. numbers'.logfile < numbers'.next  BY <1>5, <2>1
  <2> QED BY <1>4, <2>1, <2>2 DEF LogfileInv
<1>9. PinnedInv'  BY <1>1 DEF PinnedInv
<1>10. VersionInv'
  <2>1. ~Committed /\ ~Committed'  BY DEF Committed
  <2> QED BY <1>1, <1>2, <1>4, <2>1 DEF VersionInv
<1>11. SettledInv' /\ FreshInv'  BY <1>1, <1>4 DEF SettledInv, FreshInv
<1> QED BY <1>4, <1>6, <1>7, <1>8, <1>9, <1>10, <1>11 DEF DiskInv, FilesInv

(* A file number is taken. *)
LEMMA NumberTaken ==
  ASSUME numbers \in Numbers, numbers' = [numbers EXCEPT !.next = @ + 1]
  PROVE  /\ numbers' \in Numbers /\ numbers'.next = numbers.next + 1
         /\ numbers.next \in Nat /\ numbers.next <= numbers'.next /\ numbers.next < numbers'.next
         /\ numbers'.log = numbers.log /\ numbers'.logfile = numbers.logfile
         /\ numbers'.manifest = numbers.manifest /\ numbers'.sequence = numbers.sequence
<1>1. numbers.next \in Nat  BY DEF Numbers
<1> DEFINE i == numbers.next + 1
<1>2. i \in Nat /\ numbers' = [numbers EXCEPT !.next = i] /\ numbers.next < i /\ numbers.next <= i
  BY <1>1
<1> HIDE DEF i
<1>3. /\ numbers' \in Numbers /\ numbers'.next = i
      /\ numbers'.log = numbers.log /\ numbers'.logfile = numbers.logfile
      /\ numbers'.manifest = numbers.manifest /\ numbers'.sequence = numbers.sequence
  BY <1>2 DEF Numbers
<1> QED BY <1>1, <1>2, <1>3 DEF i

(* A flush takes a number. *)
LEMMA StartFlushKeeps ==
  ASSUME Given, DiskInv, StartFlush
  PROVE  DiskInv'
<1>1. /\ phase = "open" /\ ~obsolete /\ imm # None /\ flush = None /\ edit = None
      /\ flush' = numbers.next
      /\ pending_outputs' = pending_outputs \cup {numbers.next}
      /\ numbers' = [numbers EXCEPT !.next = @ + 1]
      /\ UNCHANGED <<current, manifests, logs, tables, phase, version, descriptor, mem, imm,
                     recovering, compaction, edit, obsolete, bg_error, writing, pinned, history,
                     counts>>
  BY DEF StartFlush, Ready, disk, history
<1>2. Types /\ CompactionInv /\ ReadsInv  BY DEF DiskInv, FilesInv
<1>3. numbers \in Numbers /\ current # None /\ counts.writes \in Nat  BY <1>1, OpenIs
<1>4. /\ numbers' \in Numbers /\ numbers'.next = numbers.next + 1 /\ numbers.next \in Nat
      /\ numbers.next <= numbers'.next /\ numbers.next < numbers'.next
      /\ numbers'.log = numbers.log /\ numbers'.logfile = numbers.logfile
      /\ numbers'.manifest = numbers.manifest /\ numbers'.sequence = numbers.sequence
  BY <1>1, <1>3, NumberTaken
<1>5. /\ numbers.next # None /\ numbers.next \notin version
      /\ \A s \in Reads : numbers.next \notin s.files
      /\ compaction # None => compaction.output < numbers.next
  BY <1>1, NextIsNew
<1>6. Issued' = Issued  BY <1>1, IssuedStays
<1>7. Types'
  <2>1. DiskTypes' /\ HistoryTypes'  BY <1>1, <1>2, <1>6 DEF Types, DiskTypes, HistoryTypes
  <2>2. pending_outputs' \subseteq Nat  BY <1>1, <1>2, <1>4 DEF Types, ProcessTypes
  <2>3. numbers'.sequence <= counts'.writes  BY <1>1, <1>2, <1>4 DEF Types, ProcessTypes
  <2>4. ProcessTypes'  BY <1>1, <1>2, <1>4, <1>6, <2>2, <2>3 DEF Types, ProcessTypes
  <2> QED BY <2>1, <2>4 DEF Types
<1>8. Reads' = Reads  BY <1>1 DEF Reads
<1>9. FlushInv'  BY <1>1, <1>4, <1>5, <1>8 DEF FlushInv
<1>10. CompactionInv'
  <2>1. CASE compaction # None
    <3>1. compaction.output \in Nat /\ compaction.output < numbers.next
      BY <1>2, <2>1, <1>5 DEF Types, ProcessTypes, CompactionState
    <3>2. compaction.output < numbers'.next /\ compaction.output # numbers.next  BY <1>4, <3>1
    <3> QED BY <1>1, <1>2, <1>8, <3>2 DEF CompactionInv
  <2>2. CASE compaction = None
    BY <1>1, <2>2 DEF CompactionInv
  <2> QED BY <2>1, <2>2
<1>11. EditInv' /\ RecordInv'  BY <1>1 DEF EditInv, RecordInv
<1> QED BY <1>1, <1>4, <1>7, <1>9, <1>10, <1>11, BuildingStays

(* The table of a flush, and its edit. *)
LEMMA BuildTableKeeps ==
  ASSUME Given, DiskInv, BuildTable
  PROVE  DiskInv'
<1> DEFINE r == Edit({flush}, {}, numbers.logfile, numbers.next, numbers.sequence)
<1>1. /\ ~obsolete /\ flush # None /\ edit = None
      /\ tables' = With(tables, flush, imm)
      /\ pending_outputs' = pending_outputs \ {flush}
      /\ edit' = [step |-> "write", by |-> "flush", fresh |-> ~descriptor, record |-> r]
      /\ UNCHANGED <<current, manifests, logs, phase, version, numbers, descriptor, mem, imm,
                     recovering, flush, compaction, obsolete, bg_error, writing, pinned, history,
                     counts>>
  BY DEF BuildTable, LogOfMem, history
<1>2. Types /\ ReadsInv /\ PhaseInv /\ RunningInv /\ LogfileInv /\ FlushInv /\ CompactionInv
  BY DEF DiskInv, FilesInv
<1>3. phase = "open"  BY <1>1, <1>2 DEF PhaseInv
<1>4. numbers \in Numbers /\ current # None /\ counts.writes \in Nat /\ descriptor /\ Running
  BY <1>3, OpenIs
<1>5. /\ numbers.next \in Nat /\ numbers.logfile \in Nat /\ numbers.sequence \in Nat
      /\ flush \in Nat /\ imm # None /\ imm \subseteq Issued /\ flush < numbers.next
      /\ numbers.sequence <= counts.writes
  BY <1>1, <1>2, <1>4 DEF Numbers, Types, ProcessTypes, FlushInv
<1>6. /\ r \in VersionEdit /\ r.add = {flush} /\ r.del = {} /\ r.log = numbers.logfile
      /\ r.next = numbers.next /\ r.sequence = numbers.sequence
  BY <1>5 DEF Edit, VersionEdit
<1> HIDE DEF r
<1>7. /\ edit' \in Change /\ edit'.step = "write" /\ edit'.by = "flush" /\ ~edit'.fresh
      /\ edit'.record = r
  <2>1. edit' = [step |-> "write", by |-> "flush", fresh |-> FALSE, record |-> r]
    BY <1>1, <1>4, Zenon
  <2> QED BY <1>6, <2>1 DEF Change
<1>8. edit' # None  BY <1>7 DEF NoneAssumption
<1>9. /\ DOMAIN tables' = DOMAIN tables \cup {flush}
      /\ \A n \in DOMAIN tables' : tables'[n] = IF n = flush THEN imm ELSE tables[n]
  BY <1>1 DEF With
<1>10. Issued' = Issued  BY <1>1, IssuedStays
<1>11. Types'
  <2>1. DiskTypes'  BY <1>1, <1>2, <1>5, <1>9, <1>10 DEF Types, DiskTypes
  <2>2. HistoryTypes'  BY <1>1, <1>2, <1>10 DEF Types, HistoryTypes
  <2>3. edit'.record.sequence <= counts'.writes  BY <1>1, <1>5, <1>6, <1>7
  <2>4. pending_outputs' \subseteq Nat  BY <1>1, <1>2 DEF Types, ProcessTypes
  <2>5. ProcessTypes'  BY <1>1, <1>2, <1>7, <1>10, <2>3, <2>4 DEF Types, ProcessTypes
  <2> QED BY <2>1, <2>2, <2>5 DEF Types
<1>12. Reads' = Reads /\ Latest' = Latest  BY <1>1 DEF Reads, Latest
<1>13. FlushInv'  BY <1>1, <1>2, <1>7 DEF FlushInv
<1>14. CompactionInv'
  <2>1. CASE compaction # None
    <3>1. /\ compaction.inputs \subseteq version /\ compaction.output \in pending_outputs
          /\ compaction.output < numbers.next /\ compaction.output \in DOMAIN tables
          /\ compaction.output # flush
          /\ compaction.output \notin version /\ \A s \in Reads : compaction.output \notin s.files
      BY <1>1, <1>2, <2>1 DEF CompactionInv
    <3>2. compaction.output \in pending_outputs' /\ compaction.output \in DOMAIN tables'
      BY <1>1, <1>9, <3>1
    <3> QED BY <1>1, <1>12, <3>1, <3>2 DEF CompactionInv
  <2>2. CASE compaction = None
    BY <1>1, <2>2 DEF CompactionInv
  <2> QED BY <2>1, <2>2
<1>15. EditInv'  BY <1>1, <1>3, <1>6, <1>7 DEF EditInv
<1>16. RecordInv'
  <2>1. /\ numbers.log <= numbers.logfile /\ numbers.logfile < numbers.next
    BY <1>2, <1>3 DEF LogfileInv
  <2>2. Latest.next <= numbers.next /\ numbers.manifest < numbers.next
        /\ \A n \in version : n < numbers.next
    BY <1>2, <1>4 DEF RunningInv
  <2>3. \A n \in version \cup {flush} : n < numbers.next  BY <1>5, <2>2
  <2>4. numbers.next <= numbers.next /\ numbers.logfile <= numbers.logfile  BY <1>5
  <2> QED BY <1>1, <1>6, <1>7, <1>9, <1>12, <2>1, <2>2, <2>3, <2>4 DEF RecordInv
<1>17. numbers.next <= numbers'.next  BY <1>1, <1>5
<1> QED BY <1>1, <1>3, <1>7, <1>9, <1>11, <1>13, <1>14, <1>15, <1>16, <1>17, BuildingStays

(* The table of a flush cannot be written. *)
LEMMA BuildTableFailsKeeps ==
  ASSUME Given, DiskInv, BuildTableFails
  PROVE  DiskInv'
<1>1. /\ ~obsolete /\ flush # None /\ edit = None
      /\ counts' = [counts EXCEPT !.errors = @ + 1]
      /\ pending_outputs' = pending_outputs \ {flush}
      /\ flush' = None /\ bg_error' = TRUE
      /\ UNCHANGED <<current, manifests, logs, tables, phase, version, numbers, descriptor, mem,
                     imm, recovering, compaction, edit, obsolete, writing, pinned, history>>
  BY DEF BuildTableFails, Fail, disk, history
<1>2. Types /\ PhaseInv /\ CompactionInv  BY DEF DiskInv, FilesInv
<1>3. phase = "open"  BY <1>1, <1>2 DEF PhaseInv
<1>4. numbers \in Numbers /\ counts \in Counts  BY <1>3, OpenIs
<1>5. counts' \in Counts /\ counts'.writes = counts.writes  BY <1>1, <1>4 DEF Counts
<1>6. Issued' = Issued  BY <1>5, IssuedStays
<1>7. Types'
  <2>1. DiskTypes' /\ HistoryTypes'
    BY <1>1, <1>2, <1>5, <1>6 DEF Types, DiskTypes, HistoryTypes
  <2>2. pending_outputs' \subseteq Nat  BY <1>1, <1>2 DEF Types, ProcessTypes
  <2>3. bg_error' \in BOOLEAN  BY <1>1, Zenon
  <2>4. ProcessTypes'  BY <1>1, <1>2, <1>5, <1>6, <2>2, <2>3 DEF Types, ProcessTypes
  <2> QED BY <2>1, <2>4 DEF Types
<1>8. Reads' = Reads  BY <1>1 DEF Reads
<1>9. FlushInv'  BY <1>1 DEF FlushInv
<1>10. CompactionInv'
  <2>1. CASE compaction # None
    <3>1. compaction.output # None
      BY <1>2, <2>1 DEF Types, ProcessTypes, CompactionState, NoneAssumption
    <3>2. compaction.output \in pending_outputs'  BY <1>1, <1>2, <2>1 DEF CompactionInv
    <3> QED BY <1>1, <1>2, <1>8, <3>1, <3>2 DEF CompactionInv
  <2>2. CASE compaction = None
    BY <1>1, <2>2 DEF CompactionInv
  <2> QED BY <2>1, <2>2
<1>11. EditInv' /\ RecordInv'  BY <1>1 DEF EditInv, RecordInv
<1>12. numbers.next <= numbers'.next  BY <1>1, <1>4 DEF Numbers
<1> QED BY <1>1, <1>3, <1>5, <1>7, <1>9, <1>10, <1>11, <1>12, BuildingStays

(* A compaction takes a number and creates its table. *)
LEMMA OpenCompactionOutputFileKeeps ==
  ASSUME Given, DiskInv, NEW inputs \in (SUBSET version) \ {{}},
         OpenCompactionOutputFile(inputs)
  PROVE  DiskInv'
<1>1. /\ phase = "open" /\ ~obsolete /\ compaction = None /\ flush = None /\ edit = None
      /\ counts' = [counts EXCEPT !.compactions = @ + 1]
      /\ compaction' = [inputs |-> inputs, output |-> numbers.next]
      /\ pending_outputs' = pending_outputs \cup {numbers.next}
      /\ tables' = With(tables, numbers.next, {})
      /\ numbers' = [numbers EXCEPT !.next = @ + 1]
      /\ UNCHANGED <<current, manifests, logs, phase, version, descriptor, mem, imm, recovering,
                     flush, edit, obsolete, bg_error, writing, pinned, history>>
  BY DEF OpenCompactionOutputFile, Ready, history
<1>2. Types  BY DEF DiskInv
<1>3. numbers \in Numbers /\ counts \in Counts  BY <1>1, OpenIs
<1>4. /\ numbers' \in Numbers /\ numbers.next \in Nat
      /\ numbers.next <= numbers'.next /\ numbers.next < numbers'.next
      /\ numbers'.log = numbers.log /\ numbers'.logfile = numbers.logfile
      /\ numbers'.manifest = numbers.manifest /\ numbers'.sequence = numbers.sequence
  BY <1>1, <1>3, NumberTaken
<1>5. /\ numbers.next # None /\ numbers.next \notin version
      /\ \A s \in Reads : numbers.next \notin s.files
  BY <1>1, NextIsNew
<1>6. counts' \in Counts /\ counts'.writes = counts.writes  BY <1>1, <1>3 DEF Counts
<1>7. Issued' = Issued  BY <1>6, IssuedStays
<1>8. /\ DOMAIN tables' = DOMAIN tables \cup {numbers.next}
      /\ \A n \in DOMAIN tables' : tables'[n] = IF n = numbers.next THEN {} ELSE tables[n]
  BY <1>1 DEF With
<1>9. compaction' \in CompactionState /\ compaction'.inputs = inputs /\ compaction'.output = numbers.next
  <2>1. version \subseteq Nat  BY <1>2 DEF Types, ProcessTypes
  <2> QED BY <1>1, <1>4, <2>1 DEF CompactionState
<1>10. Types'
  <2>1. DiskTypes'  BY <1>1, <1>2, <1>4, <1>7, <1>8 DEF Types, DiskTypes
  <2>2. HistoryTypes'  BY <1>1, <1>2, <1>6, <1>7 DEF Types, HistoryTypes
  <2>3. pending_outputs' \subseteq Nat  BY <1>1, <1>2, <1>4 DEF Types, ProcessTypes
  <2>4. numbers'.sequence <= counts'.writes  BY <1>2, <1>4, <1>6 DEF Types, ProcessTypes
  <2>5. ProcessTypes'  BY <1>1, <1>2, <1>4, <1>6, <1>7, <1>9, <2>3, <2>4 DEF Types, ProcessTypes
  <2> QED BY <2>1, <2>2, <2>5 DEF Types
<1>11. Reads' = Reads  BY <1>1 DEF Reads
<1>12. FlushInv' /\ EditInv' /\ RecordInv'  BY <1>1 DEF FlushInv, EditInv, RecordInv
<1>13. CompactionInv'
  <2>1. compaction'.output \in pending_outputs' /\ compaction'.output \in DOMAIN tables'
    BY <1>1, <1>8, <1>9
  <2> QED BY <1>1, <1>4, <1>5, <1>9, <1>11, <2>1 DEF CompactionInv
<1> QED BY <1>1, <1>4, <1>6, <1>8, <1>10, <1>12, <1>13, BuildingStays

(* The table of a compaction is whole, and its edit. *)
LEMMA InstallCompactionResultsKeeps ==
  ASSUME Given, DiskInv, InstallCompactionResults
  PROVE  DiskInv'
<1> DEFINE out == compaction.output
           r == Edit({out}, compaction.inputs, numbers.log, numbers.next, numbers.sequence)
<1>1. /\ ~obsolete /\ compaction # None /\ flush = None /\ edit = None
      /\ tables' = With(tables, out, EntriesOf(compaction.inputs))
      /\ edit' = [step |-> "write", by |-> "compaction", fresh |-> ~descriptor, record |-> r]
      /\ UNCHANGED <<current, manifests, logs, phase, version, numbers, descriptor, mem, imm,
                     recovering, pending_outputs, flush, compaction, obsolete, bg_error, writing,
                     pinned, history, counts>>
  BY DEF InstallCompactionResults, history
<1>2. Types /\ ReadsInv /\ PhaseInv /\ RunningInv /\ LogfileInv /\ CompactionInv
  BY DEF DiskInv, FilesInv
<1>3. phase = "open"  BY <1>1, <1>2 DEF PhaseInv
<1>4. numbers \in Numbers /\ current # None /\ counts.writes \in Nat /\ descriptor /\ Running
  BY <1>3, OpenIs
<1>5. /\ compaction.inputs \subseteq version /\ out \in pending_outputs
      /\ out < numbers.next /\ out \in DOMAIN tables
  BY <1>1, <1>2 DEF CompactionInv
<1>6. /\ numbers.next \in Nat /\ numbers.log \in Nat /\ numbers.sequence \in Nat
      /\ numbers.logfile \in Nat
      /\ out \in Nat /\ compaction.inputs \subseteq Nat /\ version \subseteq Nat
      /\ numbers.sequence <= counts.writes
  BY <1>1, <1>2, <1>4 DEF Numbers, Types, ProcessTypes, CompactionState
<1>7. version \subseteq DOMAIN tables /\ \A n \in version : n < numbers.next
  BY <1>2, <1>4 DEF RunningInv
<1>8. EntriesOf(compaction.inputs) \subseteq Issued
  BY <1>2, <1>5, <1>7 DEF EntriesOf, Types, DiskTypes
<1> HIDE DEF out
<1>9. /\ r \in VersionEdit /\ r.add = {out} /\ r.del = compaction.inputs /\ r.log = numbers.log
      /\ r.next = numbers.next /\ r.sequence = numbers.sequence
  BY <1>6 DEF Edit, VersionEdit
<1> HIDE DEF r
<1>10. /\ edit' \in Change /\ edit'.step = "write" /\ edit'.by = "compaction" /\ ~edit'.fresh
       /\ edit'.record = r
  <2>1. edit' = [step |-> "write", by |-> "compaction", fresh |-> FALSE, record |-> r]
    BY <1>1, <1>4, Zenon
  <2> QED BY <1>9, <2>1 DEF Change
<1>11. edit' # None  BY <1>10 DEF NoneAssumption
<1>12. /\ DOMAIN tables' = DOMAIN tables \cup {out}
       /\ \A n \in DOMAIN tables' :
            tables'[n] = IF n = out THEN EntriesOf(compaction.inputs) ELSE tables[n]
  BY <1>1 DEF With
<1>13. Issued' = Issued  BY <1>1, IssuedStays
<1>14. Types'
  <2>1. DiskTypes'  BY <1>1, <1>2, <1>6, <1>8, <1>12, <1>13 DEF Types, DiskTypes
  <2>2. HistoryTypes'  BY <1>1, <1>2, <1>13 DEF Types, HistoryTypes
  <2>3. edit'.record.sequence <= counts'.writes  BY <1>1, <1>6, <1>9, <1>10
  <2>4. ProcessTypes'  BY <1>1, <1>2, <1>10, <1>13, <2>3 DEF Types, ProcessTypes
  <2> QED BY <2>1, <2>2, <2>4 DEF Types
<1>15. Reads' = Reads /\ Latest' = Latest  BY <1>1 DEF Reads, Latest
<1>16. FlushInv'  BY <1>1 DEF FlushInv
<1>17. CompactionInv'
  <2>1. compaction'.output \in DOMAIN tables'  BY <1>1, <1>12 DEF out
  <2> QED BY <1>1, <1>2, <1>10, <1>15, <2>1 DEF CompactionInv
<1>18. EditInv'  BY <1>1, <1>3, <1>9, <1>10 DEF EditInv, out
<1>19. RecordInv'
  <2>1. numbers.log <= numbers.logfile /\ numbers.logfile < numbers.next
    BY <1>2, <1>3 DEF LogfileInv
  <2>2. Latest.next <= numbers.next /\ numbers.manifest < numbers.next
    BY <1>2, <1>4 DEF RunningInv
  <2>3. \A n \in version \cup {out} : n < numbers.next  BY <1>5, <1>7 DEF out
  <2>4. numbers.next <= numbers.next /\ numbers.log <= numbers.log /\ numbers.log < numbers.next
    BY <1>6, <2>1
  <2> QED BY <1>1, <1>9, <1>10, <1>12, <1>15, <2>1, <2>2, <2>3, <2>4 DEF RecordInv
<1>20. numbers.next <= numbers'.next  BY <1>1, <1>6
<1> QED BY <1>1, <1>3, <1>10, <1>12, <1>14, <1>16, <1>17, <1>18, <1>19, <1>20, BuildingStays

(* A compaction fails. *)
LEMMA CleanupCompactionKeeps ==
  ASSUME Given, DiskInv, CleanupCompaction
  PROVE  DiskInv'
<1>1. /\ ~obsolete /\ compaction # None /\ flush = None /\ edit = None
      /\ counts' = [counts EXCEPT !.errors = @ + 1]
      /\ bg_error' = TRUE
      /\ compaction' = None
      /\ pending_outputs' = pending_outputs \ {compaction.output}
      /\ UNCHANGED <<current, manifests, logs, tables, phase, version, numbers, descriptor, mem,
                     imm, recovering, flush, edit, obsolete, writing, pinned, history>>
  BY DEF CleanupCompaction, Fail, disk, history
<1>2. Types /\ PhaseInv  BY DEF DiskInv, FilesInv
<1>3. phase = "open"  BY <1>1, <1>2 DEF PhaseInv
<1>4. numbers \in Numbers /\ counts \in Counts  BY <1>3, OpenIs
<1>5. counts' \in Counts /\ counts'.writes = counts.writes  BY <1>1, <1>4 DEF Counts
<1>6. Issued' = Issued  BY <1>5, IssuedStays
<1>7. Types'
  <2>1. DiskTypes' /\ HistoryTypes'
    BY <1>1, <1>2, <1>5, <1>6 DEF Types, DiskTypes, HistoryTypes
  <2>2. pending_outputs' \subseteq Nat  BY <1>1, <1>2 DEF Types, ProcessTypes
  <2>3. bg_error' \in BOOLEAN  BY <1>1, Zenon
  <2>4. ProcessTypes'  BY <1>1, <1>2, <1>5, <1>6, <2>2, <2>3 DEF Types, ProcessTypes
  <2> QED BY <2>1, <2>4 DEF Types
<1>8. FlushInv' /\ CompactionInv' /\ EditInv' /\ RecordInv'
  BY <1>1 DEF FlushInv, CompactionInv, EditInv, RecordInv
<1>9. numbers.next <= numbers'.next  BY <1>1, <1>4 DEF Numbers
<1> QED BY <1>1, <1>3, <1>5, <1>7, <1>8, <1>9, BuildingStays

-------------------------------------------------------------------------------
(* Iterators, crashes, and the invariant. *)

(* An iterator pins the version, or lets go of it. *)
LEMMA ReadingKeeps ==
  ASSUME Given, DiskInv, Reading
  PROVE  DiskInv'
<1>1. /\ phase = "open" /\ ~obsolete /\ (pinned' = version \/ pinned' = None)
      /\ UNCHANGED <<current, manifests, logs, tables, phase, version, numbers, descriptor, mem,
                     imm, recovering, pending_outputs, flush, compaction, edit, obsolete,
                     bg_error, writing, history, counts>>
  BY DEF Reading, NewIterator, ReleaseIterator, Ready, disk, history
<1>2. Types /\ RunningInv  BY DEF DiskInv, FilesInv
<1>3. current # None /\ counts.writes \in Nat /\ Running  BY <1>1, OpenIs
<1>4. Issued' = Issued  BY <1>1, IssuedStays
<1>5. Types'  BY <1>1, <1>2, <1>4 DEF Types, DiskTypes, ProcessTypes, HistoryTypes
<1>6. PinnedInv'  BY <1>1, <1>2, <1>3 DEF PinnedInv, RunningInv
<1> QED BY <1>1, <1>3, <1>5, <1>6, RestStays

(* The process dies: the files stay as they are. *)
LEMMA ProcessCrashKeeps ==
  ASSUME Given, DiskInv, ProcessCrash
  PROVE  DiskInv'
<1>1. /\ counts' = [counts EXCEPT !.crashes = @ + 1] /\ ToClosed
      /\ UNCHANGED <<current, manifests, logs, tables, history>>
  BY DEF ProcessCrash, Crash, disk
<1>2. Types /\ ReadsInv /\ UnbornInv  BY DEF DiskInv, FilesInv
<1>3. counts' \in Counts /\ counts'.writes = counts.writes /\ counts.writes \in Nat
  <2>1. counts \in Counts  BY <1>2 DEF Types, HistoryTypes
  <2> QED BY <1>1, <2>1 DEF Counts
<1>4. Issued' = Issued  BY <1>3, IssuedStays
<1>5. ProcessTypes'  BY <1>1, <1>3, ClosedTypes
<1>6. Types'  BY <1>1, <1>2, <1>3, <1>4, <1>5 DEF Types, DiskTypes, HistoryTypes
<1>7. phase' = "closed"  BY <1>1 DEF ToClosed
<1>8. FilesInv'
  <2>1. current' = None => UnbornInv'  BY <1>1, <1>2, <1>7 DEF UnbornInv
  <2> QED BY <1>1, <2>1, ClosedFiles
<1>9. ReadsInv'
  <2>1. CASE current = None
    BY <1>1, <2>1 DEF ReadsInv
  <2>2. CASE current # None
    <3>1. current \in DOMAIN manifests  BY <1>2, <2>2 DEF ReadsInv
    <3> QED BY <1>1, <1>2, <1>3, <2>2, <3>1, ReadsStay
  <2> QED BY <2>1, <2>2
<1> QED BY <1>6, <1>8, <1>9 DEF DiskInv

(* The machine fails: what is left of the MANIFEST is a reading of it. *)
LEMMA MachineCrashIs ==
  ASSUME Given, Options, DiskInv, MachineCrash
  PROVE  /\ current # None /\ current' = current /\ current \in DOMAIN manifests
         /\ Files(manifests', EditRecord) /\ DOMAIN manifests' = DOMAIN manifests
         /\ manifests'[current].records # <<>>
         /\ Reads' = {Latest'} /\ Latest' \in Reads
<1>1. /\ PowerFails /\ (FailsWhenNew \/ (current # None /\ manifests[current].synced > 0))
      /\ manifests' \in Remains(manifests) /\ current' = current
  BY DEF MachineCrash
<1>2. current # None /\ manifests[current].synced > 0  BY <1>1 DEF Options
<1>3. Types /\ ReadsInv  BY DEF DiskInv
<1>4. /\ Files(manifests', EditRecord) /\ DOMAIN manifests' = DOMAIN manifests
      /\ \A x \in DOMAIN manifests : \E n \in 0..Len(manifests[x].records) :
           manifests[x].synced <= n /\ manifests'[x] = Torn(manifests[x], n)
  BY <1>1, <1>3, FilesTorn DEF Types, DiskTypes
<1> DEFINE file == manifests[current]
<1>5. /\ current \in DOMAIN manifests /\ file \in FileOf(EditRecord)
      /\ file.synced \in Nat /\ file.synced > 0
  BY <1>2, <1>3, ReadingsAre DEF FileOf
<1>6. PICK n \in 0..Len(file.records) : file.synced <= n /\ manifests'[current] = Torn(file, n)
  BY <1>4, <1>5
<1> HIDE DEF file
<1> DEFINE torn == Torn(file, n)
<1>7. n \in 1..Len(file.records)
  <2>1. Len(file.records) \in Nat  BY <1>5 DEF FileOf
  <2> QED BY <1>5, <1>6, <2>1
<1>8. /\ torn.records # <<>> /\ ReadsOf(torn) = {ReadManifest(torn.records)}
      /\ ReadManifest(torn.records) \in ReadsOf(file)
  BY <1>1, <1>5, <1>6, <1>7, ReadsTorn
<1> HIDE DEF torn
<1>9. manifests'[current'] = torn  BY <1>1, <1>6 DEF torn
<1>10. Latest' = ReadManifest(torn.records) /\ Reads' = {Latest'}
  BY <1>8, <1>9 DEF Latest, Reads
<1>11. Latest' \in Reads  BY <1>8, <1>10 DEF Reads, file
<1> QED BY <1>1, <1>2, <1>4, <1>5, <1>8, <1>9, <1>10, <1>11

(* The machine fails: each MANIFEST keeps at least what was synced. *)
LEMMA MachineCrashKeeps ==
  ASSUME Given, Options, DiskInv, MachineCrash
  PROVE  DiskInv'
<1>1. /\ counts' = [counts EXCEPT !.crashes = @ + 1] /\ ToClosed
      /\ logs' \in Remains(logs)
      /\ UNCHANGED <<current, tables, durable>>
      /\ acknowledged' \subseteq acknowledged /\ doubtful' = {}
  BY DEF MachineCrash, Crash
<1>2. /\ current # None /\ current \in DOMAIN manifests
      /\ Files(manifests', EditRecord) /\ DOMAIN manifests' = DOMAIN manifests
      /\ manifests'[current].records # <<>>
      /\ Reads' = {Latest'} /\ Latest' \in Reads
  BY MachineCrashIs
<1>3. Types /\ ReadsInv  BY DEF DiskInv
<1>4. counts' \in Counts /\ counts'.writes = counts.writes /\ counts.writes \in Nat
  <2>1. counts \in Counts  BY <1>3 DEF Types, HistoryTypes
  <2> QED BY <1>1, <2>1 DEF Counts
<1>5. Issued' = Issued  BY <1>4, IssuedStays
<1>6. Files(logs', Issued)  BY <1>1, <1>3, FilesTorn DEF Types, DiskTypes
<1>7. Types'
  <2>1. DiskTypes'  BY <1>1, <1>2, <1>3, <1>5, <1>6 DEF Types, DiskTypes
  <2>2. HistoryTypes'  BY <1>1, <1>3, <1>4, <1>5 DEF Types, HistoryTypes
  <2>3. ProcessTypes'  BY <1>1, <1>4, ClosedTypes
  <2> QED BY <2>1, <2>2, <2>3 DEF Types
<1>8. FilesInv'  BY <1>1, <1>2, ClosedFiles
<1>9. GoodRead(Latest')  BY <1>2, <1>3 DEF ReadsInv
<1>10. Latest'.next <= Latest'.next  BY <1>9 DEF GoodRead, CompleteState
<1>11. GoodRead(Latest)'  BY <1>1, <1>4, <1>9, <1>10 DEF GoodRead
<1>12. ReadsInv'  BY <1>1, <1>2, <1>11 DEF ReadsInv
<1> QED BY <1>7, <1>8, <1>12 DEF DiskInv

-------------------------------------------------------------------------------
(* Where appends have failed. *)

(* Nothing fails where logs are reused. *)
LEMMA NoFailureReused ==
  ASSUME Options, DiskInv, reuse_logs
  PROVE  ~(counts.errors < MaxErrors)
<1>1. counts.errors \in Nat /\ MaxErrors = 0
  BY DEF DiskInv, Types, HistoryTypes, Counts, Options
<1> QED BY <1>1

(* The process has no files open. *)
LEMMA TailsAtRest ==
  ASSUME DiskInv, TailInv, phase' \notin {"save", "open"}, ReusedTails', writing' = None,
         acknowledged' \subseteq acknowledged, doubtful' \subseteq doubtful
  PROVE  TailInv'
  BY DEF TailInv, ManifestTail, SavingTails, LogTail, DoubtInv

(* Files of which some tails may go, and none is another. *)
SameTails(f, g) == \A n \in DOMAIN g : n \in DOMAIN f /\ g[n].tail = f[n].tail
LEMMA ReusedStay ==
  ASSUME ReusedTails, SameTails(logs, logs'), SameTails(manifests, manifests')
  PROVE  ReusedTails'
  BY DEF ReusedTails, SameTails

(* An open database of which the tails stay, with the same write under way. *)
LEMMA TailsStay ==
  ASSUME NoneAssumption, DiskInv, TailInv, phase = "open", phase' = "open", current' = current,
         SameTails(logs, logs'), SameTails(manifests, manifests'),
         current \in DOMAIN manifests', numbers.logfile \in DOMAIN logs',
         numbers'.logfile = numbers.logfile, bg_error => bg_error',
         UNCHANGED <<acknowledged, doubtful>>,
         (writing' = None) = (writing = None),
         writing # None => writing'.entry = writing.entry
  PROVE  TailInv'
<1>1. ReusedTails'  BY ReusedStay DEF TailInv
<1>2. ManifestTail'  BY DEF TailInv, ManifestTail, SameTails
<1>3. SavingTails'  BY DEF SavingTails
<1>4. LogTail'  BY DEF TailInv, LogTail, SameTails
<1>5. DoubtInv'  BY DEF TailInv, DoubtInv
<1> QED BY <1>1, <1>2, <1>3, <1>4, <1>5 DEF TailInv

(* DB::Open up to the new log. *)
LEMMA OpeningTails ==
  ASSUME Given, Options, DiskInv, TailInv,
         NewDB \/ SetCurrentOfNewDB \/ RecoverVersion \/ RecoverLogFile \/ SkipLogFile \/ OpenFails
  PROVE  TailInv'
<1>1. phase # "open" /\ writing = None
  <2>1. PhaseInv  BY DEF DiskInv, FilesInv
  <2>2. phase # "open"
    BY DEF NewDB, SetCurrentOfNewDB, RecoverVersion, RecoverLogFile, SkipLogFile, OpenFails
  <2> QED BY <2>1, <2>2 DEF PhaseInv
<1>2. ReusedTails  BY DEF TailInv
<1>3. CASE NewDB
  <2>1. /\ manifests' = With(manifests, 1, Appended(NewFile, <<NewDBEdit>>)) /\ phase' = "created"
        /\ UNCHANGED <<logs, writing, acknowledged, doubtful>>
    BY <1>3 DEF NewDB, history
  <2>2. Appended(NewFile, <<NewDBEdit>>).tail = "sound"  BY DEF Appended, NewFile
  <2>3. ReusedTails'  BY <1>2, <2>1, <2>2 DEF ReusedTails, With
  <2> QED BY <1>1, <2>1, <2>3, TailsAtRest
<1>4. CASE SetCurrentOfNewDB
  <2>1. phase' = "closed" /\ UNCHANGED <<logs, manifests, writing, acknowledged, doubtful>>
    BY <1>4 DEF SetCurrentOfNewDB, history
  <2>2. ReusedTails'  BY <1>2, <2>1 DEF ReusedTails
  <2> QED BY <1>1, <2>1, <2>2, TailsAtRest
<1>5. CASE RecoverVersion
  <2>1. phase' = "logs" /\ UNCHANGED <<logs, manifests, writing, acknowledged, doubtful>>
    BY <1>5 DEF RecoverVersion, disk, history
  <2>2. ReusedTails'  BY <1>2, <2>1 DEF ReusedTails
  <2> QED BY <1>1, <2>1, <2>2, TailsAtRest
<1>6. CASE RecoverLogFile
  <2>1. phase' = "logs" /\ UNCHANGED <<logs, manifests, writing, acknowledged, doubtful>>
    BY <1>6 DEF RecoverLogFile, history
  <2>2. ReusedTails'  BY <1>2, <2>1 DEF ReusedTails
  <2> QED BY <1>1, <2>1, <2>2, TailsAtRest
<1>7. CASE SkipLogFile
  <2>1. phase' = "logs" /\ UNCHANGED <<logs, manifests, writing, acknowledged, doubtful>>
    BY <1>7 DEF SkipLogFile, disk, history
  <2>2. ReusedTails'  BY <1>2, <2>1 DEF ReusedTails
  <2> QED BY <1>1, <2>1, <2>2, TailsAtRest
<1>8. CASE OpenFails
  <2>1. /\ phase' = "closed" /\ writing' = None
        /\ manifests' = IF phase = "created" THEN Without(manifests, 1) ELSE manifests
        /\ UNCHANGED <<logs, acknowledged, doubtful>>
    BY <1>8 DEF OpenFails, ToClosed, history
  <2>2. ReusedTails'  BY <1>2, <2>1 DEF ReusedTails, Without
  <2> QED BY <2>1, <2>2, TailsAtRest
<1> QED BY <1>3, <1>4, <1>5, <1>6, <1>7, <1>8

(* A log that is new has a sound tail, and so has one that is reused. *)
LEMMA NewLogTails ==
  ASSUME Given, Options, DiskInv, TailInv, NewLog
  PROVE  TailInv'
<1>1. /\ phase = "logs" /\ recovering # None /\ current # None
      /\ numbers'.logfile = (IF recovering.reused THEN numbers.logfile ELSE numbers.next)
      /\ logs' = (IF recovering.reused THEN logs ELSE With(logs, numbers.next, NewFile))
      /\ recovering.save => edit'.step = "write" /\ phase' = "save" /\ doubtful' = doubtful
      /\ ~recovering.save => phase' = "open" /\ doubtful' = {}
      /\ UNCHANGED <<current, manifests, bg_error, writing, acknowledged>>
  BY NewLogIs
<1>2. ReusedTails /\ DoubtInv /\ LogsInv /\ PhaseInv /\ ReadsInv
  BY DEF TailInv, DiskInv, FilesInv
<1>3. writing' = None  BY <1>1, <1>2 DEF PhaseInv
<1>4. /\ recovering.reused => reuse_logs /\ numbers.logfile \in DOMAIN logs
      /\ ~recovering.save => reuse_logs
  BY <1>1, <1>2 DEF LogsInv
<1>5. /\ logs'[numbers'.logfile].tail = "sound"
      /\ reuse_logs => \A n \in DOMAIN logs' : logs'[n].tail = "sound"
  <2>1. CASE recovering.reused
    BY <1>1, <1>2, <1>4, <2>1 DEF ReusedTails
  <2>2. CASE ~recovering.reused
    <3>1. logs' = With(logs, numbers.next, NewFile) /\ numbers'.logfile = numbers.next
      BY <1>1, <2>2
    <3>2. NewFile.tail = "sound"  BY DEF NewFile
    <3> QED BY <1>2, <3>1, <3>2 DEF With, ReusedTails
  <2> QED BY <2>1, <2>2
<1>6. ReusedTails'  BY <1>1, <1>2, <1>5 DEF ReusedTails
<1>7. ManifestTail' /\ SavingTails' /\ LogTail'
  <2>1. current \in DOMAIN manifests  BY <1>1, <1>2 DEF ReadsInv
  <2>2. CASE recovering.save
    BY <1>1, <1>5, <2>2 DEF ManifestTail, SavingTails, LogTail
  <2>3. CASE ~recovering.save
    BY <1>1, <1>2, <1>4, <1>5, <2>1, <2>3 DEF ManifestTail, SavingTails, LogTail, ReusedTails
  <2> QED BY <2>2, <2>3
<1>8. DoubtInv'  BY <1>1, <1>2, <1>3 DEF DoubtInv
<1> QED BY <1>6, <1>7, <1>8 DEF TailInv

(* LogAndApply. *)
LEMMA WriteManifestTails ==
  ASSUME Given, Options, DiskInv, TailInv, WriteManifest
  PROVE  TailInv'
<1>1. /\ edit # None /\ edit' # None
      /\ UNCHANGED <<current, logs, phase, numbers, bg_error, writing, acknowledged, doubtful>>
      /\ current \in DOMAIN manifests'
      /\ edit.fresh => /\ manifests'[current] = manifests[current]
                       /\ manifests'[numbers.manifest].tail = "sound"
      /\ ~edit.fresh =>
           /\ (manifests'[current].tail = "sound") = (manifests[current].tail = "sound")
           /\ \A n \in DOMAIN manifests' : n # current => /\ n \in DOMAIN manifests
                                                          /\ manifests'[n] = manifests[n]
  BY WriteManifestIs
<1>2. /\ edit.fresh = (edit.by = "open" /\ ~reuse_logs)
      /\ phase = IF edit.by = "open" THEN "save" ELSE "open"
  BY <1>1 DEF DiskInv, FilesInv, EditInv
<1>3. /\ current # None /\ edit.fresh \in BOOLEAN
      /\ ~edit.fresh => numbers.manifest = current
      /\ edit.by \in {"open", "flush", "compaction"}
  BY <1>1, EditIs
<1>4. current \in DOMAIN manifests  BY <1>3 DEF DiskInv, ReadsInv
<1>5. ReusedTails /\ ManifestTail /\ SavingTails /\ LogTail /\ DoubtInv  BY DEF TailInv
<1>6. ReusedTails'
  <2> SUFFICES ASSUME reuse_logs PROVE \A n \in DOMAIN manifests' : manifests'[n].tail = "sound"
    BY <1>1, <1>5 DEF ReusedTails
  <2>1. ~edit.fresh  BY <1>2
  <2> QED BY <1>1, <1>4, <1>5, <2>1 DEF ReusedTails
<1>7. ManifestTail'
  <2> SUFFICES ASSUME phase = "open", ~bg_error PROVE manifests'[current].tail = "sound"
    BY <1>1 DEF ManifestTail
  <2>1. manifests[current].tail = "sound" /\ ~edit.fresh  BY <1>2, <1>5 DEF ManifestTail
  <2> QED BY <1>1, <2>1
<1>8. SavingTails'
  <2> SUFFICES ASSUME phase = "save" PROVE manifests'[numbers.manifest].tail = "sound"
    BY <1>1, <1>5 DEF SavingTails
  <2>1. CASE edit.fresh
    BY <1>1, <2>1
  <2>2. CASE ~edit.fresh
    BY <1>1, <1>2, <1>3, <1>6, <2>2 DEF ReusedTails
  <2> QED BY <1>3, <2>1, <2>2
<1>9. LogTail' /\ DoubtInv'  BY <1>1, <1>5 DEF LogTail, DoubtInv
<1> QED BY <1>6, <1>7, <1>8, <1>9 DEF TailInv
LEMMA SyncManifestTails ==
  ASSUME Given, Options, DiskInv, TailInv, SyncManifest
  PROVE  TailInv'
<1>1. /\ edit # None /\ edit.step = "sync" /\ edit' # None
      /\ UNCHANGED <<current, logs, phase, numbers, bg_error, writing, acknowledged, doubtful>>
      /\ current \in DOMAIN manifests' /\ edit'.fresh = edit.fresh
      /\ edit.fresh => numbers.manifest \in DOMAIN manifests'
  BY SyncManifestIs
<1>2. /\ current # None /\ edit.fresh \in BOOLEAN
      /\ ~edit.fresh => numbers.manifest = current
  BY <1>1, EditIs
<1>3. numbers.manifest \in DOMAIN manifests'  BY <1>1, <1>2
<1>4. SameTails(manifests, manifests')
  <2> DEFINE n == numbers.manifest
  <2>1. manifests' = [manifests EXCEPT ![n] = Synced(manifests[n])]  BY DEF SyncManifest
  <2>2. DOMAIN manifests' = DOMAIN manifests  BY <2>1
  <2>3. manifests[n] \in FileOf(EditRecord)  BY <1>3, <2>2 DEF DiskInv, Types, DiskTypes, Files
  <2>4. Synced(manifests[n]).tail = manifests[n].tail  BY <2>3, SyncedIsFile
  <2> QED BY <2>1, <2>2, <2>4 DEF SameTails
<1>5. SameTails(logs, logs')  BY <1>1 DEF SameTails
<1>6. ReusedTails /\ ManifestTail /\ SavingTails /\ LogTail /\ DoubtInv  BY DEF TailInv
<1>7. ReusedTails'  BY <1>4, <1>5, <1>6, ReusedStay
<1>8. ManifestTail' /\ SavingTails'
  BY <1>1, <1>3, <1>4, <1>6 DEF ManifestTail, SavingTails, SameTails
<1>9. LogTail' /\ DoubtInv'  BY <1>1, <1>6 DEF LogTail, DoubtInv
<1> QED BY <1>7, <1>8, <1>9 DEF TailInv
LEMMA SetCurrentFileTails ==
  ASSUME Given, Options, DiskInv, TailInv, SetCurrentFile
  PROVE  TailInv'
<1>1. /\ edit # None /\ edit.step = "current" /\ edit.by = "open"
      /\ UNCHANGED <<manifests, logs, phase, numbers, bg_error, writing, acknowledged, doubtful>>
  BY SetCurrentFileIs
<1>2. phase = "save"  BY <1>1 DEF DiskInv, FilesInv, EditInv
<1>3. ReusedTails /\ SavingTails /\ DoubtInv  BY DEF TailInv
<1>4. ReusedTails' /\ ManifestTail' /\ LogTail' /\ DoubtInv'
  BY <1>1, <1>2, <1>3 DEF ReusedTails, ManifestTail, LogTail, DoubtInv
<1>5. SavingTails'  BY <1>1, <1>2, <1>3 DEF SavingTails
<1> QED BY <1>4, <1>5 DEF TailInv
LEMMA InstallVersionTails ==
  ASSUME Given, Options, DiskInv, TailInv, InstallVersion
  PROVE  TailInv'
<1>1. /\ edit # None /\ edit.step = "install" /\ phase' = "open"
      /\ numbers' = [numbers EXCEPT !.log = edit.record.log]
      /\ doubtful' = (IF edit.by = "open" THEN {} ELSE doubtful)
      /\ UNCHANGED <<current, manifests, logs, bg_error, writing, acknowledged>>
  BY DEF InstallVersion, disk
<1>2. /\ numbers \in Numbers /\ numbers.manifest = current /\ current # None
      /\ edit.by \in {"open", "flush", "compaction"}
  BY <1>1, EditIs
<1>3. numbers'.logfile = numbers.logfile  BY <1>1, <1>2 DEF Numbers
<1>4. phase = (IF edit.by = "open" THEN "save" ELSE "open") /\ PhaseInv /\ ReadsInv /\ LogfileInv
  BY <1>1 DEF DiskInv, FilesInv, EditInv
<1>5. SameTails(logs, logs') /\ SameTails(manifests, manifests')  BY <1>1 DEF SameTails
<1>6. CASE edit.by = "open"
  <2>1. writing = None /\ ~bg_error /\ phase = "save"  BY <1>4, <1>6 DEF PhaseInv
  <2>2. logs[numbers.logfile].tail = "sound" /\ manifests[current].tail = "sound"
    BY <1>1, <1>2, <2>1 DEF TailInv, SavingTails
  <2>3. ReusedTails'  BY <1>5, ReusedStay DEF TailInv
  <2>4. ManifestTail' /\ SavingTails' /\ LogTail'
    BY <1>1, <1>3, <2>2 DEF ManifestTail, SavingTails, LogTail
  <2>5. DoubtInv'  BY <1>1, <1>6, <2>1 DEF DoubtInv
  <2> QED BY <2>3, <2>4, <2>5 DEF TailInv
<1>7. CASE edit.by # "open"
  <2>1. phase = "open" /\ current \in DOMAIN manifests /\ numbers.logfile \in DOMAIN logs
    BY <1>2, <1>4, <1>7 DEF ReadsInv, LogfileInv
  <2> QED BY <1>1, <1>3, <1>5, <1>7, <2>1, TailsStay
<1> QED BY <1>6, <1>7
LEMMA LogAndApplyFailsTails ==
  ASSUME Given, Options, DiskInv, TailInv, LogAndApplyFails
  PROVE  TailInv'
<1>1. /\ edit # None /\ counts.errors < MaxErrors
      /\ edit.by = "open" => phase' = "closed" /\ writing' = None
      /\ edit.by # "open" => bg_error' = TRUE /\ edit' = None /\ UNCHANGED <<phase, numbers, writing>>
      /\ UNCHANGED <<current, logs, acknowledged, doubtful>>
  BY DEF LogAndApplyFails, Fail, ToClosed, history
<1>2. ~reuse_logs  BY <1>1, NoFailureReused
<1>3. ReusedTails'  BY <1>2 DEF ReusedTails
<1>4. CASE edit.by = "open"
  BY <1>1, <1>3, <1>4, TailsAtRest
<1>5. CASE edit.by # "open"
  <2>1. phase = "open"  BY <1>1, <1>5 DEF DiskInv, FilesInv, EditInv
  <2>2. ManifestTail' /\ SavingTails' /\ LogTail' /\ DoubtInv'
    BY <1>1, <1>5, <2>1 DEF TailInv, ManifestTail, SavingTails, LogTail, DoubtInv
  <2> QED BY <1>3, <2>2 DEF TailInv
<1> QED BY <1>4, <1>5

(* DeleteObsoleteFiles takes neither the log nor the MANIFEST. *)
LEMMA DeletingTails ==
  ASSUME Given, DiskInv, TailInv, Deleting
  PROVE  TailInv'
<1>1. /\ obsolete /\ UNCHANGED <<current, phase, numbers, bg_error, writing, acknowledged, doubtful>>
      /\ \/ logs' = logs
         \/ \E n \in ObsoleteLogs : logs' = Without(logs, n)
      /\ \/ manifests' = manifests
         \/ \E n \in ObsoleteManifests : manifests' = Without(manifests, n)
  BY DEF Deleting, DeleteFile, AllDeleted, MayDelete, disk, process, history
<1>2. /\ phase = "open" /\ current # None /\ numbers \in Numbers /\ numbers.manifest = current
  BY <1>1, DeletingIs
<1>3. current \in DOMAIN manifests /\ LogfileInv  BY <1>2 DEF DiskInv, ReadsInv, FilesInv
<1>4. numbers.logfile \in DOMAIN logs /\ numbers.log <= numbers.logfile
  BY <1>2, <1>3 DEF LogfileInv
<1>5. numbers.logfile \in DOMAIN logs' /\ SameTails(logs, logs')
  <2>1. numbers.log \in Nat /\ numbers.logfile \in Nat  BY <1>2 DEF Numbers
  <2>2. numbers.logfile \notin ObsoleteLogs  BY <1>4, <2>1 DEF ObsoleteLogs
  <2> QED BY <1>1, <1>4, <2>2 DEF SameTails, Without
<1>6. current \in DOMAIN manifests' /\ SameTails(manifests, manifests')
  <2>1. numbers.manifest \in Nat  BY <1>2 DEF Numbers
  <2>2. current \notin ObsoleteManifests  BY <1>2, <2>1 DEF ObsoleteManifests
  <2> QED BY <1>1, <1>3, <2>2 DEF SameTails, Without
<1> QED BY <1>1, <1>2, <1>5, <1>6, TailsStay

(* Writes. *)
LEMMA BeginWriteTails ==
  ASSUME Given, DiskInv, TailInv, NEW sync \in BOOLEAN, BeginWrite(sync)
  PROVE  TailInv'
<1> DEFINE e == [id |-> counts.writes + 1, seq |-> numbers.sequence + 1]
<1>1. /\ phase = "open" /\ writing = None
      /\ writing' = [entry |-> e, sync |-> sync, step |-> "log"]
      /\ doubtful' = doubtful \cup {e}
      /\ UNCHANGED <<current, manifests, logs, phase, numbers, edit, bg_error, acknowledged>>
  BY DEF BeginWrite, Ready, disk
<1>2. writing'.entry = e  BY <1>1
<1>3. e \notin doubtful /\ e \notin acknowledged
  <2>1. counts.writes \in Nat /\ acknowledged \subseteq Issued /\ doubtful \subseteq Issued
    BY DEF DiskInv, Types, HistoryTypes, Counts
  <2>2. \A d \in Issued : d.id <= counts.writes  BY <2>1 DEF Issued
  <2>3. e.id = counts.writes + 1  OBVIOUS
  <2> QED BY <2>1, <2>2, <2>3
<1> HIDE DEF e
<1>4. ReusedTails' /\ ManifestTail' /\ SavingTails'
  BY <1>1 DEF TailInv, ReusedTails, ManifestTail, SavingTails
<1>5. LogTail'  BY <1>1, <1>2, <1>3 DEF TailInv, LogTail
<1>6. DoubtInv'  BY <1>1, <1>2, <1>3 DEF TailInv, DoubtInv
<1> QED BY <1>4, <1>5, <1>6 DEF TailInv
LEMMA LoggingTails ==
  ASSUME Given, DiskInv, TailInv, AddRecord \/ SyncLog
  PROVE  TailInv'
<1>1. /\ writing # None /\ writing' # None /\ writing'.entry = writing.entry
      /\ UNCHANGED <<current, manifests, phase, numbers, bg_error, acknowledged, doubtful>>
  <2>1. /\ writing # None
        /\ \E step \in {"log", "sync", "insert"} : writing' = [writing EXCEPT !.step = step]
        /\ UNCHANGED <<current, manifests, phase, numbers, bg_error, acknowledged, doubtful>>
    BY DEF AddRecord, SyncLog, AfterRecord, history
  <2>2. writing \in Writer  BY <2>1, WriterIs
  <2>3. writing' \in Writer /\ writing'.entry = writing.entry  BY <2>1, <2>2 DEF Writer
  <2> QED BY <2>1, <2>3 DEF NoneAssumption
<1>2. phase = "open" /\ numbers.logfile \in DOMAIN logs /\ current # None
  BY <1>1, WriterIs, OpenIs
<1>3. current \in DOMAIN manifests /\ SameTails(manifests, manifests')
  BY <1>1, <1>2 DEF DiskInv, ReadsInv, SameTails
<1>4. /\ DOMAIN logs' = DOMAIN logs
      /\ \A n \in DOMAIN logs : (logs'[n].tail = "sound") = (logs[n].tail = "sound")
  <2>1. CASE AddRecord
    <3>1. PICK file \in Appends(logs[numbers.logfile], <<writing.entry>>) :
            logs' = [logs EXCEPT ![numbers.logfile] = file]
      BY <2>1 DEF AddRecord
    <3>2. LogTakes(file) /\ (file.tail = "sound") = (logs[numbers.logfile].tail = "sound")
      BY <1>1, LogTaken
    <3> QED BY <1>2, <3>1, <3>2
  <2>2. CASE SyncLog
    <3>1. logs' = [logs EXCEPT ![numbers.logfile] = Synced(logs[numbers.logfile])]
      BY <2>2 DEF SyncLog
    <3>2. logs[numbers.logfile] \in FileOf(Issued)  BY <1>2 DEF DiskInv, Types, DiskTypes, Files
    <3>3. Synced(logs[numbers.logfile]).tail = logs[numbers.logfile].tail  BY <3>2, SyncedIsFile
    <3> QED BY <3>1, <3>3
  <2> QED BY <2>1, <2>2
<1>5. ReusedTails' /\ ManifestTail' /\ SavingTails'
  BY <1>1, <1>2, <1>4 DEF TailInv, ReusedTails, ManifestTail, SavingTails
<1>6. LogTail' /\ DoubtInv'  BY <1>1, <1>2, <1>4 DEF TailInv, LogTail, DoubtInv
<1> QED BY <1>5, <1>6 DEF TailInv
LEMMA InsertIntoTails ==
  ASSUME Given, DiskInv, TailInv, InsertInto
  PROVE  TailInv'
<1>1. /\ writing # None /\ writing' = None
      /\ numbers' = [numbers EXCEPT !.sequence = writing.entry.seq]
      /\ IF logs[numbers.logfile].tail = "sound"
         THEN /\ acknowledged' = acknowledged \cup {writing.entry}
              /\ doubtful' = doubtful \ {writing.entry}
         ELSE UNCHANGED <<acknowledged, doubtful>>
      /\ UNCHANGED <<current, manifests, logs, phase, edit, bg_error>>
  BY DEF InsertInto, disk, history
<1>2. phase = "open" /\ numbers'.logfile = numbers.logfile  BY <1>1, WriterIs, SequenceTaken
<1>3. ReusedTails' /\ ManifestTail' /\ SavingTails'
  BY <1>1, <1>2 DEF TailInv, ReusedTails, ManifestTail, SavingTails
<1>4. LogTail' /\ DoubtInv'  BY <1>1, <1>2 DEF TailInv, LogTail, DoubtInv
<1> QED BY <1>3, <1>4 DEF TailInv
LEMMA WriteFailsTails ==
  ASSUME Given, Options, DiskInv, TailInv, WriteFails
  PROVE  TailInv'
<1>1. /\ writing # None /\ writing' = None /\ counts.errors < MaxErrors
      /\ bg_error => bg_error'
      /\ UNCHANGED <<current, manifests, phase, edit, acknowledged, doubtful>>
  BY DEF WriteFails, Fail, history
<1>2. phase = "open" /\ ~reuse_logs  BY <1>1, WriterIs, NoFailureReused
<1>3. ReusedTails' /\ ManifestTail' /\ SavingTails'
  BY <1>1, <1>2 DEF TailInv, ReusedTails, ManifestTail, SavingTails
<1>4. LogTail' /\ DoubtInv'  BY <1>1, <1>2 DEF TailInv, LogTail, DoubtInv
<1> QED BY <1>3, <1>4 DEF TailInv
LEMMA SwitchMemTableTails ==
  ASSUME Given, DiskInv, TailInv, SwitchMemTable
  PROVE  TailInv'
<1>1. /\ phase = "open"
      /\ logs' = With(logs, numbers.next, NewFile)
      /\ numbers' = [numbers EXCEPT !.logfile = numbers.next, !.next = @ + 1]
      /\ UNCHANGED <<current, manifests, phase, edit, bg_error, writing, acknowledged, doubtful>>
  BY DEF SwitchMemTable, Ready, history
<1>2. numbers \in Numbers  BY <1>1, OpenIs
<1>3. numbers'.logfile = numbers.next /\ NewFile.tail = "sound"
  BY <1>1, <1>2 DEF Numbers, NewFile
<1>4. /\ logs'[numbers'.logfile].tail = "sound"
      /\ \A n \in DOMAIN logs' : logs'[n].tail = "sound" \/ (n \in DOMAIN logs /\ logs'[n] = logs[n])
  BY <1>1, <1>3 DEF With
<1>5. ReusedTails' /\ ManifestTail' /\ SavingTails'
  BY <1>1, <1>4 DEF TailInv, ReusedTails, ManifestTail, SavingTails
<1>6. LogTail' /\ DoubtInv'  BY <1>1, <1>4 DEF TailInv, LogTail, DoubtInv
<1> QED BY <1>5, <1>6 DEF TailInv

(* The background thread and iterators. *)
LEMMA WorkingTails ==
  ASSUME Given, DiskInv, TailInv, Compacting \/ Reading
  PROVE  TailInv'
<1>1. PhaseInv  BY DEF DiskInv, FilesInv
<1>2. /\ phase = "open"
      /\ \/ numbers' = numbers
         \/ numbers' = [numbers EXCEPT !.next = @ + 1]
      /\ bg_error => bg_error'
      /\ UNCHANGED <<current, manifests, logs, phase, writing, acknowledged, doubtful>>
  <2>1. CASE StartFlush
    BY <2>1 DEF StartFlush, Ready, disk, history
  <2>2. CASE BuildTable
    BY <1>1, <2>2 DEF BuildTable, PhaseInv, history
  <2>3. CASE BuildTableFails
    BY <1>1, <2>3 DEF BuildTableFails, PhaseInv, disk, history
  <2>4. CASE \E inputs \in (SUBSET version) \ {{}} : OpenCompactionOutputFile(inputs)
    BY <2>4 DEF OpenCompactionOutputFile, Ready, history
  <2>5. CASE InstallCompactionResults
    BY <1>1, <2>5 DEF InstallCompactionResults, PhaseInv, history
  <2>6. CASE CleanupCompaction
    BY <1>1, <2>6 DEF CleanupCompaction, PhaseInv, disk, history
  <2>7. CASE Reading
    BY <2>7 DEF Reading, NewIterator, ReleaseIterator, Ready, disk, history
  <2> QED BY <2>1, <2>2, <2>3, <2>4, <2>5, <2>6, <2>7 DEF Compacting
<1>3. numbers \in Numbers /\ numbers.logfile \in DOMAIN logs /\ current # None  BY <1>2, OpenIs
<1>4. numbers'.logfile = numbers.logfile  BY <1>2, <1>3 DEF Numbers
<1>5. current \in DOMAIN manifests  BY <1>3 DEF DiskInv, ReadsInv
<1>6. SameTails(logs, logs') /\ SameTails(manifests, manifests')  BY <1>2 DEF SameTails
<1> QED BY <1>2, <1>3, <1>4, <1>5, <1>6, TailsStay

(* Crashes. *)
LEMMA CrashingTails ==
  ASSUME Given, Options, DiskInv, TailInv, Crashing
  PROVE  TailInv'
<1>1. /\ phase' = "closed" /\ writing' = None
      /\ acknowledged' \subseteq acknowledged /\ doubtful' \subseteq doubtful
  BY DEF Crashing, ProcessCrash, MachineCrash, Crash, ToClosed
<1>2. ReusedTails'
  <2>1. CASE ProcessCrash
    BY <2>1 DEF ProcessCrash, disk, TailInv, ReusedTails
  <2>2. CASE MachineCrash
    BY <2>2 DEF MachineCrash, Options, ReusedTails
  <2> QED BY <2>1, <2>2 DEF Crashing
<1> QED BY <1>1, <1>2, TailsAtRest

(* Every step keeps what is known of the tails. *)
LEMMA NextKeepsTails ==
  ASSUME Given, Options, DiskInv, TailInv, [Next]_vars
  PROVE  TailInv'
<1>1. CASE Opening
  BY <1>1, OpeningTails, NewLogTails DEF Opening
<1>2. CASE Applying
  BY <1>2, WriteManifestTails, SyncManifestTails, SetCurrentFileTails, InstallVersionTails,
     LogAndApplyFailsTails DEF Applying
<1>3. CASE Deleting
  BY <1>3, DeletingTails
<1>4. CASE Writing
  BY <1>4, BeginWriteTails, LoggingTails, InsertIntoTails, WriteFailsTails, SwitchMemTableTails
     DEF Writing
<1>5. CASE Compacting \/ Reading
  BY <1>5, WorkingTails
<1>6. CASE Crashing
  BY <1>6, CrashingTails
<1>7. CASE UNCHANGED vars
  BY <1>7 DEF vars, disk, process, history, TailInv, ReusedTails, ManifestTail, SavingTails, LogTail,
     DoubtInv
<1> QED BY <1>1, <1>2, <1>3, <1>4, <1>5, <1>6, <1>7 DEF Next

(* At first there are no files. *)
LEMMA TailsInit ==
  ASSUME Init
  PROVE  TailInv
  BY DEF Init, Closed, TailInv, ReusedTails, ManifestTail, SavingTails, LogTail, DoubtInv

(* Every step keeps the invariant. *)
LEMMA NextKeepsDiskInv ==
  ASSUME Given, Options, DiskInv, TailInv, [Next]_vars
  PROVE  DiskInv'
<1>1. CASE Opening
  BY <1>1, NewDBKeeps, SetCurrentOfNewDBKeeps, RecoverVersionKeeps, RecoverLogFileKeeps,
     SkipLogFileKeeps, NewLogKeeps, OpenFailsKeeps DEF Opening
<1>2. CASE Applying
  BY <1>2, WriteManifestKeeps, SyncManifestKeeps, SetCurrentFileKeeps, InstallVersionKeeps,
     LogAndApplyFailsKeeps DEF Applying
<1>3. CASE Deleting
  BY <1>3, DeleteFileKeeps, AllDeletedKeeps DEF Deleting
<1>4. CASE Writing
  BY <1>4, BeginWriteKeeps, AddRecordKeeps, SyncLogKeeps, InsertIntoKeeps, WriteFailsKeeps,
     SwitchMemTableKeeps DEF Writing
<1>5. CASE Compacting
  BY <1>5, StartFlushKeeps, BuildTableKeeps, BuildTableFailsKeeps, OpenCompactionOutputFileKeeps,
     InstallCompactionResultsKeeps, CleanupCompactionKeeps DEF Compacting
<1>6. CASE Reading
  BY <1>6, ReadingKeeps
<1>7. CASE Crashing
  BY <1>7, ProcessCrashKeeps, MachineCrashKeeps DEF Crashing
<1>8. CASE UNCHANGED vars
  <2>1. UNCHANGED <<current, manifests, logs, tables, phase, version, numbers, descriptor, mem,
                    imm, recovering, pending_outputs, flush, compaction, edit, obsolete, bg_error,
                    writing, pinned, history, counts>>
    BY <1>8 DEF vars, disk, process, history
  <2>2. Types'  BY <2>1 DEF DiskInv, Types, DiskTypes, ProcessTypes, HistoryTypes, Issued
  <2>3. ReadsInv'  BY <2>1 DEF DiskInv, ReadsInv, GoodRead, Reads, Latest
  <2>4. PhaseInv' /\ UnbornInv' /\ RunningInv' /\ LogsInv' /\ LogfileInv'
    BY <2>1 DEF DiskInv, FilesInv, PhaseInv, UnbornInv, RunningInv, LogsInv, LogfileInv,
       Running, Reads, Latest
  <2>5. EditInv' /\ RecordInv' /\ FlushInv' /\ CompactionInv' /\ PinnedInv'
    BY <2>1 DEF DiskInv, FilesInv, EditInv, RecordInv, FlushInv, CompactionInv, PinnedInv,
       Reads, Latest
  <2>6. VersionInv' /\ SettledInv' /\ FreshInv'
    BY <2>1 DEF DiskInv, FilesInv, VersionInv, SettledInv, FreshInv, Running, Committed, Reads,
       Latest, Snapshot, Edit
  <2> QED BY <2>2, <2>3, <2>4, <2>5, <2>6 DEF DiskInv, FilesInv
<1> QED BY <1>1, <1>2, <1>3, <1>4, <1>5, <1>6, <1>7, <1>8 DEF Next

(* What a recovery may read can be opened, what is needed is there, and the
   MANIFEST agrees with the version in memory: at every step of an open, of a
   flush or a compaction, after every crash and every failing file operation. *)
THEOREM DiskInvariant ==
  ASSUME Options
  PROVE  Spec => [](DiskInv /\ TailInv)
<1>1. Init => DiskInv /\ TailInv  BY StorageAssumption, NoneAssumption, DiskInit, TailsInit
<1>2. DiskInv /\ TailInv /\ [Next]_vars => DiskInv' /\ TailInv'
  BY StorageAssumption, NoneAssumption, NextKeepsDiskInv, NextKeepsTails
<1> QED BY <1>1, <1>2, PTL DEF Spec

(* The invariant says that the files are kept. *)
LEMMA DiskInvKeepsFiles ==
  ASSUME Given, DiskInv
  PROVE  FilesAreKept
<1>1. Types /\ ReadsInv /\ PhaseInv /\ UnbornInv /\ RunningInv /\ LogfileInv /\ RecordInv
      /\ CompactionInv /\ PinnedInv
  BY DEF DiskInv, FilesInv
<1>2. Issued \subseteq Entry
  <2>1. counts.writes \in Nat /\ counts.writes <= MaxWrites /\ MaxWrites \in Nat
    BY <1>1 DEF Types, HistoryTypes, Counts, StorageAssumption
  <2>2. 1..counts.writes \subseteq 1..MaxWrites  BY <2>1
  <2> QED BY <2>2 DEF Issued, Entry
<1>3. TypeOK
  <2>1. current \in {None} \cup DOMAIN manifests  BY <1>1 DEF ReadsInv
  <2>2. \A f \in {logs, manifests} : \A n \in DOMAIN f :
          f[n].synced \in 0..Len(f[n].records) /\ f[n].tail \in {"sound", "torn", "damaged"}
    <3>1. ASSUME NEW S, NEW f, Files(f, S), NEW n \in DOMAIN f
          PROVE  f[n].synced \in 0..Len(f[n].records) /\ f[n].tail \in {"sound", "torn", "damaged"}
      <4>1. /\ f[n].records \in Seq(S) /\ f[n].synced \in Nat /\ f[n].tail \in Tails
            /\ f[n].synced <= Len(f[n].records)
        BY <3>1 DEF Files, FileOf
      <4> QED BY <4>1 DEF Tails
    <3>2. Files(logs, Issued) /\ Files(manifests, EditRecord)  BY <1>1 DEF Types, DiskTypes
    <3> QED BY <3>1, <3>2
  <2>3. \A n \in DOMAIN tables : tables[n] \subseteq Entry  BY <1>1, <1>2 DEF Types, DiskTypes
  <2>4. phase \in {"closed", "created", "logs", "save", "open"} /\ numbers \in Numbers
    BY <1>1 DEF Types, ProcessTypes
  <2>5. mem \subseteq Entry /\ imm \in {None} \cup SUBSET Entry
    BY <1>1, <1>2 DEF Types, ProcessTypes
  <2>6. phase = "open" => numbers.logfile \in DOMAIN logs  BY <1>1 DEF LogfileInv
  <2>7. {descriptor, obsolete, bg_error} \subseteq BOOLEAN
    BY <1>1, Zenon DEF Types, ProcessTypes
  <2>8. durable \subseteq Entry /\ acknowledged \subseteq Entry /\ doubtful \subseteq Entry
    BY <1>1, <1>2 DEF Types, HistoryTypes
  <2> QED BY <2>1, <2>2, <2>3, <2>4, <2>5, <2>6, <2>7, <2>8 DEF TypeOK
<1>4. NeededFilesKept
  <2>1. version \subseteq DOMAIN tables
    <3>1. CASE Running
      BY <1>1, <3>1 DEF RunningInv
    <3>2. CASE ~Running
      <4>1. phase \in {"closed", "created"}  BY <1>1, <3>2 DEF Types, ProcessTypes, Running
      <4> QED BY <1>1, <4>1 DEF PhaseInv
    <3> QED BY <3>1, <3>2
  <2>2. compaction # None => compaction.inputs \cup {compaction.output} \subseteq DOMAIN tables
    BY <1>1, <2>1 DEF CompactionInv
  <2>3. edit # None => edit.record.add \subseteq DOMAIN tables  BY <1>1 DEF RecordInv
  <2> QED BY <1>1, <2>1, <2>2, <2>3 DEF NeededFilesKept, PinnedInv
<1>5. CanBeOpened
  <2> SUFFICES ASSUME current # None PROVE Readable
    BY DEF CanBeOpened
  <2>1. current \in DOMAIN manifests /\ GoodRead(Latest)  BY <1>1, ReadingsAre
  <2>2. Latest \in CompleteState /\ Latest.files \subseteq DOMAIN tables  BY <2>1 DEF GoodRead
  <2>3. None \notin {Latest.log, Latest.next, Latest.sequence}
    BY <2>2 DEF CompleteState, NoneAssumption
  <2> QED BY <2>1, <2>2, <2>3 DEF Readable, Latest
<1> QED BY <1>3, <1>4, <1>5 DEF FilesAreKept

(* No file is deleted that a reader, a compaction, a recovery or the version
   needs, and a database that was created can always be opened. *)
THEOREM FilesKept ==
  ASSUME Options
  PROVE  Spec => []FilesAreKept
<1>1. Spec => [](DiskInv /\ TailInv)  BY DiskInvariant
<1>2. DiskInv => FilesAreKept  BY StorageAssumption, NoneAssumption, DiskInvKeepsFiles
<1> QED BY <1>1, <1>2, PTL

-------------------------------------------------------------------------------
(* What a recovery from the present files finds. *)
LEMMA RecoverableIs ==
  ASSUME NoneAssumption, DiskInv
  PROVE  /\ current # None => Recoverable = Found(Latest)
         /\ current = None => Recoverable = {}
         /\ current # None /\ phase # "open" => Contents = Found(Latest)
<1>1. Types /\ ReadsInv  BY DEF DiskInv
<1>2. ASSUME current # None PROVE Recoverable = Found(Latest)
  <2>1. current \in DOMAIN manifests /\ GoodRead(Latest)  BY <1>1, <1>2, ReadingsAre
  <2>2. Latest \in CompleteState /\ Latest.files \subseteq DOMAIN tables  BY <2>1 DEF GoodRead
  <2>3. None \notin {Latest.log, Latest.next, Latest.sequence}
    BY <2>2 DEF CompleteState, NoneAssumption
  <2>4. Readable  BY <2>1, <2>2, <2>3 DEF Readable, Latest
  <2> QED BY <2>4 DEF Recoverable, Found, LogEntries, Written, Latest
<1>3. ASSUME current = None PROVE Recoverable = {}
  <2>1. None \notin DOMAIN manifests  BY <1>1 DEF Types, DiskTypes, Files, NoneAssumption
  <2>2. ~Readable  BY <1>3, <2>1 DEF Readable
  <2> QED BY <2>2 DEF Recoverable
<1> QED BY <1>2, <1>3 DEF Contents

(* Tables that stay, and logs that stay. *)
LEMMA TablesStay ==
  ASSUME NEW ns, \A n \in ns : tables'[n] = tables[n]
  PROVE  EntriesOf(ns)' = EntriesOf(ns)
  BY DEF EntriesOf
LEMMA LogsStay ==
  ASSUME logs' = logs
  PROVE  /\ \A l : Written(l)' = Written(l) /\ Lasting(l)' = Lasting(l)
         /\ \A n : LogEntries(n)' = LogEntries(n) /\ LastingEntries(n)' = LastingEntries(n)
         /\ \A n : LogsFrom(n)' = LogsFrom(n)
<1>1. \A l : Written(l)' = Written(l) /\ Lasting(l)' = Lasting(l)  BY DEF Written, Lasting
<1>2. \A n : LogsFrom(n)' = LogsFrom(n)  BY DEF LogsFrom
<1> QED BY <1>1, <1>2 DEF LogEntries, LastingEntries

(* What lasts was written. *)
LEMMA LastingIsWritten ==
  ASSUME Types
  PROVE  /\ \A l \in DOMAIN logs : Lasting(l) \subseteq Written(l)
         /\ \A n : LastingEntries(n) \subseteq LogEntries(n)
         /\ \A s : Kept(s) \subseteq Found(s)
         /\ ~PowerFails => \A l : Lasting(l) = Written(l)
         /\ ~PowerFails => \A s : Kept(s) = Found(s)
         /\ ~PowerFails => \A n : LastingEntries(n) = LogEntries(n)
<1>1. ASSUME NEW l \in DOMAIN logs PROVE Lasting(l) \subseteq Written(l)
  <2>1. /\ logs[l].records \in Seq(Issued) /\ logs[l].synced \in Nat
        /\ logs[l].synced <= Len(logs[l].records)
    BY DEF Types, DiskTypes, Files, FileOf
  <2> DEFINE r == logs[l].records
             n == logs[l].synced
  <2>2. n \in 0..Len(r) /\ r \in Seq(Issued)  BY <2>1
  <2> HIDE DEF r, n
  <2>3. /\ SubSeq(r, 1, n) \in Seq(Issued) /\ Len(SubSeq(r, 1, n)) = n
        /\ \A i \in 1..n : SubSeq(r, 1, n)[i] = r[i]
    BY <2>2, FirstElements
  <2>4. ToSet(SubSeq(r, 1, n)) \subseteq ToSet(r)
    <3> DEFINE t == SubSeq(r, 1, n)
    <3>1. DOMAIN t = 1..n /\ DOMAIN r = 1..Len(r) /\ 1..n \subseteq 1..Len(r)  BY <2>2, <2>3
    <3>2. \A i \in 1..n : t[i] = r[i]  BY <2>3
    <3> HIDE DEF t
    <3>3. ToSet(t) \subseteq ToSet(r)  BY <3>1, <3>2 DEF ToSet
    <3> QED BY <3>3 DEF t
  <2> QED BY <2>4 DEF Lasting, Written, r, n
<1>2. \A n : LastingEntries(n) \subseteq LogEntries(n)
  BY <1>1 DEF LastingEntries, LogEntries, LogsFrom
<1>3. \A s : Kept(s) \subseteq Found(s)  BY <1>2 DEF Kept, Found
<1>4. ~PowerFails => \A l : Lasting(l) = Written(l)  BY DEF Lasting, Written
<1>5. ~PowerFails => \A n : LastingEntries(n) = LogEntries(n)
  BY <1>4 DEF LastingEntries, LogEntries
<1>6. ~PowerFails => \A s : Kept(s) = Found(s)  BY <1>5 DEF Kept, Found
<1> QED BY <1>1, <1>2, <1>3, <1>4, <1>5, <1>6

(* The contents of an open database are found again when the process dies, but
   for what is in doubt. *)
LEMMA ContentsAreFound ==
  ASSUME NoneAssumption, DiskInv, StoreInv, current # None, counts.skips = 0
  PROVE  Contents \ doubtful \subseteq Found(Latest)
<1>1. CASE phase # "open"
  BY <1>1, RecoverableIs
<1>2. CASE phase = "open"
  <2>1. ServedInv /\ Types /\ ReadsInv /\ LogfileInv  BY DEF StoreInv, DiskInv, FilesInv
  <2>2. Latest \in Reads  BY <2>1, ReadingsAre
  <2>3. EntriesOf(version) \subseteq Found(Latest)  BY <1>2, <2>1, <2>2 DEF ServedInv, Found
  <2>4. numbers.logfile \in LogsFrom(Latest.log)  BY <1>2, <2>1, <2>2 DEF LogfileInv, LogsFrom
  <2>5. mem \ doubtful \subseteq Found(Latest)
    BY <1>2, <2>1, <2>4 DEF ServedInv, Found, LogEntries
  <2>6. imm # None => imm \ doubtful \subseteq Found(Latest)  BY <1>2, <2>1 DEF ServedInv
  <2> QED BY <1>2, <2>3, <2>5, <2>6 DEF Contents, Visible
<1> QED BY <1>1, <1>2

(* What is in tables and logs are writes that were begun. *)
LEMMA EntriesAreIssued ==
  ASSUME Types
  PROVE  /\ \A ns : ns \subseteq DOMAIN tables => EntriesOf(ns) \subseteq Issued
         /\ \A l \in DOMAIN logs : Written(l) \subseteq Issued
         /\ \A n : LogEntries(n) \subseteq Issued
         /\ \A e \in Issued : e.seq \in Nat /\ e.id \in Nat /\ e.id <= counts.writes
<1>1. \A ns : ns \subseteq DOMAIN tables => EntriesOf(ns) \subseteq Issued
  BY DEF EntriesOf, Types, DiskTypes
<1>2. \A l \in DOMAIN logs : logs[l].records \in Seq(Issued)
  BY DEF Types, DiskTypes, Files, FileOf
<1>3. \A l \in DOMAIN logs : Written(l) \subseteq Issued  BY <1>2 DEF Written, ToSet
<1>4. \A n : LogEntries(n) \subseteq Issued  BY <1>3 DEF LogEntries, LogsFrom
<1>5. \A e \in Issued : e.seq \in Nat /\ e.id \in Nat /\ e.id <= counts.writes
  BY DEF Issued, Types, HistoryTypes, Counts
<1> QED BY <1>1, <1>3, <1>4, <1>5

(* A larger bound. *)
LEMMA UpToMore ==
  ASSUME NEW n \in Nat, NEW m \in Nat, n <= m, NEW S, \A e \in S : e.seq \in Nat, UpTo(n, S)
  PROVE  UpTo(m, S)
  BY DEF UpTo

(* A new log is empty. *)
LEMMA LogAdded ==
  ASSUME NEW k, k \notin DOMAIN logs, logs' = With(logs, k, NewFile)
  PROVE  /\ \A l \in DOMAIN logs : Written(l)' = Written(l) /\ Lasting(l)' = Lasting(l)
         /\ Written(k)' = {} /\ Lasting(k)' = {}
         /\ \A n : LogsFrom(n)' \subseteq LogsFrom(n) \cup {k} /\ LogsFrom(n) \subseteq LogsFrom(n)'
         /\ \A n : LogEntries(n)' = LogEntries(n) /\ LastingEntries(n)' = LastingEntries(n)
<1>1. /\ DOMAIN logs' = DOMAIN logs \cup {k} /\ logs'[k] = NewFile
      /\ \A l \in DOMAIN logs : logs'[l] = logs[l]
  BY DEF With
<1>2. \A l \in DOMAIN logs : Written(l)' = Written(l) /\ Lasting(l)' = Lasting(l)
  BY <1>1 DEF Written, Lasting
<1>3. Written(k)' = {} /\ Lasting(k)' = {}
  <2>1. logs'[k].records = <<>> /\ logs'[k].synced = 0  BY <1>1 DEF NewFile
  <2>2. ToSet(<<>>) = {} /\ SubSeq(<<>>, 1, 0) = <<>>  BY DEF ToSet
  <2> QED BY <2>1, <2>2 DEF Written, Lasting
<1>4. \A n : LogsFrom(n)' \subseteq LogsFrom(n) \cup {k} /\ LogsFrom(n) \subseteq LogsFrom(n)'
  BY <1>1 DEF LogsFrom
<1>5. ASSUME NEW n PROVE LogEntries(n)' = LogEntries(n) /\ LastingEntries(n)' = LastingEntries(n)
  <2>1. \A l \in LogsFrom(n) : l \in DOMAIN logs  BY DEF LogsFrom
  <2>2. LogEntries(n)' = LogEntries(n)  BY <1>2, <1>3, <1>4, <2>1 DEF LogEntries
  <2>3. LastingEntries(n)' = LastingEntries(n)  BY <1>2, <1>3, <1>4, <2>1 DEF LastingEntries
  <2> QED BY <2>2, <2>3
<1> QED BY <1>2, <1>3, <1>4, <1>5

-------------------------------------------------------------------------------
(* Steps that leave what is stored as it is. *)

(* In an open database, with the same memtables and logs and no new reading. *)
LEMMA SameStore ==
  ASSUME NoneAssumption, DiskInv, ContentsInv, phase = "open", phase' = "open",
         current' = current, Reads' \subseteq Reads, Latest' = Latest,
         UNCHANGED <<version, mem, imm, durable, acknowledged, doubtful, writing>>,
         numbers'.log = numbers.log, numbers'.logfile = numbers.logfile,
         numbers'.sequence = numbers.sequence, counts'.skips = 0 => counts.skips = 0,
         SoundLog' => SoundLog,
         EntriesOf(version)' = EntriesOf(version),
         LogEntries(numbers.log)' = LogEntries(numbers.log),
         LastingEntries(numbers.log)' = LastingEntries(numbers.log),
         Written(numbers.logfile)' = Written(numbers.logfile),
         Lasting(numbers.logfile)' = Lasting(numbers.logfile),
         \A s \in Reads : /\ EntriesOf(s.files)' = EntriesOf(s.files)
                          /\ LogEntries(s.log)' = LogEntries(s.log)
                          /\ LastingEntries(s.log)' = LastingEntries(s.log),
         SourceInv', EditSequences'
  PROVE  ContentsInv' /\ StoreStep
<1>1. /\ SourceInv /\ ReadSequences /\ OpenSequences /\ WriterSequence /\ OrderInv /\ StoreInv
      /\ (Running => Latest.sequence <= numbers.sequence)
  BY DEF ContentsInv, AgesInv, SequenceInv
<1>2. current # None /\ Running  BY OpenIs
<1>3. Visible' = Visible /\ Contents' = Contents  BY DEF Visible, Contents
<1>4. \A s \in Reads : Found(s)' = Found(s) /\ Kept(s)' = Kept(s)  BY DEF Found, Kept
<1>5. Known' \subseteq Known
  <2>1. FoundByAny' \subseteq FoundByAny  BY <1>4 DEF FoundByAny
  <2>2. Logged' = Logged /\ UnderWay' = UnderWay  BY DEF Logged, UnderWay
  <2> QED BY <1>2, <1>3, <2>1, <2>2 DEF Known
<1>6. OrderInv'  BY <1>1, <1>5 DEF OrderInv
<1>7. ReadSequences' /\ RecoverySequences' /\ WriterSequence'
  BY <1>1 DEF ReadSequences, RecoverySequences, WriterSequence, UpTo
<1>8. OpenSequences'  BY <1>1, <1>3 DEF OpenSequences, UpTo
<1>9. Running' => Latest'.sequence <= numbers'.sequence  BY <1>1, <1>2
<1>10. AgesInv'  BY <1>6, <1>7, <1>8, <1>9 DEF AgesInv, SequenceInv
<1>11. StoreInv'
  <2> SUFFICES ASSUME counts'.skips = 0
               PROVE  PromiseInv' /\ RecoveredInv' /\ ServedInv' /\ WritingInv'
    BY DEF StoreInv
  <2>1. PromiseInv /\ ServedInv /\ WritingInv  BY <1>1, <1>2 DEF StoreInv
  <2>2. PromiseInv'  BY <1>3, <1>4, <2>1 DEF PromiseInv
  <2>3. RecoveredInv'  BY DEF RecoveredInv
  <2>4. Found(Latest)' = Found(Latest)
    <3>1. Latest \in Reads  BY <1>2, ReadingsAre DEF DiskInv
    <3> QED BY <1>4, <3>1
  <2>5. ServedInv'  BY <1>3, <2>1, <2>4 DEF ServedInv
  <2>6. WritingInv'  BY <2>1 DEF WritingInv
  <2> QED BY <2>2, <2>3, <2>5, <2>6
<1>12. StoreStep  BY <1>3 DEF StoreStep, Store!vars
<1> QED BY <1>10, <1>11, <1>12 DEF ContentsInv

(* What RecoverableIs says, also of the next state. *)
StoredIs ==
  DiskInv => /\ current # None => Recoverable = Found(Latest)
             /\ current = None => Recoverable = {}
             /\ current # None /\ phase # "open" => Contents = Found(Latest)
LEMMA StoredNext ==
  ASSUME NoneAssumption
  PROVE  StoredIs /\ StoredIs'
<1>1. StoredIs  BY RecoverableIs DEF StoredIs
<1>2. StoredIs'  BY <1>1, PTL
<1> QED BY <1>1, <1>2

(* Before the database is open: a reading for a reading, with as much that
   lasts and nothing that is new. *)
LEMMA OpeningStays ==
  ASSUME NoneAssumption, DiskInv, DiskInv', ContentsInv, phase # "open", phase' # "open",
         current # None, current' # None, UNCHANGED <<durable, acknowledged, doubtful>>,
         counts'.skips = 0 => counts.skips = 0,
         \A s \in Reads' : Found(s)' \subseteq FoundByAny,
         Visible' \subseteq FoundByAny,
         counts'.skips = 0 =>
           /\ Found(Latest)' = Found(Latest)
           /\ \A s \in Reads' : \E r \in Reads : Found(s)' \subseteq Found(r) /\ Kept(r) \subseteq Kept(s)'
           /\ RecoveredInv',
         SourceInv', ReadSequences', RecoverySequences', EditSequences',
         Running' => Latest'.sequence <= numbers'.sequence
  PROVE  ContentsInv' /\ StoreStep
<1>1. OrderInv /\ StoreInv  BY DEF ContentsInv, AgesInv
<1>2. writing' = None  BY DEF DiskInv, FilesInv, PhaseInv
<1>3. Known' \subseteq Known
  <2>1. FoundByAny' \subseteq FoundByAny  BY DEF FoundByAny
  <2>2. Logged' = {} /\ UnderWay' = {}  BY <1>2 DEF Logged, UnderWay
  <2>3. Known' = FoundByAny' \cup Visible'  BY <2>2 DEF Known
  <2>4. FoundByAny \subseteq Known  BY DEF Known
  <2> QED BY <2>1, <2>3, <2>4
<1>4. OrderInv'  BY <1>1, <1>3 DEF OrderInv
<1>5. OpenSequences' /\ WriterSequence'  BY <1>2 DEF OpenSequences, WriterSequence
<1>6. AgesInv'  BY <1>4, <1>5 DEF AgesInv, SequenceInv
<1>7. Contents = Found(Latest) /\ Contents' = Found(Latest)'  BY StoredNext DEF StoredIs
<1>8. StoreInv'
  <2> SUFFICES ASSUME counts'.skips = 0
               PROVE  PromiseInv' /\ RecoveredInv' /\ ServedInv' /\ WritingInv'
    BY DEF StoreInv
  <2>1. PromiseInv  BY <1>1 DEF StoreInv
  <2>2. Contents' = Contents  BY <1>7
  <2>3. PromiseInv'
    <3>1. ASSUME NEW s \in Reads' PROVE durable' \subseteq Kept(s)' /\ Found(s)' \subseteq Contents' \cup doubtful'
      <4>1. PICK r \in Reads : Found(s)' \subseteq Found(r) /\ Kept(r) \subseteq Kept(s)'
        OBVIOUS
      <4> QED BY <2>1, <2>2, <4>1 DEF PromiseInv
    <3> QED BY <2>1, <2>2, <3>1 DEF PromiseInv
  <2>4. ServedInv' /\ WritingInv'  BY <1>2 DEF ServedInv, WritingInv
  <2> QED BY <2>3, <2>4
<1>9. StoreStep
  <2>1. CASE counts'.skips = 0
    BY <1>7, <2>1 DEF StoreStep, Store!vars
  <2>2. CASE counts'.skips # 0
    BY <2>2 DEF StoreStep
  <2> QED BY <2>1, <2>2
<1> QED BY <1>6, <1>8, <1>9 DEF ContentsInv

(* The same when what a recovery may read stays and nothing is lost from it. *)
LEMMA ReadingsStay ==
  ASSUME NoneAssumption, DiskInv, DiskInv', ContentsInv, phase # "open", phase' # "open",
         current # None, current' = current, UNCHANGED <<durable, acknowledged, doubtful>>,
         counts'.skips = 0 => counts.skips = 0,
         Reads' \subseteq Reads, Latest' = Latest,
         \A s \in Reads : /\ EntriesOf(s.files)' = EntriesOf(s.files)
                          /\ LogEntries(s.log)' = LogEntries(s.log)
                          /\ LastingEntries(s.log)' = LastingEntries(s.log),
         Visible' \subseteq FoundByAny, counts'.skips = 0 => RecoveredInv',
         SourceInv', RecoverySequences', EditSequences',
         Running' => Latest.sequence <= numbers'.sequence
  PROVE  ContentsInv' /\ StoreStep
<1>1. \A s \in Reads : Found(s)' = Found(s) /\ Kept(s)' = Kept(s)  BY DEF Found, Kept
<1>2. Latest \in Reads  BY ReadingsAre DEF DiskInv
<1>3. Found(Latest)' = Found(Latest)  BY <1>1, <1>2
<1>4. ReadSequences'  BY DEF ContentsInv, AgesInv, SequenceInv, ReadSequences, UpTo
<1>5. \A s \in Reads' : Found(s)' \subseteq FoundByAny  BY <1>1 DEF FoundByAny
<1>6. \A s \in Reads' : \E r \in Reads : Found(s)' \subseteq Found(r) /\ Kept(r) \subseteq Kept(s)'
  BY <1>1
<1> QED BY <1>3, <1>4, <1>5, <1>6, OpeningStays

(* Before the first MANIFEST is there nothing is stored. *)
LEMMA NothingStored ==
  ASSUME NoneAssumption, DiskInv, current = None
  PROVE  ContentsInv /\ Contents = {} /\ durable = {} /\ doubtful = {} /\ acknowledged = {}
<1>1. PhaseInv /\ UnbornInv  BY DEF DiskInv, FilesInv
<1>2. /\ phase \in {"closed", "created"} /\ durable = {} /\ acknowledged = {} /\ doubtful = {}
      /\ edit = None /\ writing = None
  BY <1>1 DEF UnbornInv, PhaseInv
<1>3. Contents = {}  BY <1>2, RecoverableIs DEF Contents
<1>4. SourceInv  BY <1>2 DEF SourceInv
<1>5. OrderInv  BY DEF OrderInv, Known
<1>6. SequenceInv
  BY <1>2 DEF SequenceInv, ReadSequences, RecoverySequences, EditSequences, OpenSequences,
              WriterSequence, Running
<1>7. StoreInv  BY DEF StoreInv
<1> QED BY <1>2, <1>3, <1>4, <1>5, <1>6, <1>7 DEF ContentsInv, AgesInv

(* Such a step is none of the store. *)
NothingYet == DiskInv /\ current = None => ContentsInv /\ Contents = {} /\ durable = {} /\ doubtful = {}
LEMMA NothingHappens ==
  ASSUME NoneAssumption
  PROVE  DiskInv /\ DiskInv' /\ current = None /\ current' = None => ContentsInv' /\ StoreStep
<1>1. NothingYet  BY NothingStored DEF NothingYet
<1>2. NothingYet'  BY <1>1, PTL
<1>3. SUFFICES ASSUME DiskInv, DiskInv', current = None, current' = None
               PROVE  ContentsInv' /\ StoreStep
  OBVIOUS
<1>4. Contents = {} /\ durable = {} /\ doubtful = {}  BY <1>1, <1>3 DEF NothingYet
<1>5. ContentsInv' /\ Contents' = {} /\ durable' = {} /\ doubtful' = {}
  BY <1>2, <1>3 DEF NothingYet
<1> QED BY <1>4, <1>5 DEF StoreStep, Store!vars

-------------------------------------------------------------------------------
(* DB::Open leaves what is stored as it is. *)

(* NewDB. *)
LEMMA NewDBStores ==
  ASSUME Given, DiskInv, ContentsInv, NewDB
  PROVE  ContentsInv' /\ StoreStep
<1>1. current = None /\ current' = None  BY DEF NewDB
<1>2. DiskInv'  BY NewDBKeeps
<1> QED BY <1>1, <1>2, NothingHappens

(* SetCurrentFile of NewDB: the database is empty. *)
LEMMA SetCurrentOfNewDBStores ==
  ASSUME Given, DiskInv, ContentsInv, SetCurrentOfNewDB
  PROVE  ContentsInv' /\ StoreStep
<1>1. /\ current = None /\ current' = 1 /\ phase' = "closed" /\ edit' = None /\ writing' = None
      /\ version' = {} /\ mem' = {} /\ imm' = None
      /\ Latest' = [files |-> {}, log |-> 0, next |-> 2, sequence |-> 0] /\ Reads' = {Latest'}
      /\ UNCHANGED <<logs, tables, history>>
  BY SetCurrentOfNewDBIs
<1>2. DOMAIN logs = {} /\ durable = {} /\ acknowledged = {} /\ doubtful = {}
  BY <1>1 DEF DiskInv, FilesInv, UnbornInv
<1>3. Contents = {}  BY <1>1, NothingStored
<1>4. \A n : LogsFrom(n)' = {}  BY <1>1, <1>2 DEF LogsFrom
<1>5. \A n : LogEntries(n)' = {} /\ LastingEntries(n)' = {}
  BY <1>4 DEF LogEntries, LastingEntries
<1>6. EntriesOf({})' = {}  BY DEF EntriesOf
<1>7. \A s \in Reads' : Found(s)' = {} /\ Kept(s)' = {} /\ s.files = {} /\ s = Latest'
  <2>1. ASSUME NEW s \in Reads' PROVE Found(s)' = {} /\ Kept(s)' = {} /\ s.files = {} /\ s = Latest'
    <3>1. s = Latest'  BY <1>1
    <3>2. s.files = {}  BY <1>1, <3>1
    <3>3. EntriesOf(s.files)' = {}  BY <3>2 DEF EntriesOf
    <3>4. LogEntries(s.log)' = {} /\ LastingEntries(s.log)' = {}  BY <1>5
    <3> QED BY <3>1, <3>2, <3>3, <3>4 DEF Found, Kept
  <2> QED BY <2>1
<1>8. FoundByAny' = {}  BY <1>7 DEF FoundByAny
<1>9. Visible' = {}  BY <1>1, <1>6 DEF Visible
<1>10. Logged' = {} /\ UnderWay' = {}  BY <1>1 DEF Logged, UnderWay
<1>11. OrderInv'  BY <1>8, <1>9, <1>10 DEF OrderInv, Known
<1>12. SequenceInv'
  <2>1. ReadSequences'  BY <1>1, <1>6, <1>7 DEF ReadSequences, UpTo
  <2> QED BY <1>1, <2>1 DEF SequenceInv, RecoverySequences, EditSequences, OpenSequences,
              WriterSequence, Running
<1>13. SourceInv'  BY <1>1 DEF SourceInv
<1>14. 1 # None  BY DEF NoneAssumption
<1>15. DiskInv'  BY SetCurrentOfNewDBKeeps
<1>16. Contents' = Found(Latest)'  BY <1>1, <1>14, <1>15, StoredNext DEF StoredIs
<1>17. Contents' = {}
  <2>1. Latest' \in Reads'  BY <1>1
  <2> QED BY <1>7, <1>16, <2>1
<1>18. StoreInv'
  <2>1. PromiseInv'  BY <1>1, <1>2, <1>7, <1>17 DEF PromiseInv
  <2> QED BY <1>1, <2>1 DEF StoreInv, RecoveredInv, ServedInv, WritingInv
<1>19. StoreStep  BY <1>1, <1>3, <1>17 DEF StoreStep, Store!vars
<1> QED BY <1>11, <1>12, <1>13, <1>18, <1>19 DEF ContentsInv, AgesInv

(* Recover up to the logs: the version is what the MANIFEST says. *)
LEMMA RecoverVersionStores ==
  ASSUME Given, Options, DiskInv, ContentsInv, RecoverVersion
  PROVE  ContentsInv' /\ StoreStep
<1>1. /\ phase = "closed" /\ current # None /\ phase' = "logs" /\ version' = Latest.files
      /\ numbers'.log = Latest.log /\ numbers'.sequence = Latest.sequence
      /\ recovering'.logs = LogsFrom(Latest.log) /\ recovering'.add = {}
      /\ recovering'.max_sequence = 0
      /\ UNCHANGED <<current, manifests, logs, tables, mem, imm, edit, writing, history, counts>>
  BY DEF RecoverVersion, Latest, disk, history
<1>2. mem = {} /\ imm = None /\ edit = None  BY <1>1 DEF DiskInv, FilesInv, PhaseInv
<1>3. Reads' = Reads /\ Latest' = Latest  BY <1>1 DEF Reads, Latest
<1>4. \A s \in Reads : /\ EntriesOf(s.files)' = EntriesOf(s.files)
                       /\ LogEntries(s.log)' = LogEntries(s.log)
                       /\ LastingEntries(s.log)' = LastingEntries(s.log)
  BY <1>1, TablesStay, LogsStay
<1>5. Latest \in Reads /\ Latest.sequence \in Nat
  BY <1>1, ReadingsAre DEF DiskInv, GoodRead, CompleteState
<1>6. Visible' \subseteq FoundByAny
  <2>1. EntriesOf(version)' = EntriesOf(Latest.files)  BY <1>1 DEF EntriesOf
  <2>2. Visible' = EntriesOf(Latest.files)  BY <1>1, <1>2, <2>1 DEF Visible
  <2> QED BY <1>5, <2>2 DEF FoundByAny, Found
<1>7. EntriesOf({})' = {}  BY DEF EntriesOf
<1>8. LogsFrom(numbers.log)' \ recovering'.logs = {}  BY <1>1 DEF LogsFrom
<1>9. RecoveredInv' /\ SourceInv' /\ RecoverySequences' /\ EditSequences'
  <2>1. RecoveredInv'  BY <1>1, <1>8 DEF RecoveredInv
  <2>2. SourceInv'  BY <1>1, <1>7 DEF SourceInv
  <2>3. RecoverySequences'  BY <1>1, <1>2, <1>7, <1>8 DEF RecoverySequences, UpTo
  <2> QED BY <1>1, <1>2, <2>1, <2>2, <2>3 DEF EditSequences
<1>10. DiskInv'  BY RecoverVersionKeeps
<1>11. Latest.sequence <= numbers'.sequence  BY <1>1, <1>5
<1> QED BY <1>1, <1>3, <1>4, <1>6, <1>9, <1>10, <1>11, ReadingsStay

(* In the middle of a recovery the version is that of the MANIFEST. *)
LEMMA RecoveringIs ==
  ASSUME NoneAssumption, DiskInv, phase = "logs"
  PROVE  /\ current # None /\ edit = None /\ imm = None /\ writing = None
         /\ Latest \in Reads /\ Latest.files = version /\ Latest.log = numbers.log
         /\ \A s \in Reads : s.files \subseteq DOMAIN tables /\ \A n \in s.files : n < numbers.next
         /\ numbers.sequence \in Nat /\ Latest.sequence \in Nat
         /\ recovering \in Recovery /\ recovering.max_sequence \in Nat
<1>1. Types /\ ReadsInv /\ PhaseInv /\ UnbornInv /\ RunningInv /\ VersionInv
  BY DEF DiskInv, FilesInv
<1>2. /\ current # None /\ edit = None /\ imm = None /\ writing = None /\ ~bg_error
      /\ recovering # None
  BY <1>1 DEF PhaseInv, UnbornInv
<1>3. Latest \in Reads /\ GoodRead(Latest)  BY <1>1, <1>2, ReadingsAre
<1>4. Latest.files = version /\ Latest.log = numbers.log
  BY <1>1, <1>2 DEF VersionInv, Running, Committed
<1>5. ASSUME NEW s \in Reads PROVE s.files \subseteq DOMAIN tables /\ \A n \in s.files : n < numbers.next
  <2>1. GoodRead(s) /\ Latest.next <= numbers.next /\ numbers.next \in Nat
    BY <1>1, <1>2 DEF ReadsInv, RunningInv, Running, Types, ProcessTypes, Numbers
  <2>2. s.files \in SUBSET Nat /\ s.next \in Nat /\ Latest.next \in Nat /\ s.next <= Latest.next
    BY <1>3, <2>1 DEF GoodRead, CompleteState
  <2> QED BY <2>1, <2>2 DEF GoodRead
<1>6. numbers.sequence \in Nat /\ Latest.sequence \in Nat
  BY <1>1, <1>3 DEF GoodRead, CompleteState, Types, ProcessTypes, Numbers
<1>7. recovering \in Recovery /\ recovering.max_sequence \in Nat
  BY <1>1, <1>2 DEF Types, ProcessTypes, Recovery
<1> QED BY <1>2, <1>3, <1>4, <1>5, <1>6, <1>7

(* RecoverLogFile: what is in the log is in its tables, or stays in the log. *)
LEMMA RecoverLogFileStores ==
  ASSUME Given, Options, DiskInv, ContentsInv, RecoverLogFile
  PROVE  ContentsInv' /\ StoreStep
<1>1. /\ phase = "logs" /\ numbers \in Numbers /\ numbers' \in Numbers
      /\ numbers'.log = numbers.log /\ numbers'.sequence = numbers.sequence
      /\ \A n \in DOMAIN tables : n < numbers.next => tables'[n] = tables[n]
      /\ UNCHANGED <<current, manifests, logs, phase, version, imm, edit, writing, history, counts>>
  BY RecoverLogFileIs
<1>2. PICK log \in recovering.logs, reused \in BOOLEAN, made \in SUBSET Nat :
        Recovers(log, reused, made)
  BY RecoverLogFileIs
<1>3. /\ mem' = (IF reused THEN Written(log) ELSE {})
      /\ recovering'.logs = recovering.logs \ {log} /\ recovering'.add = recovering.add \cup made
      /\ recovering'.reused = reused /\ recovering.max_sequence <= recovering'.max_sequence
      /\ \A e \in Written(log) : e.seq <= recovering'.max_sequence
      /\ reused => numbers'.logfile = log
      /\ \A n \in made : tables'[n] \subseteq Written(log)
      /\ reused \/ Written(log) \subseteq UNION {tables'[n] : n \in made}
  BY <1>2 DEF Recovers, Written
<1>4. /\ current # None /\ edit = None /\ imm = None /\ writing = None
      /\ Latest \in Reads /\ Latest.files = version /\ Latest.log = numbers.log
      /\ \A s \in Reads : s.files \subseteq DOMAIN tables /\ \A n \in s.files : n < numbers.next
      /\ numbers.sequence \in Nat /\ Latest.sequence \in Nat /\ recovering.max_sequence \in Nat
  BY <1>1, RecoveringIs
<1>5. /\ log \in DOMAIN logs /\ numbers.log <= log /\ numbers.log \in Nat
      /\ recovering.add \subseteq DOMAIN tables /\ \A n \in recovering.add : n < numbers.next
      /\ recovering.reused => recovering.logs = {}
  <2>1. LogsInv  BY DEF DiskInv, FilesInv
  <2> QED BY <1>1, <1>2, <2>1 DEF LogsInv, Numbers
<1>6. \A n : LogsFrom(n)' = LogsFrom(n) /\ LogEntries(n)' = LogEntries(n) /\ LastingEntries(n)' = LastingEntries(n)
  BY <1>1, LogsStay
<1>7. \A l : Written(l)' = Written(l)  BY <1>1, LogsStay
<1>8. Reads' = Reads /\ Latest' = Latest  BY <1>1 DEF Reads, Latest
<1>9. \A s \in Reads : EntriesOf(s.files)' = EntriesOf(s.files)  BY <1>1, <1>4, TablesStay
<1>10. Written(log) \subseteq LogEntries(numbers.log)  BY <1>5 DEF LogEntries, LogsFrom
<1>11. Found(Latest) \subseteq FoundByAny  BY <1>4 DEF FoundByAny
<1>12. Visible' \subseteq FoundByAny
  <2>1. EntriesOf(version)' = EntriesOf(Latest.files)
    <3>1. EntriesOf(Latest.files)' = EntriesOf(Latest.files)  BY <1>4, <1>8, <1>9
    <3>2. Latest'.files = version'  BY <1>1, <1>4, <1>8
    <3> QED BY <3>1, <3>2 DEF EntriesOf
  <2>2. Visible' = mem' \cup EntriesOf(Latest.files)  BY <1>1, <1>4, <2>1 DEF Visible
  <2> QED BY <1>3, <1>4, <1>10, <1>11, <2>2 DEF Found
<1>13. /\ EntriesOf(recovering.add)' \subseteq EntriesOf(recovering.add) \cup Written(log)
       /\ EntriesOf(recovering.add) \subseteq EntriesOf(recovering.add)'
       /\ reused \/ Written(log) \subseteq EntriesOf(recovering.add)'
  <2>1. EntriesOf(recovering.add)' = UNION {tables'[n] : n \in recovering.add \cup made}
    BY <1>3 DEF EntriesOf
  <2>2. \A n \in recovering.add : tables'[n] = tables[n]  BY <1>1, <1>5
  <2>3. EntriesOf(recovering.add) = UNION {tables'[n] : n \in recovering.add}
    BY <2>2 DEF EntriesOf
  <2> DEFINE A == UNION {tables'[n] : n \in recovering.add}
             M == UNION {tables'[n] : n \in made}
  <2>4. UNION {tables'[n] : n \in recovering.add \cup made} = A \cup M  OBVIOUS
  <2>5. M \subseteq Written(log) /\ (reused \/ Written(log) \subseteq M)  BY <1>3
  <2>6. EntriesOf(recovering.add)' = A \cup M /\ EntriesOf(recovering.add) = A
    BY <2>1, <2>3, <2>4
  <2> HIDE DEF A, M
  <2> QED BY <2>5, <2>6
<1>14. SourceInv'
  <2>1. EntriesOf(recovering.add) \subseteq LogEntries(numbers.log)
    BY <1>1 DEF ContentsInv, SourceInv
  <2>2. EntriesOf(recovering.add)' \subseteq LogEntries(numbers.log)'
    BY <1>1, <1>6, <1>10, <1>13, <2>1
  <2> QED BY <1>1, <1>4, <2>2 DEF SourceInv
<1>15. RecoverySequences'
  <2>1. /\ UpTo(recovering.max_sequence, EntriesOf(recovering.add))
        /\ reuse_logs => \A l \in LogsFrom(numbers.log) \ recovering.logs :
                           UpTo(recovering.max_sequence, Written(l))
    BY <1>1 DEF ContentsInv, AgesInv, SequenceInv, RecoverySequences, UpTo
  <2>2. /\ Issued' = Issued /\ recovering' \in Recovery /\ EntriesOf(recovering.add) \subseteq Issued
        /\ \A l \in DOMAIN logs : Written(l) \subseteq Issued
    <3>1. Issued' = Issued /\ recovering' \in Recovery  BY RecoverLogFileIs
    <3>2. EntriesOf(recovering.add) \subseteq Issued
      BY <1>5 DEF EntriesOf, DiskInv, Types, DiskTypes
    <3>3. \A l \in DOMAIN logs : logs[l].records \in Seq(Issued)
      BY DEF DiskInv, Types, DiskTypes, Files, FileOf
    <3>4. \A l \in DOMAIN logs : Written(l) \subseteq Issued  BY <3>3 DEF Written, ToSet
    <3> QED BY <3>1, <3>2, <3>4
  <2>3. recovering'.max_sequence \in Nat /\ \A e \in Issued : e.seq \in Nat
    BY <2>2 DEF Recovery, Issued
  <2>4. UpTo(recovering'.max_sequence, EntriesOf(recovering.add))
    BY <1>3, <1>4, <2>1, <2>2, <2>3 DEF UpTo
  <2>5. UpTo(recovering'.max_sequence, Written(log))  BY <1>3 DEF UpTo
  <2>6. UpTo(recovering'.max_sequence, EntriesOf(recovering.add)' \cup mem')
    BY <1>3, <1>13, <2>4, <2>5 DEF UpTo
  <2>7. ASSUME reuse_logs, NEW l \in LogsFrom(numbers.log) \ recovering'.logs
        PROVE  UpTo(recovering'.max_sequence, Written(l))
    <3>1. CASE l = log
      BY <2>5, <3>1
    <3>2. CASE l # log
      <4>1. l \in LogsFrom(numbers.log) \ recovering.logs /\ l \in DOMAIN logs
        BY <1>3, <2>7, <3>2 DEF LogsFrom
      <4> QED BY <1>3, <1>4, <2>1, <2>2, <2>3, <2>7, <4>1 DEF UpTo
    <3> QED BY <3>1, <3>2
  <2>8. \A l : UpTo(recovering.max_sequence, Written(l))' = UpTo(recovering'.max_sequence, Written(l))
    BY <1>7 DEF UpTo
  <2>9. LogsFrom(numbers.log)' = LogsFrom(numbers.log)  BY <1>1, <1>6
  <2>10. reuse_logs => \A l \in LogsFrom(numbers.log)' \ recovering'.logs :
                         UpTo(recovering.max_sequence, Written(l))'
    BY <2>7, <2>8, <2>9
  <2>11. UpTo(recovering.max_sequence, EntriesOf(recovering.add) \cup mem)'  BY <2>6 DEF UpTo
  <2> QED BY <1>1, <2>10, <2>11 DEF RecoverySequences
<1>16. counts'.skips = 0 => RecoveredInv'
  <2> SUFFICES ASSUME counts.skips = 0 PROVE RecoveredInv'
    BY <1>1
  <2>1. \A l \in LogsFrom(numbers.log) \ recovering.logs : Written(l) \subseteq EntriesOf(recovering.add)
    <3>1. RecoveredInv  BY <1>4 DEF ContentsInv, StoreInv
    <3>2. ~recovering.reused  BY <1>2, <1>5
    <3> QED BY <1>1, <3>1, <3>2 DEF RecoveredInv
  <2>2. ASSUME NEW l \in LogsFrom(numbers.log) \ recovering'.logs
        PROVE  (reused /\ l = log) \/ Written(l) \subseteq EntriesOf(recovering.add)'
    BY <1>3, <1>13, <2>1
  <2>3. LogsFrom(numbers.log)' = LogsFrom(numbers.log)  BY <1>1, <1>6
  <2>4. \A l \in LogsFrom(numbers.log)' \ recovering'.logs :
          (recovering'.reused /\ l = numbers'.logfile) \/ Written(l)' \subseteq EntriesOf(recovering.add)'
    BY <1>3, <1>7, <2>2, <2>3
  <2> QED BY <1>1, <2>4 DEF RecoveredInv
<1>17. EditSequences'  BY <1>1, <1>4 DEF EditSequences
<1>18. DiskInv'  BY RecoverLogFileKeeps
<1>19. Latest.sequence <= numbers'.sequence
  BY <1>1 DEF ContentsInv, AgesInv, SequenceInv, Running
<1> QED BY <1>1, <1>4, <1>6, <1>8, <1>9, <1>12, <1>14, <1>15, <1>16, <1>17, <1>18, <1>19, ReadingsStay

(* A log is passed over: from here on nothing is promised. *)
LEMMA SkipLogFileStores ==
  ASSUME Given, Options, DiskInv, ContentsInv, SkipLogFile
  PROVE  ContentsInv' /\ StoreStep
<1>1. /\ phase = "logs" /\ ~paranoid_checks /\ counts.errors < MaxErrors
      /\ counts' = [counts EXCEPT !.errors = @ + 1, !.skips = @ + 1]
      /\ numbers' = [numbers EXCEPT !.next = MarkedUsed(@, Min(recovering.logs))]
      /\ recovering' = [recovering EXCEPT !.logs = @ \ {Min(recovering.logs)}, !.reused = FALSE]
      /\ UNCHANGED <<current, manifests, logs, tables, phase, version, mem, imm, edit, writing,
                     history>>
  BY DEF SkipLogFile, disk, history
<1>2. counts \in Counts /\ numbers \in Numbers
  BY DEF DiskInv, Types, HistoryTypes, ProcessTypes
<1>3. /\ current # None /\ edit = None /\ imm = None /\ Latest \in Reads /\ Latest.files = version
      /\ Latest.log = numbers.log /\ recovering \in Recovery
  BY <1>1, RecoveringIs
<1>4. counts'.skips # 0
  <2> DEFINE errors == counts.errors + 1
             skips == counts.skips + 1
  <2>1. skips # 0  BY <1>2 DEF Counts
  <2>2. counts' = [counts EXCEPT !.errors = errors, !.skips = skips]  BY <1>1
  <2> HIDE DEF errors, skips
  <2> QED BY <1>2, <2>1, <2>2 DEF Counts
<1>5. ~reuse_logs  BY <1>1, <1>2 DEF Options, Counts, StorageAssumption
<1>6. numbers'.log = numbers.log /\ numbers'.sequence = numbers.sequence
  BY <1>1, <1>2 DEF Numbers
<1>7. recovering'.add = recovering.add /\ recovering'.max_sequence = recovering.max_sequence
  <2> DEFINE rest == recovering.logs \ {Min(recovering.logs)}
  <2>1. recovering' = [recovering EXCEPT !.logs = rest, !.reused = FALSE]  BY <1>1
  <2> HIDE DEF rest
  <2> QED BY <1>3, <2>1 DEF Recovery
<1>8. Reads' = Reads /\ Latest' = Latest  BY <1>1 DEF Reads, Latest
<1>9. \A s \in Reads : /\ EntriesOf(s.files)' = EntriesOf(s.files)
                       /\ LogEntries(s.log)' = LogEntries(s.log)
                       /\ LastingEntries(s.log)' = LastingEntries(s.log)
  BY <1>1, TablesStay, LogsStay
<1>10. EntriesOf(recovering.add)' = EntriesOf(recovering.add) /\ LogEntries(numbers.log)' = LogEntries(numbers.log)
  <2>1. EntriesOf(recovering.add)' = EntriesOf(recovering.add)  BY <1>1, <1>7 DEF EntriesOf
  <2> QED BY <1>1, <1>6, <2>1, LogsStay
<1>11. SourceInv' /\ RecoverySequences' /\ EditSequences'
  <2>1. SourceInv /\ RecoverySequences  BY DEF ContentsInv, AgesInv, SequenceInv
  <2>2. SourceInv'  BY <1>1, <1>3, <1>10, <2>1 DEF SourceInv
  <2>3. RecoverySequences'  BY <1>1, <1>5, <1>7, <1>10, <2>1 DEF RecoverySequences, UpTo
  <2> QED BY <1>1, <1>3, <2>2, <2>3 DEF EditSequences
<1>12. Visible' \subseteq FoundByAny
  <2>1. Visible' = mem \cup EntriesOf(Latest.files)  BY <1>1, <1>3 DEF Visible, EntriesOf
  <2>2. mem = {}
    <3>1. LogsInv /\ recovering.logs # {}  BY DEF DiskInv, FilesInv, SkipLogFile
    <3> QED BY <1>1, <3>1 DEF LogsInv
  <2> QED BY <1>3, <2>1, <2>2 DEF FoundByAny, Found
<1>13. DiskInv'  BY SkipLogFileKeeps
<1>14. Latest.sequence <= numbers'.sequence
  BY <1>1, <1>6 DEF ContentsInv, AgesInv, SequenceInv, Running
<1> QED BY <1>1, <1>3, <1>4, <1>8, <1>9, <1>11, <1>12, <1>13, <1>14, ReadingsStay

(* NewLog: the sequence number is beyond all that was recovered. *)
LEMMA NewLogSequences ==
  ASSUME Given, Options, DiskInv, ContentsInv, NewLog
  PROVE  /\ UpTo(numbers'.sequence, EntriesOf(version \cup recovering.add) \cup mem)
         /\ Latest.sequence <= numbers'.sequence /\ numbers'.sequence \in Nat
         /\ reuse_logs => UpTo(numbers'.sequence, LogEntries(numbers.log))
<1>1. /\ phase = "logs" /\ recovering.logs = {} /\ numbers' \in Numbers /\ numbers \in Numbers
      /\ numbers.sequence <= numbers'.sequence /\ recovering.max_sequence <= numbers'.sequence
  BY NewLogIs
<1>2. /\ current # None /\ Latest \in Reads /\ Latest.files = version
      /\ recovering.max_sequence \in Nat /\ Latest.sequence \in Nat
  BY <1>1, RecoveringIs
<1>3. numbers'.sequence \in Nat /\ numbers.sequence \in Nat  BY <1>1 DEF Numbers
<1>4. /\ Latest.sequence <= numbers.sequence /\ UpTo(Latest.sequence, EntriesOf(version))
      /\ UpTo(recovering.max_sequence, EntriesOf(recovering.add) \cup mem)
      /\ reuse_logs => \A l \in LogsFrom(numbers.log) : UpTo(recovering.max_sequence, Written(l))
  BY <1>1, <1>2 DEF ContentsInv, AgesInv, SequenceInv, ReadSequences, RecoverySequences, Running
<1>5. Latest.sequence <= numbers'.sequence  BY <1>1, <1>2, <1>3, <1>4
<1>6. /\ \A e \in Issued : e.seq \in Nat
      /\ EntriesOf(version) \subseteq Issued /\ EntriesOf(recovering.add) \subseteq Issued
      /\ mem \subseteq Issued /\ LogEntries(numbers.log) \subseteq Issued
  <2>1. version \subseteq DOMAIN tables /\ recovering.add \subseteq DOMAIN tables
    BY <1>1 DEF DiskInv, FilesInv, RunningInv, LogsInv, Running
  <2>2. Types /\ mem \subseteq Issued  BY DEF DiskInv, Types, ProcessTypes
  <2> QED BY <2>1, <2>2, EntriesAreIssued
<1>7. UpTo(numbers'.sequence, EntriesOf(version))  BY <1>2, <1>3, <1>4, <1>5, <1>6, UpToMore
<1>8. UpTo(numbers'.sequence, EntriesOf(recovering.add) \cup mem)
  BY <1>1, <1>2, <1>3, <1>4, <1>6, UpToMore
<1>9. EntriesOf(version \cup recovering.add) \subseteq EntriesOf(version) \cup EntriesOf(recovering.add)
  BY DEF EntriesOf
<1>10. UpTo(numbers'.sequence, EntriesOf(version \cup recovering.add) \cup mem)
  BY <1>7, <1>8, <1>9 DEF UpTo
<1>11. ASSUME reuse_logs PROVE UpTo(numbers'.sequence, LogEntries(numbers.log))
  <2>1. UpTo(recovering.max_sequence, LogEntries(numbers.log))
    BY <1>4, <1>11 DEF UpTo, LogEntries
  <2> QED BY <1>1, <1>2, <1>3, <1>6, <2>1, UpToMore
<1> QED BY <1>3, <1>5, <1>10, <1>11

(* With or without a new log there is the same in them. *)
LEMMA NewLogEntries ==
  ASSUME Given, Options, DiskInv, NewLog
  PROVE  /\ \A l \in DOMAIN logs : Written(l)' = Written(l) /\ Lasting(l)' = Lasting(l)
         /\ \A n : LogEntries(n)' = LogEntries(n) /\ LastingEntries(n)' = LastingEntries(n)
         /\ \A n : LogsFrom(n)' \subseteq LogsFrom(n) \cup {numbers'.logfile}
         /\ numbers'.logfile \in DOMAIN logs'
         /\ recovering.reused => mem = Written(numbers.logfile)' /\ reuse_logs
                                 /\ numbers'.logfile \in DOMAIN logs
         /\ ~recovering.reused => mem = {}
<1>1. /\ phase = "logs" /\ recovering.logs = {} /\ numbers \in Numbers
      /\ numbers'.logfile = IF recovering.reused THEN numbers.logfile ELSE numbers.next
      /\ logs' = IF recovering.reused THEN logs ELSE With(logs, numbers.next, NewFile)
      /\ recovering \in Recovery
  BY NewLogIs
<1>2. /\ \A l \in DOMAIN logs : l < numbers.next
      /\ recovering.reused => /\ reuse_logs /\ numbers.logfile \in DOMAIN logs
                              /\ mem = Written(numbers.logfile)
      /\ ~recovering.reused => mem = {}
  <2>1. LogsInv  BY DEF DiskInv, FilesInv
  <2> QED BY <1>1, <2>1 DEF LogsInv, Written
<1>3. CASE recovering.reused
  <2>1. logs' = logs /\ numbers'.logfile = numbers.logfile  BY <1>1, <1>3
  <2> QED BY <1>2, <1>3, <2>1, LogsStay
<1>4. CASE ~recovering.reused
  <2>1. logs' = With(logs, numbers.next, NewFile) /\ numbers'.logfile = numbers.next
    BY <1>1, <1>4
  <2>2. numbers.next \notin DOMAIN logs  BY <1>1, <1>2 DEF Numbers
  <2>3. numbers.next \in DOMAIN logs'  BY <2>1 DEF With
  <2> QED BY <1>2, <1>4, <2>1, <2>2, <2>3, LogAdded
<1> QED BY <1>3, <1>4

(* The end of the recovery when tables are still to be made part of it. *)
LEMMA NewLogSaves ==
  ASSUME Given, Options, DiskInv, ContentsInv, NewLog, recovering.save
  PROVE  ContentsInv' /\ StoreStep
<1>1. /\ phase = "logs" /\ recovering.logs = {} /\ edit' # None /\ phase' = "save"
      /\ edit'.step = "write" /\ edit'.by = "open"
      /\ edit'.record = Edit(recovering.add, {}, numbers'.logfile, numbers'.next, numbers'.sequence)
      /\ numbers'.log = numbers.log /\ numbers' \in Numbers
      /\ UNCHANGED <<current, manifests, tables, version, mem, imm, writing, doubtful,
                     acknowledged, durable, counts>>
  BY NewLogIs
<1>2. /\ edit'.record.add = recovering.add /\ edit'.record.sequence = numbers'.sequence
  BY <1>1 DEF Edit
<1>3. /\ current # None /\ edit = None /\ imm = None /\ Latest \in Reads
      /\ Latest.files = version /\ Latest.log = numbers.log
  BY <1>1, RecoveringIs
<1>4. Reads' = Reads /\ Latest' = Latest  BY <1>1 DEF Reads, Latest
<1>5. \A ns : EntriesOf(ns)' = EntriesOf(ns)  BY <1>1 DEF EntriesOf
<1>6. /\ \A n : LogEntries(n)' = LogEntries(n) /\ LastingEntries(n)' = LastingEntries(n)
      /\ \A l \in DOMAIN logs : Written(l)' = Written(l)
      /\ \A n : LogsFrom(n)' \subseteq LogsFrom(n) \cup {numbers'.logfile}
      /\ mem = {} \/ (mem = Written(numbers.logfile)' /\ reuse_logs /\ recovering.reused)
  BY NewLogEntries
<1>7. /\ UpTo(numbers'.sequence, EntriesOf(version \cup recovering.add) \cup mem)
      /\ Latest.sequence <= numbers'.sequence /\ numbers'.sequence \in Nat
  BY NewLogSequences
<1>8. EntriesOf(edit.record.add)' = EntriesOf(recovering.add)  BY <1>1, <1>2 DEF EntriesOf
<1>9. SourceInv'
  <2>1. EntriesOf(recovering.add) \subseteq LogEntries(numbers.log)
    BY <1>1 DEF ContentsInv, SourceInv
  <2>2. Found(Latest)' = EntriesOf(Latest.files)' \cup LogEntries(Latest.log)'  BY DEF Found
  <2>3. LogEntries(Latest.log)' = LogEntries(numbers.log)
    <3>1. LogEntries(numbers.log)' = LogEntries(numbers.log)  BY <1>1, <1>6
    <3> QED BY <1>1, <1>3, <1>4, <3>1
  <2>4. EntriesOf(edit.record.add)' \subseteq Found(Latest)'  BY <1>8, <2>1, <2>2, <2>3
  <2> QED BY <1>1, <1>6, <2>4 DEF SourceInv
<1>10. RecoverySequences' /\ EditSequences'
  <2>1. RecoverySequences'  BY <1>1, <1>7 DEF RecoverySequences, UpTo
  <2>2. EntriesOf(version \cup edit.record.add)' = EntriesOf(version \cup recovering.add)
    BY <1>1, <1>2 DEF EntriesOf
  <2>3. UpTo(edit.record.sequence, EntriesOf(version \cup edit.record.add))'
    BY <1>2, <1>7, <2>2 DEF UpTo
  <2> QED BY <1>1, <1>2, <1>4, <1>7, <2>1, <2>3 DEF EditSequences
<1>11. Visible' \subseteq FoundByAny
  <2>1. Visible' = mem \cup EntriesOf(Latest.files)  BY <1>1, <1>3 DEF Visible, EntriesOf
  <2>2. mem \subseteq LogEntries(numbers.log)
    <3>1. mem = {} \/ (mem = Written(numbers.logfile) /\ numbers.logfile \in LogsFrom(numbers.log))
      BY <1>1 DEF DiskInv, FilesInv, LogsInv, LogsFrom, Written, Types, ProcessTypes, Numbers
    <3> QED BY <3>1 DEF LogEntries
  <2> QED BY <1>3, <2>1, <2>2 DEF FoundByAny, Found
<1>12. counts'.skips = 0 => RecoveredInv'
  <2> SUFFICES ASSUME counts.skips = 0 PROVE RecoveredInv'
    BY <1>1
  <2>1. \A l \in LogsFrom(numbers.log) :
          (recovering.reused /\ l = numbers.logfile) \/ Written(l) \subseteq EntriesOf(recovering.add)
    <3>1. RecoveredInv  BY <1>3 DEF ContentsInv, StoreInv
    <3> QED BY <1>1, <3>1 DEF RecoveredInv
  <2>2. recovering.reused => numbers'.logfile = numbers.logfile  BY NewLogIs
  <2>3. ASSUME NEW l \in LogsFrom(numbers.log)', l # numbers'.logfile
        PROVE  Written(l)' \subseteq EntriesOf(edit.record.add)'
    <3>1. l \in LogsFrom(numbers.log) /\ l \in DOMAIN logs  BY <1>1, <1>6, <2>3 DEF LogsFrom
    <3> QED BY <1>6, <1>8, <2>1, <2>2, <2>3, <3>1
  <2> QED BY <1>1, <2>3 DEF RecoveredInv
<1>13. DiskInv'  BY NewLogKeeps
<1>14. \A s \in Reads : /\ EntriesOf(s.files)' = EntriesOf(s.files)
                        /\ LogEntries(s.log)' = LogEntries(s.log)
                        /\ LastingEntries(s.log)' = LastingEntries(s.log)
  BY <1>5, <1>6
<1>15. phase # "open" /\ phase' # "open"  BY <1>1
<1>16. UNCHANGED <<durable, acknowledged, doubtful>> /\ (counts'.skips = 0 => counts.skips = 0)
  BY <1>1
<1> QED BY <1>1, <1>3, <1>4, <1>7, <1>9, <1>10, <1>11, <1>12, <1>13, <1>14, <1>15, <1>16, ReadingsStay

(* The end of the recovery when nothing is to be saved: the database is open. *)
LEMMA NewLogOpens ==
  ASSUME Given, Options, DiskInv, ContentsInv, NewLog, ~recovering.save
  PROVE  ContentsInv' /\ StoreStep
<1>1. /\ phase = "logs" /\ recovering.logs = {} /\ edit' = None /\ phase' = "open" /\ doubtful' = {}
      /\ numbers'.log = numbers.log /\ numbers' \in Numbers
      /\ UNCHANGED <<current, manifests, tables, version, mem, imm, writing, acknowledged,
                     durable, counts>>
  BY NewLogIs
<1>2. /\ current # None /\ imm = None /\ writing = None /\ Latest \in Reads
      /\ Latest.files = version /\ Latest.log = numbers.log
  BY <1>1, RecoveringIs
<1>3. reuse_logs /\ recovering.add = {}  BY <1>1 DEF DiskInv, FilesInv, LogsInv
<1>4. ~PowerFails /\ Reads = {Latest} /\ Types  BY <1>2, <1>3, ReadingsAre DEF Options, DiskInv
<1>5. Reads' = Reads /\ Latest' = Latest  BY <1>1 DEF Reads, Latest
<1>6. /\ \A l \in DOMAIN logs : Written(l)' = Written(l) /\ Lasting(l)' = Lasting(l)
      /\ \A n : LogEntries(n)' = LogEntries(n) /\ LastingEntries(n)' = LastingEntries(n)
      /\ mem = {} \/ (mem = Written(numbers.logfile)' /\ recovering.reused)
  BY NewLogEntries
<1>7. /\ LogEntries(numbers.log)' = LogEntries(numbers.log)
      /\ LastingEntries(numbers.log)' = LastingEntries(numbers.log)
  BY <1>1, <1>6
<1>8. EntriesOf(version)' = EntriesOf(version)  BY <1>1 DEF EntriesOf
<1>9. \A s \in Reads : /\ EntriesOf(s.files)' = EntriesOf(s.files)
                       /\ LogEntries(s.log)' = LogEntries(s.log)
                       /\ Found(s)' = Found(s) /\ Kept(s)' = Kept(s)
  BY <1>1, <1>6, TablesStay DEF Found, Kept
<1>10. Found(Latest) = EntriesOf(version) \cup LogEntries(numbers.log)  BY <1>2 DEF Found
<1>11. mem \subseteq LogEntries(numbers.log)
  <2>1. mem = {} \/ (mem = Written(numbers.logfile) /\ numbers.logfile \in LogsFrom(numbers.log))
    BY <1>1 DEF DiskInv, FilesInv, LogsInv, LogsFrom, Written, Types, ProcessTypes, Numbers
  <2> QED BY <2>1 DEF LogEntries
<1>12. Visible' = mem \cup EntriesOf(version)  BY <1>1, <1>2, <1>8 DEF Visible
<1>13. OrderInv'
  <2>1. FoundByAny' = Found(Latest) /\ FoundByAny = Found(Latest)
    BY <1>4, <1>5, <1>9 DEF FoundByAny
  <2>2. Logged' = LogEntries(numbers.log) /\ UnderWay' = {}
    BY <1>1, <1>2, <1>7 DEF Logged, UnderWay
  <2>3. Known' \subseteq Known  BY <1>1, <1>2, <1>10, <1>11, <1>12, <2>1, <2>2 DEF Known
  <2> QED BY <2>3 DEF ContentsInv, AgesInv, OrderInv
<1>14. SequenceInv'
  <2>1. /\ UpTo(numbers'.sequence, EntriesOf(version \cup recovering.add) \cup mem)
        /\ Latest.sequence <= numbers'.sequence
        /\ UpTo(numbers'.sequence, LogEntries(numbers.log))
    BY <1>3, NewLogSequences
  <2>2. ReadSequences'
    BY <1>1, <1>5, <1>9 DEF ContentsInv, AgesInv, SequenceInv, ReadSequences, UpTo
  <2>3. OpenSequences'
    <3>1. UpTo(numbers'.sequence, Visible')  BY <1>3, <1>12, <2>1
    <3>2. ASSUME NEW s \in Reads' PROVE LogEntries(s.log)' = LogEntries(numbers.log)
      <4>1. s = Latest /\ s.log = numbers.log  BY <1>2, <1>4, <1>5, <3>2
      <4> QED BY <1>6, <4>1
    <3>3. UNION {LogEntries(s.log)' : s \in Reads'} \subseteq LogEntries(numbers.log)  BY <3>2
    <3>4. \A e \in LogEntries(numbers.log) : e.seq <= numbers'.sequence  BY <2>1 DEF UpTo
    <3>5. UpTo(numbers.sequence, Visible)'  BY <3>1 DEF UpTo
    <3> QED BY <1>7, <3>3, <3>4, <3>5 DEF OpenSequences
  <2>4. RecoverySequences' /\ EditSequences' /\ WriterSequence'
    BY <1>1, <1>2 DEF RecoverySequences, EditSequences, WriterSequence
  <2> QED BY <1>5, <2>1, <2>2, <2>3, <2>4 DEF SequenceInv
<1>15. SourceInv'  BY <1>1 DEF SourceInv
<1>16. ASSUME counts.skips = 0 PROVE Visible' = Found(Latest) /\ Contents = Found(Latest) /\ Contents' = Found(Latest)
  <2>1. \A l \in LogsFrom(numbers.log) :
          (recovering.reused /\ l = numbers.logfile) \/ Written(l) \subseteq EntriesOf(recovering.add)
    <3>1. RecoveredInv  BY <1>2, <1>16 DEF ContentsInv, StoreInv
    <3> QED BY <1>1, <3>1 DEF RecoveredInv
  <2>2. EntriesOf(recovering.add) = {}  BY <1>3 DEF EntriesOf
  <2>3. recovering.reused => Written(numbers.logfile) = mem
    BY <1>1 DEF DiskInv, FilesInv, LogsInv, Written
  <2>4. LogEntries(numbers.log) \subseteq mem  BY <2>1, <2>2, <2>3 DEF LogEntries
  <2>5. Visible' = Found(Latest)  BY <1>10, <1>11, <1>12, <2>4
  <2>6. Contents = Found(Latest)  BY <1>1, <1>2, RecoverableIs
  <2> QED BY <1>1, <2>5, <2>6 DEF Contents
<1>17. StoreInv'
  <2> SUFFICES ASSUME counts.skips = 0
               PROVE  PromiseInv' /\ RecoveredInv' /\ ServedInv' /\ WritingInv'
    BY <1>1 DEF StoreInv
  <2>1. PromiseInv  BY <1>2 DEF ContentsInv, StoreInv
  <2>2. PromiseInv'
    <3>1. ASSUME NEW s \in Reads' PROVE durable' \subseteq Kept(s)' /\ Found(s)' \subseteq Contents' \cup doubtful'
      <4>1. s \in Reads /\ s = Latest  BY <1>4, <1>5
      <4>2. Found(s)' = Found(Latest) /\ Kept(s)' = Kept(Latest)  BY <1>9, <4>1
      <4> QED BY <1>1, <1>2, <1>16, <2>1, <4>2 DEF PromiseInv
    <3> QED BY <1>1, <1>16, <2>1, <3>1 DEF PromiseInv
  <2>3. ServedInv'
    <3>1. \A s \in Reads' : EntriesOf(version)' \subseteq EntriesOf(s.files)'
      <4> SUFFICES ASSUME NEW s \in Reads' PROVE EntriesOf(version)' \subseteq EntriesOf(s.files)'
        OBVIOUS
      <4>1. s \in Reads /\ s.files = version  BY <1>2, <1>4, <1>5
      <4> QED BY <1>8, <1>9, <4>1
    <3>2. mem' \subseteq Written(numbers.logfile)' /\ Lasting(numbers.logfile)' = Written(numbers.logfile)'
      BY <1>1, <1>4, <1>6 DEF Written, Lasting
    <3>3. LogEntries(numbers.log)' \subseteq Visible'  BY <1>7, <1>10, <1>16
    <3> QED BY <1>1, <1>2, <3>1, <3>2, <3>3 DEF ServedInv
  <2> QED BY <1>1, <1>2, <2>2, <2>3 DEF RecoveredInv, WritingInv
<1>18. StoreStep
  <2>1. CASE counts.skips = 0
    <3>1. Store!Open  BY <1>1, <1>16, <2>1 DEF Store!Open
    <3> QED BY <3>1 DEF StoreStep, Store!Next
  <2>2. CASE counts.skips # 0
    BY <1>1, <2>2 DEF StoreStep
  <2> QED BY <2>1, <2>2
<1> QED BY <1>13, <1>14, <1>15, <1>17, <1>18 DEF ContentsInv, AgesInv

(* The process gives up: nothing of the disk has changed that is read. *)
LEMMA ClosingStores ==
  ASSUME NoneAssumption, DiskInv, DiskInv', ContentsInv, phase # "open", current # None, ToClosed,
         UNCHANGED <<current, logs, tables, durable, acknowledged, doubtful>>,
         counts'.skips = counts.skips, Reads' = Reads, Latest' = Latest
  PROVE  ContentsInv' /\ StoreStep
<1>1. /\ phase' = "closed" /\ version' = {} /\ mem' = {} /\ imm' = None /\ edit' = None
  BY DEF ToClosed
<1>2. \A s \in Reads : /\ EntriesOf(s.files)' = EntriesOf(s.files)
                       /\ LogEntries(s.log)' = LogEntries(s.log)
                       /\ LastingEntries(s.log)' = LastingEntries(s.log)
  BY TablesStay, LogsStay
<1>3. Visible' = {}  BY <1>1 DEF Visible, EntriesOf
<1>4. RecoveredInv' /\ SourceInv' /\ RecoverySequences' /\ EditSequences' /\ ~Running'
  BY <1>1 DEF RecoveredInv, SourceInv, RecoverySequences, EditSequences, Running
<1> QED BY <1>1, <1>2, <1>3, <1>4, ReadingsStay

(* A file operation of DB::Open fails. *)
LEMMA OpenFailsStores ==
  ASSUME Given, Options, DiskInv, ContentsInv, OpenFails
  PROVE  ContentsInv' /\ StoreStep
<1>1. /\ phase \in {"created", "logs"} /\ ToClosed
      /\ counts' = [counts EXCEPT !.errors = @ + 1] \/ counts' = counts
      /\ manifests' = IF phase = "created" THEN Without(manifests, 1) ELSE manifests
      /\ UNCHANGED <<current, logs, tables, history>>
  BY DEF OpenFails, Fail, history
<1>2. DiskInv'  BY OpenFailsKeeps
<1>3. CASE phase = "created"
  <2>1. current = None  BY <1>3 DEF DiskInv, FilesInv, PhaseInv
  <2> QED BY <1>1, <1>2, <2>1, NothingHappens
<1>4. CASE phase = "logs"
  <2>1. current # None  BY <1>4, RecoveringIs
  <2>2. Reads' = Reads /\ Latest' = Latest  BY <1>1, <1>4 DEF Reads, Latest
  <2>3. counts'.skips = counts.skips  BY <1>1 DEF DiskInv, Types, HistoryTypes, Counts
  <2> QED BY <1>1, <1>2, <1>4, <2>1, <2>2, <2>3, ClosingStores
<1> QED BY <1>1, <1>3, <1>4

-------------------------------------------------------------------------------
(* LogAndApply leaves what is stored as it is. *)

(* An open that saves what it recovered. *)
LEMMA SavingIs ==
  ASSUME NoneAssumption, DiskInv, phase = "save"
  PROVE  /\ current # None /\ edit # None /\ edit.by = "open" /\ imm = None /\ writing = None
         /\ edit.record.del = {} /\ edit.record.log = numbers.logfile
         /\ Latest \in Reads /\ numbers.logfile \in DOMAIN logs
         /\ LogsFrom(numbers.logfile) = {numbers.logfile} /\ mem = Written(numbers.logfile)
         /\ Visible = mem \cup EntriesOf(version) /\ Visible \subseteq Found(Latest)
         /\ IF Committed THEN Latest.files = version \cup edit.record.add /\ Latest.log = numbers.logfile
            ELSE Latest.files = version /\ Latest.log = numbers.log
<1>1. Types /\ ReadsInv /\ PhaseInv /\ UnbornInv /\ LogfileInv /\ EditInv /\ VersionInv
  BY DEF DiskInv, FilesInv
<1>2. current # None /\ edit # None /\ imm = None /\ writing = None /\ ~bg_error
  BY <1>1 DEF PhaseInv, UnbornInv
<1>3. edit.by \in {"open", "flush", "compaction"} /\ edit.record.add \in SUBSET Nat
  BY <1>2, EditIs
<1>4. /\ edit.by = "open" /\ edit.record.del = {} /\ edit.record.log = numbers.logfile
      /\ mem = Written(numbers.logfile)
  <2>1. phase = IF edit.by = "open" THEN "save" ELSE "open"  BY <1>1, <1>2 DEF EditInv
  <2>2. edit.by = "open"  BY <2>1
  <2> QED BY <1>1, <1>2, <2>2 DEF EditInv, Written
<1>5. Latest \in Reads  BY <1>1, <1>2, ReadingsAre
<1>6. IF Committed THEN Latest.files = version \cup edit.record.add /\ Latest.log = numbers.logfile
      ELSE Latest.files = version /\ Latest.log = numbers.log
  <2>1. version \ {} = version  OBVIOUS
  <2> QED BY <1>1, <1>2, <1>4, <2>1 DEF VersionInv, Running
<1>7. /\ numbers.logfile \in DOMAIN logs /\ \A l \in DOMAIN logs : l <= numbers.logfile
      /\ Latest.log <= numbers.logfile /\ numbers.logfile \in Nat /\ DOMAIN logs \subseteq Nat
  BY <1>1, <1>5 DEF LogfileInv, Types, DiskTypes, ProcessTypes, Files, Numbers
<1>8. LogsFrom(numbers.logfile) = {numbers.logfile} /\ numbers.logfile \in LogsFrom(Latest.log)
  BY <1>7 DEF LogsFrom
<1>9. Visible = mem \cup EntriesOf(version)  BY <1>2 DEF Visible
<1>10. EntriesOf(version) \subseteq EntriesOf(Latest.files)  BY <1>6 DEF EntriesOf
<1>11. Visible \subseteq Found(Latest)  BY <1>4, <1>8, <1>9, <1>10 DEF Found, LogEntries
<1> QED BY <1>2, <1>4, <1>5, <1>6, <1>7, <1>8, <1>9, <1>11

(* What it saves holds no more than was found, and no less if no log was
   passed over. *)
LEMMA SavedIs ==
  ASSUME NoneAssumption, DiskInv, ContentsInv, phase = "save", ~Committed,
         NEW s, s.files = version \cup edit.record.add, s.log = numbers.logfile
  PROVE  /\ Found(s) \subseteq Found(Latest)
         /\ counts.skips = 0 => Found(Latest) \subseteq Found(s) /\ Kept(Latest) \subseteq Kept(s)
         /\ EntriesOf(edit.record.add) \subseteq Found(s)
<1>1. /\ current # None /\ LogsFrom(numbers.logfile) = {numbers.logfile}
      /\ Latest.files = version /\ Latest.log = numbers.log
      /\ mem = Written(numbers.logfile) /\ Visible = mem \cup EntriesOf(version)
      /\ Visible \subseteq Found(Latest) /\ Types
  BY SavingIs DEF DiskInv
<1>2. /\ LogEntries(numbers.logfile) = Written(numbers.logfile)
      /\ LastingEntries(numbers.logfile) = Lasting(numbers.logfile)
  BY <1>1 DEF LogEntries, LastingEntries
<1>3. EntriesOf(s.files) = EntriesOf(version) \cup EntriesOf(edit.record.add)  BY DEF EntriesOf
<1>4. /\ Found(s) = EntriesOf(version) \cup EntriesOf(edit.record.add) \cup Written(numbers.logfile)
      /\ Kept(s) = EntriesOf(version) \cup EntriesOf(edit.record.add) \cup Lasting(numbers.logfile)
  BY <1>2, <1>3 DEF Found, Kept
<1>5. EntriesOf(edit.record.add) \subseteq Found(Latest)  BY DEF ContentsInv, SourceInv
<1>6. Found(s) \subseteq Found(Latest)  BY <1>1, <1>4, <1>5
<1>7. ASSUME counts.skips = 0 PROVE Found(Latest) \subseteq Found(s) /\ Kept(Latest) \subseteq Kept(s)
  <2>1. RecoveredInv  BY <1>1, <1>7 DEF ContentsInv, StoreInv
  <2>2. \A l \in LogsFrom(numbers.log) :
          l = numbers.logfile \/ Written(l) \subseteq EntriesOf(edit.record.add)
    BY <2>1 DEF RecoveredInv
  <2>3. \A l \in LogsFrom(numbers.log) : Lasting(l) \subseteq Written(l)
    BY <1>1, LastingIsWritten DEF LogsFrom
  <2>4. LogEntries(numbers.log) \subseteq EntriesOf(edit.record.add) \cup Written(numbers.logfile)
    BY <2>2 DEF LogEntries
  <2>5. LastingEntries(numbers.log) \subseteq EntriesOf(edit.record.add) \cup Lasting(numbers.logfile)
    BY <2>2, <2>3 DEF LastingEntries
  <2>6. /\ Found(Latest) = EntriesOf(version) \cup LogEntries(numbers.log)
        /\ Kept(Latest) = EntriesOf(version) \cup LastingEntries(numbers.log)
    BY <1>1 DEF Found, Kept
  <2> QED BY <1>4, <2>4, <2>5, <2>6
<1> QED BY <1>4, <1>6, <1>7

(* The same when CURRENT or its MANIFEST says so. *)
LEMMA SavedStores ==
  ASSUME NoneAssumption, DiskInv, DiskInv', ContentsInv, phase = "save", phase' = "save", ~Committed,
         current' # None, edit' # None, edit'.record = edit.record,
         UNCHANGED <<logs, tables, version, numbers, mem, imm, recovering, history, counts>>,
         Reads' \subseteq Reads \cup {Latest'},
         Latest'.files = version \cup edit.record.add, Latest'.log = edit.record.log,
         Latest'.sequence = edit.record.sequence
  PROVE  ContentsInv' /\ StoreStep
<1>1. /\ current # None /\ edit # None /\ Latest \in Reads /\ edit.record.log = numbers.logfile
      /\ Visible \subseteq Found(Latest)
      /\ edit.record.sequence \in Nat /\ Types /\ ReadsInv
  BY SavingIs, EditIs DEF DiskInv
<1>2. /\ \A n : EntriesOf(n)' = EntriesOf(n)
      /\ \A n : LogEntries(n)' = LogEntries(n) /\ LastingEntries(n)' = LastingEntries(n)
      /\ \A n : LogsFrom(n)' = LogsFrom(n) /\ \A l : Written(l)' = Written(l)
  BY TablesStay, LogsStay
<1>3. \A s : Found(s)' = Found(s) /\ Kept(s)' = Kept(s)  BY <1>2 DEF Found, Kept
<1> DEFINE new == Latest'
<1>4. new.files = version \cup edit.record.add /\ new.log = numbers.logfile
      /\ new.sequence = edit.record.sequence /\ Reads' \subseteq Reads \cup {new}
  BY <1>1
<1> HIDE DEF new
<1>5. /\ Found(new) \subseteq Found(Latest) /\ EntriesOf(edit.record.add) \subseteq Found(new)
      /\ counts.skips = 0 => Found(Latest) \subseteq Found(new) /\ Kept(Latest) \subseteq Kept(new)
  BY <1>4, SavedIs
<1>6. \A s \in Reads' : Found(s)' \subseteq FoundByAny  BY <1>1, <1>3, <1>4, <1>5 DEF FoundByAny
<1>7. Visible' \subseteq FoundByAny
  <2>1. Visible' = Visible  BY <1>2 DEF Visible, EntriesOf
  <2> QED BY <1>1, <2>1 DEF FoundByAny
<1>8. Found(Latest)' = Found(new)
  <2>1. Found(Latest)' = EntriesOf(Latest.files)' \cup LogEntries(Latest.log)'  BY DEF Found
  <2>2. EntriesOf(Latest.files)' = EntriesOf(new.files)  BY DEF EntriesOf, new
  <2>3. LogsFrom(Latest.log)' = LogsFrom(new.log)  BY DEF LogsFrom, new
  <2>4. LogEntries(Latest.log)' = LogEntries(new.log)  BY <1>2, <2>3 DEF LogEntries
  <2> QED BY <2>1, <2>2, <2>4 DEF Found
<1>9. counts'.skips = 0 =>
        /\ Found(Latest)' = Found(Latest)
        /\ \A s \in Reads' : \E r \in Reads : Found(s)' \subseteq Found(r) /\ Kept(r) \subseteq Kept(s)'
  <2> SUFFICES ASSUME counts.skips = 0
               PROVE  /\ Found(Latest)' = Found(Latest)
                      /\ \A s \in Reads' : \E r \in Reads : Found(s)' \subseteq Found(r) /\ Kept(r) \subseteq Kept(s)'
    OBVIOUS
  <2>1. Found(Latest)' = Found(Latest)  BY <1>5, <1>8
  <2>2. ASSUME NEW s \in Reads'
        PROVE  \E r \in Reads : Found(s)' \subseteq Found(r) /\ Kept(r) \subseteq Kept(s)'
    <3>1. CASE s \in Reads
      BY <1>3, <3>1
    <3>2. CASE s = new
      BY <1>1, <1>3, <1>5, <3>2
    <3> QED BY <1>4, <3>1, <3>2
  <2> QED BY <2>1, <2>2
<1>10. RecoveredInv \/ counts.skips # 0  BY <1>1 DEF ContentsInv, StoreInv
<1>11. EntriesOf(edit.record.add)' = EntriesOf(edit.record.add)  BY DEF EntriesOf
<1>12. LogsFrom(numbers.log)' = LogsFrom(numbers.log)  BY <1>2
<1>13. counts'.skips = 0 => RecoveredInv'  BY <1>2, <1>10, <1>11, <1>12 DEF RecoveredInv
<1>14. SourceInv'  BY <1>5, <1>8, <1>11 DEF ContentsInv, SourceInv
<1>15. /\ ReadSequences /\ RecoverySequences /\ EditSequences
  BY DEF ContentsInv, AgesInv, SequenceInv
<1>16. /\ edit.record.sequence <= numbers.sequence /\ Latest.sequence <= edit.record.sequence
       /\ UpTo(edit.record.sequence, EntriesOf(version \cup edit.record.add))
  BY <1>1, <1>15 DEF EditSequences
<1>17. ReadSequences'
  <2>1. ASSUME NEW s \in Reads'
        PROVE  s.sequence <= new.sequence /\ UpTo(s.sequence, EntriesOf(s.files))
    <3>1. CASE s \in Reads
      <4>1. s.sequence <= Latest.sequence /\ UpTo(s.sequence, EntriesOf(s.files))
        BY <1>1, <1>15, <3>1 DEF ReadSequences
      <4>2. s.sequence \in Nat /\ Latest.sequence \in Nat
        BY <1>1, <3>1 DEF ReadsInv, GoodRead, CompleteState
      <4> QED BY <1>1, <1>4, <1>16, <4>1, <4>2
    <3>2. CASE s = new
      <4>1. s.files = version \cup edit.record.add /\ s.sequence = edit.record.sequence
        BY <1>4, <3>2
      <4>2. UpTo(s.sequence, EntriesOf(s.files))  BY <1>16, <4>1
      <4> QED BY <1>1, <1>4, <4>1, <4>2
    <3> QED BY <1>4, <3>1, <3>2
  <2>2. \A s : UpTo(s.sequence, EntriesOf(s.files))' = UpTo(s.sequence, EntriesOf(s.files))
    BY <1>2 DEF UpTo
  <2> QED BY <2>1, <2>2 DEF ReadSequences, new
<1>18. RecoverySequences'  BY <1>15 DEF RecoverySequences, UpTo
<1>19. EditSequences'
  <2>1. UpTo(edit.record.sequence, EntriesOf(version \cup edit.record.add))'
    BY <1>2, <1>16 DEF UpTo, EntriesOf
  <2> QED BY <1>1, <1>16, <2>1 DEF EditSequences
<1>20. Latest'.sequence <= numbers'.sequence  BY <1>16
<1> QED BY <1>1, <1>6, <1>7, <1>9, <1>13, <1>14, <1>17, <1>18, <1>19, <1>20, OpeningStays

(* An open that saves, with nothing new that may be read. *)
LEMMA SavingStays ==
  ASSUME NoneAssumption, DiskInv, DiskInv', ContentsInv, phase = "save", phase' = "save",
         current' = current, edit' # None, edit'.record = edit.record,
         UNCHANGED <<logs, tables, version, numbers, mem, imm, recovering, history, counts>>,
         Reads' \subseteq Reads, Latest' = Latest
  PROVE  ContentsInv' /\ StoreStep
<1>1. /\ current # None /\ edit # None /\ Latest \in Reads /\ Visible \subseteq Found(Latest)
  BY SavingIs
<1>2. /\ \A n : EntriesOf(n)' = EntriesOf(n)
      /\ \A n : LogEntries(n)' = LogEntries(n) /\ LastingEntries(n)' = LastingEntries(n)
      /\ \A n : LogsFrom(n)' = LogsFrom(n) /\ \A l : Written(l)' = Written(l)
  BY TablesStay, LogsStay
<1>3. EntriesOf(edit.record.add)' = EntriesOf(edit.record.add)
      /\ LogsFrom(numbers.log)' = LogsFrom(numbers.log)
  BY <1>2 DEF EntriesOf
<1>4. Visible' \subseteq FoundByAny
  <2>1. Visible' = Visible  BY <1>2 DEF Visible, EntriesOf
  <2> QED BY <1>1, <2>1 DEF FoundByAny
<1>5. Found(Latest)' = Found(Latest)
  <2>1. EntriesOf(Latest.files)' = EntriesOf(Latest.files)  BY DEF EntriesOf
  <2>2. LogsFrom(Latest.log)' = LogsFrom(Latest.log)  BY DEF LogsFrom
  <2>3. LogEntries(Latest.log)' = LogEntries(Latest.log)  BY <1>2, <2>2 DEF LogEntries
  <2> QED BY <2>1, <2>3 DEF Found
<1>6. counts'.skips = 0 => RecoveredInv'
  BY <1>1, <1>2, <1>3 DEF RecoveredInv, ContentsInv, StoreInv
<1>7. SourceInv' /\ RecoverySequences' /\ EditSequences'
  <2>1. SourceInv /\ RecoverySequences /\ EditSequences
    BY DEF ContentsInv, AgesInv, SequenceInv
  <2>2. SourceInv'  BY <1>3, <1>5, <2>1 DEF SourceInv
  <2>3. RecoverySequences'  BY <2>1 DEF RecoverySequences, UpTo
  <2>4. EntriesOf(version \cup edit.record.add)' = EntriesOf(version \cup edit.record.add)
    BY DEF EntriesOf
  <2>5. EditSequences'  BY <1>1, <2>1, <2>4 DEF EditSequences, UpTo
  <2> QED BY <2>2, <2>3, <2>5
<1>8. Latest.sequence <= numbers'.sequence  BY DEF ContentsInv, AgesInv, SequenceInv, Running
<1> QED BY <1>1, <1>2, <1>4, <1>6, <1>7, <1>8, ReadingsStay

(* The edit of a flush or a compaction, in an open database. *)
LEMMA OpenEditIs ==
  ASSUME NoneAssumption, DiskInv, ContentsInv, edit # None, phase = "open"
  PROVE  /\ current # None /\ Latest \in Reads /\ edit.by \in {"flush", "compaction"} /\ ~edit.fresh
         /\ edit.by = "flush" => edit.record.del = {} /\ imm # None
         /\ edit.by = "compaction" => edit.record.del \subseteq version
         /\ EntriesOf(edit.record.add) = IF edit.by = "flush" THEN imm ELSE EntriesOf(edit.record.del)
         /\ edit.record.log = IF edit.by = "flush" THEN numbers.logfile ELSE numbers.log
         /\ EntriesOf(edit.record.add) \subseteq Visible
         /\ numbers.log <= numbers.logfile /\ numbers.log \in Nat /\ numbers.logfile \in Nat
         /\ LogEntries(numbers.logfile) \subseteq LogEntries(numbers.log)
         /\ LogEntries(edit.record.log) \subseteq LogEntries(numbers.log)
         /\ numbers.logfile \in LogsFrom(edit.record.log)
<1>1. /\ EditInv /\ FlushInv /\ CompactionInv /\ LogfileInv /\ Types /\ ReadsInv
  BY DEF DiskInv, FilesInv
<1>2. /\ current # None /\ edit.by # "open" /\ ~edit.fresh /\ numbers \in Numbers
      /\ edit.by \in {"open", "flush", "compaction"}
  BY OpenIs, EditIs
<1>3. Latest \in Reads  BY <1>1, <1>2, ReadingsAre
<1>4. /\ edit.by = "flush" => edit.record.del = {} /\ imm # None
      /\ edit.by = "compaction" => edit.record.del \subseteq version
  BY <1>1 DEF EditInv, FlushInv, CompactionInv
<1>5. /\ EntriesOf(edit.record.add) = IF edit.by = "flush" THEN imm ELSE EntriesOf(edit.record.del)
      /\ edit.record.log = IF edit.by = "flush" THEN numbers.logfile ELSE numbers.log
  BY DEF ContentsInv, SourceInv
<1>6. EntriesOf(edit.record.add) \subseteq Visible
  <2>1. CASE edit.by = "flush"
    BY <1>4, <1>5, <2>1 DEF Visible
  <2>2. CASE edit.by = "compaction"
    <3>1. EntriesOf(edit.record.del) \subseteq EntriesOf(version)  BY <1>4, <2>2 DEF EntriesOf
    <3> QED BY <1>5, <2>2, <3>1 DEF Visible
  <2> QED BY <1>2, <2>1, <2>2
<1>7. /\ numbers.log <= numbers.logfile /\ numbers.log \in Nat /\ numbers.logfile \in Nat
      /\ numbers.logfile \in DOMAIN logs /\ DOMAIN logs \subseteq Nat
  BY <1>1, <1>2 DEF LogfileInv, Numbers, Types, DiskTypes, Files
<1>8. LogsFrom(numbers.logfile) \subseteq LogsFrom(numbers.log)  BY <1>7 DEF LogsFrom
<1>9. /\ LogEntries(numbers.logfile) \subseteq LogEntries(numbers.log)  BY <1>8 DEF LogEntries
<1>10. LogEntries(edit.record.log) \subseteq LogEntries(numbers.log)  BY <1>2, <1>5, <1>9
<1>11. numbers.logfile \in LogsFrom(edit.record.log)  BY <1>2, <1>5, <1>7 DEF LogsFrom
<1> QED BY <1>2, <1>3, <1>4, <1>5, <1>6, <1>7, <1>9, <1>10, <1>11

(* The record of a flush or a compaction: it may be read, or what was there. *)
LEMMA WriteManifestOpenStores ==
  ASSUME Given, Options, DiskInv, ContentsInv, WriteManifest, phase = "open"
  PROVE  ContentsInv' /\ StoreStep
<1>1. /\ edit # None /\ edit.step = "write" /\ edit' # None /\ edit'.step = "sync"
      /\ edit'.by = edit.by /\ edit'.fresh = edit.fresh /\ edit'.record = edit.record
      /\ UNCHANGED <<current, logs, tables, phase, version, numbers, mem, imm, recovering,
                     writing, history>>
      /\ counts'.skips = 0 => counts.skips = 0 /\ manifests[current].tail = "sound"
  <2>1. edit # None /\ ~edit.fresh  BY WriteManifestIs, OpenEditIs
  <2> QED BY <2>1, WriteManifestIs
<1>2. /\ current # None /\ Latest \in Reads /\ edit.by \in {"flush", "compaction"} /\ ~edit.fresh
      /\ edit.by = "flush" => edit.record.del = {} /\ imm # None
      /\ edit.by = "compaction" => edit.record.del \subseteq version
      /\ EntriesOf(edit.record.add) = IF edit.by = "flush" THEN imm ELSE EntriesOf(edit.record.del)
      /\ edit.record.log = IF edit.by = "flush" THEN numbers.logfile ELSE numbers.log
      /\ EntriesOf(edit.record.add) \subseteq Visible
      /\ LogEntries(edit.record.log) \subseteq LogEntries(numbers.log)
      /\ numbers.logfile \in LogsFrom(edit.record.log)
  BY <1>1, OpenEditIs
<1>3. /\ Types /\ ReadsInv /\ edit.record.sequence \in Nat /\ edit.record.log \in Nat
      /\ edit.record.next \in Nat
  BY <1>1, EditIs DEF DiskInv
<1>4. /\ \A n : EntriesOf(n)' = EntriesOf(n)
      /\ \A n : LogEntries(n)' = LogEntries(n) /\ LastingEntries(n)' = LastingEntries(n)
      /\ \A l : Written(l)' = Written(l) /\ Lasting(l)' = Lasting(l)
  BY <1>1, TablesStay, LogsStay
<1>5. \A s : Found(s)' = Found(s) /\ Kept(s)' = Kept(s)  BY <1>4 DEF Found, Kept
<1>6. Visible' = Visible /\ LogEntries(numbers.log)' = LogEntries(numbers.log)
      /\ EntriesOf(version)' = EntriesOf(version)
      /\ LastingEntries(numbers.log)' = LastingEntries(numbers.log)
      /\ Written(numbers.logfile)' = Written(numbers.logfile)
      /\ Lasting(numbers.logfile)' = Lasting(numbers.logfile)
      /\ EntriesOf(edit.record.add)' = EntriesOf(edit.record.add)
      /\ EntriesOf(edit.record.del)' = EntriesOf(edit.record.del)
      /\ EntriesOf(version \cup edit.record.add)' = EntriesOf(version \cup edit.record.add)
  <2>1. EntriesOf(version)' = EntriesOf(version) /\ EntriesOf(edit.record.add)' = EntriesOf(edit.record.add)
        /\ EntriesOf(edit.record.del)' = EntriesOf(edit.record.del)
        /\ EntriesOf(version \cup edit.record.add)' = EntriesOf(version \cup edit.record.add)
    BY <1>1 DEF EntriesOf
  <2> QED BY <1>1, <1>4, <2>1 DEF Visible
<1>d. CASE RecordIsDropped
  <2>1. counts'.skips # 0 /\ Reads' \subseteq Reads /\ Latest' = Latest
    BY <1>1, <1>d DEF RecordIsDropped
  <2>2. SourceInv'  BY <1>1, <1>2, <1>6, <2>1 DEF SourceInv
  <2>3. EditSequences'
    BY <1>1, <1>6, <2>1 DEF ContentsInv, AgesInv, SequenceInv, EditSequences, UpTo
  <2>4. phase' = "open" /\ (SoundLog' => SoundLog)  BY <1>1 DEF SoundLog
  <2> QED BY <1>1, <1>4, <1>6, <2>1, <2>2, <2>3, <2>4, SameStore
<1> SUFFICES ASSUME RecordIsRead
             PROVE  ContentsInv' /\ StoreStep
  BY <1>2, <1>d, WriteManifestIs
<1> DEFINE new == Applied(Latest, edit.record)
<1>7. /\ Latest' = new /\ Reads' \subseteq Reads \cup {new}  BY DEF RecordIsRead
<1>8. /\ new.files = (Latest.files \ edit.record.del) \cup edit.record.add
      /\ new.log = edit.record.log /\ new.sequence = edit.record.sequence
  BY <1>3 DEF Applied, NoneAssumption
<1> HIDE DEF new
<1>9. /\ EntriesOf(new.files) \subseteq EntriesOf(Latest.files) \cup EntriesOf(edit.record.add)
      /\ EntriesOf(edit.record.add) \subseteq EntriesOf(new.files)
      /\ EntriesOf(Latest.files) \subseteq EntriesOf(new.files)
  <2>1. /\ EntriesOf(new.files) \subseteq EntriesOf(Latest.files) \cup EntriesOf(edit.record.add)
        /\ EntriesOf(edit.record.add) \subseteq EntriesOf(new.files)
        /\ EntriesOf(Latest.files) \subseteq EntriesOf(new.files) \cup EntriesOf(edit.record.del)
    BY <1>8 DEF EntriesOf
  <2>2. EntriesOf(edit.record.del) \subseteq EntriesOf(edit.record.add)
    <3>1. EntriesOf({}) = {}  BY DEF EntriesOf
    <3> QED BY <1>2, <3>1
  <2> QED BY <2>1, <2>2
<1>10. Found(new) \subseteq Found(Latest) \cup Visible \cup LogEntries(numbers.log)
  BY <1>2, <1>8, <1>9 DEF Found
<1>11. OrderInv'
  <2>1. FoundByAny' \subseteq FoundByAny \cup Visible \cup Logged
    <3>1. Logged = LogEntries(numbers.log)  BY DEF Logged
    <3>2. Found(Latest) \subseteq FoundByAny  BY <1>2 DEF FoundByAny
    <3>3. \A s \in Reads' : Found(s)' \subseteq FoundByAny \cup Visible \cup Logged
      BY <1>5, <1>7, <1>10, <3>1, <3>2 DEF FoundByAny
    <3> QED BY <3>3 DEF FoundByAny
  <2>2. Logged' = Logged /\ UnderWay' = UnderWay  BY <1>1, <1>6 DEF Logged, UnderWay
  <2>3. Known' \subseteq Known  BY <1>1, <1>2, <1>6, <2>1, <2>2 DEF Known
  <2> QED BY <2>3 DEF ContentsInv, AgesInv, OrderInv
<1>12. /\ edit.record.sequence <= numbers.sequence /\ Latest.sequence <= edit.record.sequence
       /\ UpTo(edit.record.sequence, EntriesOf(version \cup edit.record.add))
       /\ ReadSequences /\ OpenSequences /\ WriterSequence
  BY <1>1 DEF ContentsInv, AgesInv, SequenceInv, EditSequences
<1>13. Latest.sequence \in Nat /\ \A s \in Reads : s.sequence \in Nat /\ s.files \subseteq DOMAIN tables
  BY <1>2, <1>3 DEF ReadsInv, GoodRead, CompleteState
<1>14. SequenceInv'
  <2>1. ReadSequences'
    <3>1. UpTo(edit.record.sequence, EntriesOf(new.files))
      <4>1. UpTo(edit.record.sequence, EntriesOf(edit.record.add))  BY <1>12 DEF UpTo, EntriesOf
      <4>2. UpTo(Latest.sequence, EntriesOf(Latest.files))  BY <1>2, <1>12 DEF ReadSequences
      <4>3. \A e \in EntriesOf(Latest.files) : e.seq \in Nat
        BY <1>2, <1>3, <1>13, EntriesAreIssued
      <4>4. UpTo(edit.record.sequence, EntriesOf(Latest.files))
        BY <1>3, <1>12, <1>13, <4>2, <4>3, UpToMore
      <4> QED BY <1>9, <4>1, <4>4 DEF UpTo
    <3>2. ASSUME NEW s \in Reads'
          PROVE  s.sequence <= new.sequence /\ UpTo(s.sequence, EntriesOf(s.files))
      <4>1. CASE s \in Reads
        <5>1. s.sequence <= Latest.sequence /\ UpTo(s.sequence, EntriesOf(s.files))
          BY <1>2, <1>12, <4>1 DEF ReadSequences
        <5> QED BY <1>3, <1>8, <1>12, <1>13, <4>1, <5>1
      <4>2. CASE s = new
        <5>1. UpTo(s.sequence, EntriesOf(s.files))  BY <1>8, <3>1, <4>2
        <5> QED BY <1>3, <1>8, <4>2, <5>1
      <4> QED BY <1>7, <4>1, <4>2
    <3>3. \A s : UpTo(s.sequence, EntriesOf(s.files))' = UpTo(s.sequence, EntriesOf(s.files))
      BY <1>4 DEF UpTo
    <3> QED BY <1>7, <3>2, <3>3 DEF ReadSequences
  <2>2. RecoverySequences' /\ WriterSequence'
    BY <1>1, <1>12 DEF RecoverySequences, WriterSequence
  <2>3. EditSequences'
    <3>1. UpTo(edit.record.sequence, EntriesOf(version \cup edit.record.add))'
      BY <1>1, <1>6, <1>12 DEF UpTo
    <3>2. edit.record.sequence' <= numbers.sequence' /\ Latest'.sequence <= edit.record.sequence'
      BY <1>1, <1>3, <1>7, <1>8, <1>12
    <3> QED BY <3>1, <3>2 DEF EditSequences
  <2>4. OpenSequences'
    <3>1. /\ UpTo(numbers.sequence, Visible)
          /\ \A e \in LogEntries(numbers.log) \cup UNION {LogEntries(s.log) : s \in Reads} :
               e.seq <= numbers.sequence \/ (writing # None /\ e = writing.entry)
      BY <1>12 DEF OpenSequences
    <3>2. \A s \in Reads' : LogEntries(s.log)' \subseteq
            LogEntries(numbers.log) \cup UNION {LogEntries(r.log) : r \in Reads}
      BY <1>2, <1>4, <1>7, <1>8
    <3>3. UNION {LogEntries(s.log)' : s \in Reads'} \subseteq
            LogEntries(numbers.log) \cup UNION {LogEntries(r.log) : r \in Reads}
      BY <3>2
    <3>4. UpTo(numbers.sequence, Visible)'  BY <1>1, <1>6, <3>1 DEF UpTo
    <3>5. \A e \in LogEntries(numbers.log)' \cup UNION {LogEntries(s.log)' : s \in Reads'} :
            e.seq <= numbers'.sequence \/ (writing' # None /\ e = writing'.entry)
      BY <1>1, <1>6, <3>1, <3>3
    <3> QED BY <3>4, <3>5 DEF OpenSequences
  <2>5. Latest'.sequence <= numbers'.sequence  BY <1>1, <1>7, <1>8, <1>12
  <2> QED BY <2>1, <2>2, <2>3, <2>4, <2>5 DEF SequenceInv
<1>15. SourceInv'
  <2>1. edit.record.add \subseteq new.files  BY <1>8
  <2> QED BY <1>1, <1>2, <1>6, <1>7, <2>1 DEF SourceInv
<1>16. Contents' = Contents /\ Contents = Visible  BY <1>1, <1>6 DEF Contents
<1>17. StoreInv'
  <2> SUFFICES ASSUME counts'.skips = 0
               PROVE  PromiseInv' /\ RecoveredInv' /\ ServedInv' /\ WritingInv'
    BY <1>1 DEF StoreInv
  <2>1. PromiseInv /\ ServedInv /\ WritingInv  BY <1>1, <1>2 DEF ContentsInv, StoreInv
  <2>2. /\ \A s \in Reads : EntriesOf(version) \subseteq EntriesOf(s.files)
        /\ mem \ doubtful \subseteq Written(numbers.logfile)
        /\ durable \cap mem \subseteq Lasting(numbers.logfile)
        /\ imm # None => /\ imm \ doubtful \subseteq LogEntries(numbers.log) \cap Found(Latest)
                         /\ durable \cap imm \subseteq LastingEntries(numbers.log)
        /\ LogEntries(numbers.log) \subseteq Visible \cup doubtful
    BY <2>1 DEF ServedInv
  <2>3. /\ durable \subseteq acknowledged /\ acknowledged \subseteq Visible
        /\ \A s \in Reads : durable \subseteq Kept(s) /\ Found(s) \subseteq Visible \cup doubtful
    BY <1>16, <2>1 DEF PromiseInv
  <2>4. EntriesOf(version) \subseteq EntriesOf(new.files)  BY <1>2, <1>9, <2>2
  <2>5. imm # None => \/ imm \subseteq EntriesOf(new.files)
                      \/ /\ durable \cap imm \subseteq LastingEntries(new.log)
                         /\ imm \ doubtful \subseteq LogEntries(new.log)
    <3>1. CASE edit.by = "flush"
      BY <1>2, <1>9, <3>1
    <3>2. CASE edit.by = "compaction"
      BY <1>2, <1>8, <2>2, <3>2
    <3> QED BY <1>2, <3>1, <3>2
  <2>6. durable \cap mem \subseteq LastingEntries(new.log)
    BY <1>2, <1>8, <2>2 DEF LastingEntries
  <2>7. durable \subseteq Kept(new)  BY <2>3, <2>4, <2>5, <2>6 DEF Visible, Kept
  <2>8. Found(new) \subseteq Visible \cup doubtful  BY <1>2, <1>10, <2>2, <2>3
  <2>9. PromiseInv'
    <3>1. ASSUME NEW s \in Reads' PROVE durable' \subseteq Kept(s)' /\ Found(s)' \subseteq Contents' \cup doubtful'
      <4>1. durable \subseteq Kept(s) /\ Found(s) \subseteq Visible \cup doubtful
        BY <1>7, <2>3, <2>7, <2>8
      <4> QED BY <1>1, <1>5, <1>16, <4>1
    <3> QED BY <1>1, <1>16, <2>3, <3>1 DEF PromiseInv
  <2>10. ServedInv'
    <3>1. \A s \in Reads' : EntriesOf(version) \subseteq EntriesOf(s.files)  BY <1>7, <2>2, <2>4
    <3>2. \A s \in Reads' : EntriesOf(version)' \subseteq EntriesOf(s.files)'
      BY <1>4, <1>6, <3>1
    <3>3. imm # None => imm \ doubtful \subseteq Found(new)  BY <2>5 DEF Found
    <3>4. Found(Latest)' = Found(new)
      <4>1. Found(Latest)' = EntriesOf(Latest.files)' \cup LogEntries(Latest.log)'  BY DEF Found
      <4>2. EntriesOf(Latest.files)' = EntriesOf(new.files)  BY <1>1, <1>7 DEF EntriesOf
      <4>3. LogsFrom(Latest.log)' = LogsFrom(new.log)  BY <1>1, <1>7 DEF LogsFrom
      <4>4. LogEntries(Latest.log)' = LogEntries(new.log)  BY <1>4, <4>3 DEF LogEntries
      <4> QED BY <4>1, <4>2, <4>4 DEF Found
    <3> QED BY <1>1, <1>6, <2>2, <3>2, <3>3, <3>4 DEF ServedInv
  <2>11. WritingInv'  BY <1>1, <1>6, <2>1 DEF WritingInv, SoundLog
  <2> QED BY <1>1, <2>9, <2>10, <2>11 DEF RecoveredInv
<1>18. StoreStep  BY <1>1, <1>16 DEF StoreStep, Store!vars
<1> QED BY <1>11, <1>14, <1>15, <1>17, <1>18 DEF ContentsInv, AgesInv

(* A record in the MANIFEST. *)
LEMMA WriteManifestStores ==
  ASSUME Given, Options, DiskInv, TailInv, ContentsInv, WriteManifest
  PROVE  ContentsInv' /\ StoreStep
<1>1. /\ edit # None /\ edit.step = "write" /\ edit' # None /\ edit'.record = edit.record
      /\ UNCHANGED <<current, logs, tables, phase, version, numbers, mem, imm, recovering,
                     history>>
  BY WriteManifestIs
<1>2. phase \in {"save", "open"} /\ current # None /\ edit.record \in VersionEdit
  BY <1>1, EditIs
<1>3. DiskInv'  BY WriteManifestKeeps
<1>4. CASE phase = "open"
  BY <1>4, WriteManifestOpenStores
<1>5. CASE phase = "save" /\ edit.fresh
  <2>0. counts' = counts  BY <1>5 DEF WriteManifest
  <2>1. Reads' = Reads /\ Latest' = Latest  BY <1>5, WriteManifestIs
  <2>2. Reads' \subseteq Reads  BY <2>1
  <2>3. phase' = "save"  BY <1>1, <1>5
  <2> QED BY <1>1, <1>3, <1>5, <2>0, <2>1, <2>2, <2>3, SavingStays
<1>6. CASE phase = "save" /\ ~edit.fresh
  <2>1. /\ Latest' = Applied(Latest, edit.record)
        /\ Reads' \subseteq Reads \cup {Latest'}
        /\ counts' = counts
    <3>1. reuse_logs /\ current \in DOMAIN manifests /\ numbers.manifest = current
      BY <1>1, <1>2, <1>6, EditIs DEF DiskInv, ReadsInv, FilesInv, RunningInv, Running
    <3>2. manifests[current].tail = "sound"  BY <3>1 DEF TailInv, ReusedTails
    <3>3. RecordIsRead  BY <1>6, <3>2, WriteManifestIs DEF RecordIsDropped
    <3>4. counts' = [counts EXCEPT !.skips = counts.skips] /\ counts \in Counts
      BY <1>6, <3>1, <3>2 DEF WriteManifest, DiskInv, Types, HistoryTypes
    <3> QED BY <3>3, <3>4 DEF RecordIsRead, Counts
  <2>2. ~Committed  BY <1>1 DEF Committed
  <2>3. Latest.files = version /\ edit.record.del = {}  BY <1>6, <2>2, SavingIs
  <2>4. edit.record.log # None /\ edit.record.sequence # None
    BY <1>2 DEF VersionEdit, NoneAssumption
  <2>5. /\ Latest'.files = version \cup edit.record.add
        /\ Latest'.log = edit.record.log /\ Latest'.sequence = edit.record.sequence
    <3>1. version \ {} = version  OBVIOUS
    <3> QED BY <2>1, <2>3, <2>4, <3>1 DEF Applied
  <2>6. current' # None /\ phase' = "save"  BY <1>1, <1>2, <1>6
  <2> QED BY <1>1, <1>3, <1>6, <2>1, <2>2, <2>5, <2>6, SavedStores
<1> QED BY <1>2, <1>4, <1>5, <1>6

(* The MANIFEST is synced: there is one reading. *)
LEMMA SyncManifestStores ==
  ASSUME Given, Options, DiskInv, ContentsInv, SyncManifest
  PROVE  ContentsInv' /\ StoreStep
<1>1. /\ edit # None /\ edit.step = "sync" /\ edit' # None
      /\ edit'.step = (IF edit.fresh THEN "current" ELSE "install")
      /\ edit'.by = edit.by /\ edit'.fresh = edit.fresh /\ edit'.record = edit.record
      /\ UNCHANGED <<current, logs, tables, phase, version, numbers, mem, imm, recovering,
                     writing, history, counts>>
      /\ Latest' = Latest
  BY SyncManifestIs
<1>2. phase \in {"save", "open"} /\ current # None /\ edit.fresh \in BOOLEAN  BY <1>1, EditIs
<1>3. DiskInv'  BY SyncManifestKeeps
<1>4. Reads' \subseteq Reads
  <2>1. Latest \in Reads  BY <1>2, ReadingsAre DEF DiskInv
  <2>2. CASE edit.fresh
    BY <2>2, SyncManifestIs
  <2>3. CASE ~edit.fresh
    BY <2>1, <2>3, SyncManifestIs
  <2> QED BY <2>2, <2>3
<1>5. CASE phase = "save"
  <2>1. phase' = "save"  BY <1>1, <1>5
  <2> QED BY <1>1, <1>3, <1>4, <1>5, <2>1, SavingStays
<1>6. CASE phase = "open"
  <2>1. /\ \A n : EntriesOf(n)' = EntriesOf(n)
        /\ \A n : LogEntries(n)' = LogEntries(n) /\ LastingEntries(n)' = LastingEntries(n)
        /\ \A l : Written(l)' = Written(l) /\ Lasting(l)' = Lasting(l)
    BY <1>1, TablesStay, LogsStay
  <2>2. /\ EntriesOf(version)' = EntriesOf(version)
        /\ EntriesOf(edit.record.add)' = EntriesOf(edit.record.add)
        /\ EntriesOf(edit.record.del)' = EntriesOf(edit.record.del)
        /\ EntriesOf(version \cup edit.record.add)' = EntriesOf(version \cup edit.record.add)
    BY <1>1 DEF EntriesOf
  <2>3. /\ LogEntries(numbers.log)' = LogEntries(numbers.log)
        /\ LastingEntries(numbers.log)' = LastingEntries(numbers.log)
        /\ Written(numbers.logfile)' = Written(numbers.logfile)
        /\ Lasting(numbers.logfile)' = Lasting(numbers.logfile)
    BY <1>1, <2>1
  <2>4. Committed' => Committed  BY <1>1 DEF Committed
  <2>5. SourceInv'  BY <1>1, <1>6, <2>2, <2>4 DEF ContentsInv, SourceInv
  <2>6. EditSequences'  BY <1>1, <2>2 DEF ContentsInv, AgesInv, SequenceInv, EditSequences, UpTo
  <2>7. phase' = "open" /\ (SoundLog' => SoundLog)  BY <1>1, <1>6 DEF SoundLog
  <2> QED BY <1>1, <1>4, <1>6, <2>1, <2>2, <2>3, <2>5, <2>6, <2>7, SameStore
<1> QED BY <1>2, <1>5, <1>6

(* CURRENT names the new MANIFEST, which says what the old one and the logs do. *)
LEMMA SetCurrentFileStores ==
  ASSUME Given, Options, DiskInv, ContentsInv, SetCurrentFile
  PROVE  ContentsInv' /\ StoreStep
<1>1. /\ edit # None /\ edit.step = "current" /\ edit.by = "open" /\ edit' # None
      /\ edit'.record = edit.record
      /\ UNCHANGED <<logs, tables, phase, version, numbers, mem, imm, recovering, history, counts>>
      /\ current' # None /\ Reads' = {Latest'}
      /\ Latest'.files = version \cup edit.record.add /\ Latest'.log = edit.record.log
      /\ Latest'.sequence = edit.record.sequence
  BY SetCurrentFileIs
<1>2. DiskInv'  BY SetCurrentFileKeeps
<1>3. phase = "save" /\ phase' = "save"  BY <1>1 DEF DiskInv, FilesInv, EditInv
<1>4. ~Committed  BY <1>1 DEF Committed
<1>5. Reads' \subseteq Reads \cup {Latest'}  BY <1>1
<1> QED BY <1>1, <1>2, <1>3, <1>4, <1>5, SavedStores

(* LogAndApply fails: what may be read stays. *)
LEMMA LogAndApplyFailsStores ==
  ASSUME Given, Options, DiskInv, ContentsInv, LogAndApplyFails
  PROVE  ContentsInv' /\ StoreStep
<1>1. /\ edit # None /\ edit.step # "install"
      /\ counts' = [counts EXCEPT !.errors = @ + 1]
      /\ manifests' = IF edit.fresh THEN Without(manifests, numbers.manifest)
                      ELSE IF edit.step = "write"
                      THEN [manifests EXCEPT ![numbers.manifest] = AfterFailure(manifests[numbers.manifest])]
                      ELSE manifests
      /\ UNCHANGED <<current, logs, tables, history>>
  BY DEF LogAndApplyFails, Fail, history
<1>2. /\ phase \in {"save", "open"} /\ current # None
      /\ edit.fresh => numbers.manifest # current
      /\ ~edit.fresh => numbers.manifest = current
      /\ edit.by \in {"open", "flush", "compaction"}
  BY <1>1, EditIs
<1>3. DiskInv'  BY LogAndApplyFailsKeeps
<1>4. Reads' = Reads /\ Latest' = Latest
  <2>1. current \in DOMAIN manifests /\ manifests[current] \in FileOf(EditRecord)
    BY <1>2 DEF DiskInv, ReadsInv, Types, DiskTypes, Files
  <2>2. \/ manifests'[current] = manifests[current]
        \/ manifests'[current] = AfterFailure(manifests[current])
    BY <1>1, <1>2, <2>1 DEF Without
  <2>3. /\ manifests'[current].records = manifests[current].records
        /\ manifests'[current].synced = manifests[current].synced
    BY <2>1, <2>2, FailureIs
  <2> QED BY <1>1, <2>3, ReadsOfRecords DEF Reads, Latest
<1>5. counts'.skips = counts.skips  BY <1>1 DEF DiskInv, Types, HistoryTypes, Counts
<1>6. phase = IF edit.by = "open" THEN "save" ELSE "open"
  BY <1>1 DEF DiskInv, FilesInv, EditInv
<1>7. CASE edit.by = "open"
  <2>1. ToClosed /\ phase # "open"  BY <1>6, <1>7 DEF LogAndApplyFails
  <2> QED BY <1>1, <1>2, <1>3, <1>4, <1>5, <2>1, ClosingStores
<1>8. CASE edit.by # "open"
  <2>1. /\ edit' = None /\ phase = "open"
        /\ UNCHANGED <<phase, version, numbers, mem, imm, writing>>
    BY <1>6, <1>8 DEF LogAndApplyFails
  <2>2. /\ \A n : EntriesOf(n)' = EntriesOf(n)
        /\ \A n : LogEntries(n)' = LogEntries(n) /\ LastingEntries(n)' = LastingEntries(n)
        /\ \A l : Written(l)' = Written(l) /\ Lasting(l)' = Lasting(l)
    BY <1>1, TablesStay, LogsStay
  <2>3. /\ EntriesOf(version)' = EntriesOf(version)
        /\ LogEntries(numbers.log)' = LogEntries(numbers.log)
        /\ LastingEntries(numbers.log)' = LastingEntries(numbers.log)
        /\ Written(numbers.logfile)' = Written(numbers.logfile)
        /\ Lasting(numbers.logfile)' = Lasting(numbers.logfile)
    <3>1. EntriesOf(version)' = EntriesOf(version)  BY <1>1, <2>1 DEF EntriesOf
    <3> QED BY <2>1, <2>2, <3>1
  <2>4. SourceInv' /\ EditSequences'  BY <2>1 DEF SourceInv, EditSequences
  <2>5. phase' = "open" /\ Reads' \subseteq Reads /\ (SoundLog' => SoundLog)
    BY <1>1, <1>4, <2>1 DEF SoundLog
  <2> QED BY <1>1, <1>4, <1>5, <2>1, <2>2, <2>3, <2>4, <2>5, SameStore
<1> QED BY <1>7, <1>8

(* InstallVersion: the record is on the disk. *)
LEMMA InstallVersionIs ==
  ASSUME NoneAssumption, DiskInv, InstallVersion
  PROVE  /\ edit # None /\ current # None /\ Committed /\ Reads = {Latest}
         /\ edit.by \in {"open", "flush", "compaction"}
         /\ Reads' = Reads /\ Latest' = Latest
         /\ version' = (version \ edit.record.del) \cup edit.record.add
         /\ numbers' \in Numbers /\ numbers \in Numbers /\ numbers'.log = edit.record.log
         /\ numbers'.logfile = numbers.logfile /\ numbers'.sequence = numbers.sequence
         /\ phase' = "open" /\ edit' = None
         /\ imm' = (IF edit.by = "flush" THEN None ELSE imm)
         /\ doubtful' = (IF edit.by = "open" THEN {} ELSE doubtful)
         /\ UNCHANGED <<current, manifests, logs, tables, mem, writing, acknowledged, durable, counts>>
         /\ \A n : EntriesOf(n)' = EntriesOf(n)
         /\ \A n : LogEntries(n)' = LogEntries(n) /\ LastingEntries(n)' = LastingEntries(n)
         /\ \A l : Written(l)' = Written(l) /\ Lasting(l)' = Lasting(l)
         /\ \A s : Found(s)' = Found(s) /\ Kept(s)' = Kept(s)
<1>1. /\ edit # None /\ edit.step = "install"
      /\ version' = (version \ edit.record.del) \cup edit.record.add
      /\ numbers' = [numbers EXCEPT !.log = edit.record.log]
      /\ phase' = "open" /\ edit' = None
      /\ imm' = (IF edit.by = "flush" THEN None ELSE imm)
      /\ doubtful' = (IF edit.by = "open" THEN {} ELSE doubtful)
      /\ UNCHANGED <<current, manifests, logs, tables, mem, writing, acknowledged, durable, counts>>
  BY DEF InstallVersion, disk
<1>2. current # None /\ edit.by \in {"open", "flush", "compaction"} /\ edit.record.log \in Nat /\ numbers \in Numbers
  BY <1>1, EditIs
<1>3. Committed /\ Reads = {Latest}  BY <1>1 DEF Committed, DiskInv, FilesInv, SettledInv
<1>4. Reads' = Reads /\ Latest' = Latest  BY <1>1 DEF Reads, Latest
<1>5. /\ numbers'.log = edit.record.log /\ numbers' \in Numbers
      /\ numbers'.logfile = numbers.logfile /\ numbers'.sequence = numbers.sequence
  BY <1>1, <1>2 DEF Numbers
<1>6. /\ \A n : EntriesOf(n)' = EntriesOf(n)
      /\ \A n : LogEntries(n)' = LogEntries(n) /\ LastingEntries(n)' = LastingEntries(n)
      /\ \A l : Written(l)' = Written(l) /\ Lasting(l)' = Lasting(l)
  BY <1>1, TablesStay, LogsStay
<1>7. \A s : Found(s)' = Found(s) /\ Kept(s)' = Kept(s)  BY <1>6 DEF Found, Kept
<1> QED BY <1>1, <1>2, <1>3, <1>4, <1>5, <1>6, <1>7

(* The open is done: readers find what was recovered. *)
LEMMA InstallOpens ==
  ASSUME Given, Options, DiskInv, ContentsInv, InstallVersion,
         edit.by = "open"
  PROVE  ContentsInv' /\ StoreStep
<1>1. /\ edit # None /\ current # None /\ Committed /\ Reads = {Latest}
      /\ Reads' = Reads /\ Latest' = Latest
      /\ version' = (version \ edit.record.del) \cup edit.record.add
      /\ numbers'.log = edit.record.log
      /\ numbers'.logfile = numbers.logfile /\ numbers'.sequence = numbers.sequence
      /\ phase' = "open" /\ edit' = None /\ doubtful' = {} /\ imm' = imm
      /\ UNCHANGED <<current, mem, writing, acknowledged, durable, counts>>
  BY InstallVersionIs
<1>2. /\ \A n : EntriesOf(n)' = EntriesOf(n)
      /\ \A n : LogEntries(n)' = LogEntries(n) /\ LastingEntries(n)' = LastingEntries(n)
      /\ \A l : Written(l)' = Written(l) /\ Lasting(l)' = Lasting(l)
      /\ \A s : Found(s)' = Found(s) /\ Kept(s)' = Kept(s)
  BY InstallVersionIs
<1>3. phase = "save"  BY <1>1 DEF DiskInv, FilesInv, EditInv
<1>4. /\ imm = None /\ writing = None /\ edit.record.del = {} /\ edit.record.log = numbers.logfile
      /\ Latest \in Reads /\ LogsFrom(numbers.logfile) = {numbers.logfile}
      /\ mem = Written(numbers.logfile)
      /\ Latest.files = version \cup edit.record.add /\ Latest.log = numbers.logfile
  BY <1>1, <1>3, SavingIs
<1>5. version' = Latest.files /\ Types  BY <1>1, <1>4 DEF DiskInv
<1>6. /\ LogEntries(numbers.logfile) = mem /\ LastingEntries(numbers.logfile) = Lasting(numbers.logfile)
  BY <1>4 DEF LogEntries, LastingEntries
<1>7. /\ Found(Latest) = EntriesOf(Latest.files) \cup mem
      /\ Kept(Latest) = EntriesOf(Latest.files) \cup Lasting(numbers.logfile)
  BY <1>4, <1>6 DEF Found, Kept
<1>8. EntriesOf(version)' = EntriesOf(Latest.files)
  <2>1. EntriesOf(version)' = EntriesOf(Latest.files)'  BY <1>1, <1>5 DEF EntriesOf
  <2>2. EntriesOf(Latest.files)' = EntriesOf(Latest.files)  BY <1>1, <1>2
  <2> QED BY <2>1, <2>2
<1>9. Visible' = Found(Latest)  BY <1>1, <1>4, <1>7, <1>8 DEF Visible
<1>10. Contents' = Found(Latest) /\ Contents = Found(Latest)
  BY <1>1, <1>3, <1>9, RecoverableIs DEF Contents
<1>11. LogEntries(numbers.log)' = mem  BY <1>1, <1>2, <1>4, <1>6
<1>12. OrderInv'
  <2>1. FoundByAny' = Found(Latest) /\ FoundByAny = Found(Latest)  BY <1>1, <1>2 DEF FoundByAny
  <2>2. Logged' = mem /\ UnderWay' = {}  BY <1>1, <1>4, <1>11 DEF Logged, UnderWay
  <2>3. Known' \subseteq Known  BY <1>1, <1>7, <1>9, <2>1, <2>2 DEF Known
  <2> QED BY <2>3 DEF ContentsInv, AgesInv, OrderInv
<1>13. SequenceInv'
  <2>1. /\ ReadSequences /\ UpTo(numbers.sequence, mem)
        /\ edit.record.sequence <= numbers.sequence
        /\ UpTo(edit.record.sequence, EntriesOf(version \cup edit.record.add))
        /\ Latest.sequence <= numbers.sequence
    BY <1>1, <1>3 DEF ContentsInv, AgesInv, SequenceInv, RecoverySequences, EditSequences, Running
  <2>2. ReadSequences'  BY <1>1, <1>2, <2>1 DEF ReadSequences, UpTo
  <2>3. UpTo(numbers.sequence, EntriesOf(Latest.files))
    <3>1. UpTo(edit.record.sequence, EntriesOf(Latest.files))  BY <1>4, <2>1
    <3>2. edit.record.sequence \in Nat /\ numbers.sequence \in Nat  BY <1>1, EditIs DEF Numbers
    <3>3. \A e \in EntriesOf(Latest.files) : e.seq \in Nat
      <4>1. Latest.files \subseteq DOMAIN tables  BY <1>1, ReadingsAre DEF DiskInv, GoodRead
      <4> QED BY <1>5, <4>1, EntriesAreIssued
    <3> QED BY <2>1, <3>1, <3>2, <3>3, UpToMore
  <2>4. UpTo(numbers.sequence, Found(Latest))  BY <1>7, <2>1, <2>3 DEF UpTo
  <2>5. OpenSequences'
    <3>1. UpTo(numbers.sequence, Visible)'  BY <1>1, <1>9, <2>4 DEF UpTo
    <3>2. \A s \in Reads' : LogEntries(s.log)' = mem  BY <1>1, <1>2, <1>4, <1>6
    <3>3. \A e \in mem : e.seq <= numbers'.sequence  BY <1>1, <2>1 DEF UpTo
    <3>4. UNION {LogEntries(s.log)' : s \in Reads'} \subseteq mem  BY <3>2
    <3> QED BY <1>11, <3>1, <3>3, <3>4 DEF OpenSequences
  <2>6. RecoverySequences' /\ EditSequences' /\ WriterSequence'
    BY <1>1, <1>4 DEF RecoverySequences, EditSequences, WriterSequence
  <2> QED BY <1>1, <2>1, <2>2, <2>5, <2>6 DEF SequenceInv
<1>14. SourceInv'  BY <1>1 DEF SourceInv
<1>15. StoreInv'
  <2> SUFFICES ASSUME counts.skips = 0
               PROVE  PromiseInv' /\ RecoveredInv' /\ ServedInv' /\ WritingInv'
    BY <1>1 DEF StoreInv
  <2>1. PromiseInv  BY <1>1 DEF ContentsInv, StoreInv
  <2>2. PromiseInv'
    <3>1. ASSUME NEW s \in Reads' PROVE durable' \subseteq Kept(s)' /\ Found(s)' \subseteq Contents' \cup doubtful'
      <4>1. s = Latest  BY <1>1
      <4>2. Kept(s)' = Kept(Latest) /\ Found(s)' = Found(Latest)  BY <1>2, <4>1
      <4> QED BY <1>1, <1>4, <1>10, <2>1, <4>2 DEF PromiseInv
    <3> QED BY <1>1, <1>10, <2>1, <3>1 DEF PromiseInv
  <2>3. durable \cap mem \subseteq Lasting(numbers.logfile)
    <3>1. CASE reuse_logs
      BY <1>4, <1>5, <3>1, LastingIsWritten DEF Options
    <3>2. CASE ~reuse_logs
      BY <1>3, <3>2 DEF ContentsInv, SourceInv
    <3> QED BY <3>1, <3>2
  <2>4. ServedInv'
    <3>1. \A s \in Reads' : EntriesOf(version)' \subseteq EntriesOf(s.files)'
      BY <1>1, <1>2, <1>8
    <3>2. /\ Written(numbers.logfile)' = Written(numbers.logfile)
          /\ Lasting(numbers.logfile)' = Lasting(numbers.logfile)
      BY <1>1, <1>2
    <3>3. LogEntries(numbers.log)' \subseteq Visible'  BY <1>7, <1>9, <1>11
    <3> QED BY <1>1, <1>4, <2>3, <3>1, <3>2, <3>3 DEF ServedInv
  <2> QED BY <1>1, <1>4, <2>2, <2>4 DEF RecoveredInv, WritingInv
<1>16. Store!Open  BY <1>1, <1>10 DEF Store!Open
<1>17. StoreStep  BY <1>16 DEF StoreStep, Store!Next
<1> QED BY <1>12, <1>13, <1>14, <1>15, <1>17 DEF ContentsInv, AgesInv

(* The tables of a flush or a compaction are in the version instead of what
   they were made of. *)
LEMMA InstallServes ==
  ASSUME Given, Options, DiskInv, ContentsInv, InstallVersion,
         edit.by # "open"
  PROVE  ContentsInv' /\ StoreStep
<1>1. /\ edit # None /\ current # None /\ Committed /\ Reads = {Latest}
      /\ edit.by \in {"open", "flush", "compaction"}
      /\ Reads' = Reads /\ Latest' = Latest
      /\ version' = (version \ edit.record.del) \cup edit.record.add
      /\ numbers'.log = edit.record.log
      /\ numbers'.logfile = numbers.logfile /\ numbers'.sequence = numbers.sequence
      /\ phase' = "open" /\ edit' = None /\ doubtful' = doubtful
      /\ imm' = (IF edit.by = "flush" THEN None ELSE imm)
      /\ UNCHANGED <<current, logs, mem, writing, acknowledged, durable, counts>>
  BY InstallVersionIs
<1>2. /\ \A n : EntriesOf(n)' = EntriesOf(n)
      /\ \A n : LogEntries(n)' = LogEntries(n) /\ LastingEntries(n)' = LastingEntries(n)
      /\ \A l : Written(l)' = Written(l) /\ Lasting(l)' = Lasting(l)
      /\ \A s : Found(s)' = Found(s) /\ Kept(s)' = Kept(s)
  BY InstallVersionIs
<1>3. phase = "open"  BY <1>1 DEF DiskInv, FilesInv, EditInv
<1>4. /\ Latest \in Reads /\ edit.by \in {"flush", "compaction"}
      /\ edit.by = "flush" => edit.record.del = {} /\ imm # None
      /\ edit.by = "compaction" => edit.record.del \subseteq version
      /\ EntriesOf(edit.record.add) = IF edit.by = "flush" THEN imm ELSE EntriesOf(edit.record.del)
      /\ edit.record.log = IF edit.by = "flush" THEN numbers.logfile ELSE numbers.log
      /\ LogEntries(edit.record.log) \subseteq LogEntries(numbers.log)
      /\ numbers.logfile \in LogsFrom(edit.record.log)
  BY <1>1, <1>3, OpenEditIs
<1>5. counts.skips = 0 => edit.record.add \subseteq Latest.files
  BY <1>1, <1>3 DEF ContentsInv, SourceInv
<1> DEFINE new == (version \ edit.record.del) \cup edit.record.add
<1>6. EntriesOf(version)' = EntriesOf(new)  BY <1>1, <1>2 DEF EntriesOf
<1>7. EntriesOf(new) = EntriesOf(version) \cup EntriesOf(edit.record.add)
  <2>1. /\ EntriesOf(new) \subseteq EntriesOf(version) \cup EntriesOf(edit.record.add)
        /\ EntriesOf(version) \cup EntriesOf(edit.record.add) \subseteq EntriesOf(new) \cup EntriesOf(edit.record.del)
        /\ EntriesOf(edit.record.add) \subseteq EntriesOf(new)
    BY DEF EntriesOf
  <2>2. EntriesOf(edit.record.del) \subseteq EntriesOf(edit.record.add)
    <3>1. EntriesOf({}) = {}  BY DEF EntriesOf
    <3> QED BY <1>4, <3>1
  <2> QED BY <2>1, <2>2
<1> HIDE DEF new
<1>8. Visible' = Visible
  <2>1. CASE edit.by = "flush"
    <3>1. Visible = mem \cup imm \cup EntriesOf(version)  BY <1>4, <2>1 DEF Visible
    <3>2. Visible' = mem \cup EntriesOf(new)  BY <1>1, <1>6, <2>1 DEF Visible
    <3> QED BY <1>4, <1>7, <2>1, <3>1, <3>2
  <2>2. CASE edit.by = "compaction"
    <3>1. EntriesOf(edit.record.add) \subseteq EntriesOf(version)  BY <1>4, <2>2 DEF EntriesOf
    <3>2. EntriesOf(new) = EntriesOf(version)  BY <1>7, <3>1
    <3> QED BY <1>1, <1>6, <2>2, <3>2 DEF Visible
  <2> QED BY <1>4, <2>1, <2>2
<1>9. Contents' = Visible /\ Contents = Visible  BY <1>1, <1>3, <1>8 DEF Contents
<1>10. LogEntries(numbers.log)' \subseteq LogEntries(numbers.log)  BY <1>1, <1>2, <1>4
<1>11. OrderInv'
  <2>1. FoundByAny' = FoundByAny  BY <1>1, <1>2 DEF FoundByAny
  <2>2. Logged' \subseteq Logged /\ UnderWay' = UnderWay
    BY <1>1, <1>3, <1>10 DEF Logged, UnderWay
  <2>3. Known' \subseteq Known  BY <1>1, <1>8, <2>1, <2>2 DEF Known
  <2> QED BY <2>3 DEF ContentsInv, AgesInv, OrderInv
<1>12. SequenceInv'
  <2>1. ReadSequences /\ OpenSequences /\ WriterSequence /\ Latest.sequence <= numbers.sequence
    BY <1>3 DEF ContentsInv, AgesInv, SequenceInv, Running
  <2>2. ReadSequences'  BY <1>1, <1>2, <2>1 DEF ReadSequences, UpTo
  <2>3. OpenSequences'
    <3>1. UpTo(numbers.sequence, Visible)'  BY <1>1, <1>3, <1>8, <2>1 DEF OpenSequences, UpTo
    <3>2. \A s \in Reads' : LogEntries(s.log)' = LogEntries(s.log)  BY <1>2
    <3>3. UNION {LogEntries(s.log)' : s \in Reads'} \subseteq UNION {LogEntries(s.log) : s \in Reads}
      BY <1>1, <3>2
    <3>4. \A e \in LogEntries(numbers.log) \cup UNION {LogEntries(s.log) : s \in Reads} :
             e.seq <= numbers.sequence \/ (writing # None /\ e = writing.entry)
      BY <1>3, <2>1 DEF OpenSequences
    <3>5. \A e \in LogEntries(numbers.log)' \cup UNION {LogEntries(s.log)' : s \in Reads'} :
             e.seq <= numbers'.sequence \/ (writing' # None /\ e = writing'.entry)
      BY <1>1, <1>10, <3>3, <3>4
    <3> QED BY <3>1, <3>5 DEF OpenSequences
  <2>4. RecoverySequences' /\ EditSequences' /\ WriterSequence'
    BY <1>1, <2>1 DEF RecoverySequences, EditSequences, WriterSequence
  <2> QED BY <1>1, <2>1, <2>2, <2>3, <2>4 DEF SequenceInv
<1>13. SourceInv'  BY <1>1 DEF SourceInv
<1>14. StoreInv'
  <2> SUFFICES ASSUME counts.skips = 0
               PROVE  PromiseInv' /\ RecoveredInv' /\ ServedInv' /\ WritingInv'
    BY <1>1 DEF StoreInv
  <2>1. PromiseInv /\ ServedInv /\ WritingInv  BY <1>1 DEF ContentsInv, StoreInv
  <2>2. PromiseInv'  BY <1>1, <1>2, <1>9, <2>1 DEF PromiseInv
  <2>3. ServedInv'
    <3>1. \A s \in Reads' : EntriesOf(version)' \subseteq EntriesOf(s.files)'
      <4>1. EntriesOf(version) \subseteq EntriesOf(Latest.files)
        BY <1>3, <1>4, <2>1 DEF ServedInv
      <4>2. EntriesOf(new) \subseteq EntriesOf(Latest.files)
        <5>1. EntriesOf(edit.record.add) \subseteq EntriesOf(Latest.files)
          BY <1>5 DEF EntriesOf
        <5> QED BY <1>7, <4>1, <5>1
      <4> QED BY <1>1, <1>2, <1>6, <4>2
    <3>2. /\ Written(numbers.logfile)' = Written(numbers.logfile)
          /\ Lasting(numbers.logfile)' = Lasting(numbers.logfile)
      BY <1>1, <1>2
    <3>3. imm' # None => imm' = imm /\ numbers'.log = numbers.log  BY <1>1, <1>4
    <3>4. numbers'.log = numbers.log => /\ LogEntries(numbers.log)' = LogEntries(numbers.log)
                                        /\ LastingEntries(numbers.log)' = LastingEntries(numbers.log)
      BY <1>2
    <3>5. Found(Latest)' = Found(Latest)  BY <1>1, <1>2
    <3>6. LogEntries(numbers.log) \subseteq Visible \cup doubtful  BY <1>3, <2>1 DEF ServedInv
    <3>7. LogEntries(numbers.log)' \subseteq Visible' \cup doubtful'  BY <1>1, <1>8, <1>10, <3>6
    <3>8. /\ mem' \ doubtful' \subseteq Written(numbers.logfile)'
          /\ durable' \cap mem' \subseteq Lasting(numbers.logfile)'
      BY <1>1, <1>3, <2>1, <3>2 DEF ServedInv
    <3>9. imm' # None => /\ imm' \ doubtful' \subseteq LogEntries(numbers.log)' \cap Found(Latest)'
                         /\ durable' \cap imm' \subseteq LastingEntries(numbers.log)'
      BY <1>1, <1>3, <2>1, <3>3, <3>4, <3>5 DEF ServedInv
    <3> QED BY <3>1, <3>7, <3>8, <3>9 DEF ServedInv
  <2>4. WritingInv'
    <3>1. /\ Written(numbers.logfile)' = Written(numbers.logfile)
          /\ Lasting(numbers.logfile)' = Lasting(numbers.logfile)
      BY <1>1, <1>2
    <3> QED BY <1>1, <2>1, <3>1 DEF WritingInv, SoundLog
  <2> QED BY <1>1, <2>2, <2>3, <2>4 DEF RecoveredInv
<1>15. StoreStep  BY <1>1, <1>9 DEF StoreStep, Store!vars
<1> QED BY <1>11, <1>12, <1>13, <1>14, <1>15 DEF ContentsInv, AgesInv

(* InstallVersion. *)
LEMMA InstallVersionStores ==
  ASSUME Given, Options, DiskInv, ContentsInv, InstallVersion
  PROVE  ContentsInv' /\ StoreStep
  BY InstallOpens, InstallServes

(* NewLog, with an edit or without. *)
LEMMA NewLogStores ==
  ASSUME Given, Options, DiskInv, ContentsInv, NewLog
  PROVE  ContentsInv' /\ StoreStep
<1>1. CASE recovering.save
  BY <1>1, NewLogSaves
<1>2. CASE ~recovering.save
  BY <1>2, NewLogOpens
<1> QED BY <1>1, <1>2

-------------------------------------------------------------------------------
(* The steps of an open database that change no log and no MANIFEST. *)

(* Tables that are in use stay as they are. *)
LEMMA ServingStays ==
  ASSUME NoneAssumption, DiskInv, ContentsInv, phase = "open",
         UNCHANGED <<current, manifests, logs, phase, version, mem, imm, durable, acknowledged,
                     doubtful, writing>>,
         numbers'.log = numbers.log, numbers'.logfile = numbers.logfile,
         numbers'.sequence = numbers.sequence, counts'.skips = counts.skips,
         \A n \in version : tables'[n] = tables[n],
         \A s \in Reads : \A n \in s.files : tables'[n] = tables[n],
         SourceInv', EditSequences'
  PROVE  ContentsInv' /\ StoreStep
<1>1. Reads' = Reads /\ Latest' = Latest  BY DEF Reads, Latest
<1>2. EntriesOf(version)' = EntriesOf(version)  BY DEF EntriesOf
<1>3. /\ \A n : LogEntries(n)' = LogEntries(n) /\ LastingEntries(n)' = LastingEntries(n)
      /\ \A l : Written(l)' = Written(l) /\ Lasting(l)' = Lasting(l)
  BY LogsStay
<1>4. \A s \in Reads : EntriesOf(s.files)' = EntriesOf(s.files)  BY TablesStay
<1>5. /\ LogEntries(numbers.log)' = LogEntries(numbers.log)
      /\ LastingEntries(numbers.log)' = LastingEntries(numbers.log)
      /\ Written(numbers.logfile)' = Written(numbers.logfile)
      /\ Lasting(numbers.logfile)' = Lasting(numbers.logfile)
  BY <1>3
<1>6. SoundLog' = SoundLog  BY DEF SoundLog
<1> QED BY <1>1, <1>2, <1>3, <1>4, <1>5, <1>6, SameStore

(* And no edit is under way. *)
LEMMA IdleStays ==
  ASSUME NoneAssumption, DiskInv, ContentsInv, phase = "open", edit' = None,
         UNCHANGED <<current, manifests, logs, phase, version, mem, imm, durable, acknowledged,
                     doubtful, writing>>,
         numbers'.log = numbers.log, numbers'.logfile = numbers.logfile,
         numbers'.sequence = numbers.sequence, counts'.skips = counts.skips,
         \A n \in version : tables'[n] = tables[n],
         \A s \in Reads : \A n \in s.files : tables'[n] = tables[n]
  PROVE  ContentsInv' /\ StoreStep
<1>1. SourceInv' /\ EditSequences'  BY DEF SourceInv, EditSequences
<1> QED BY <1>1, ServingStays

(* DeleteObsoleteFiles is done. *)
LEMMA AllDeletedStores ==
  ASSUME Given, DiskInv, ContentsInv, AllDeleted
  PROVE  ContentsInv' /\ StoreStep
<1>1. /\ obsolete
      /\ UNCHANGED <<current, manifests, logs, tables, phase, version, numbers, mem, imm, edit,
                     writing, history, counts>>
  BY DEF AllDeleted, disk, history
<1>2. phase = "open" /\ edit = None  BY <1>1, DeletingIs
<1> QED BY <1>1, <1>2, IdleStays

(* StartFlush. *)
LEMMA StartFlushStores ==
  ASSUME Given, DiskInv, ContentsInv, StartFlush
  PROVE  ContentsInv' /\ StoreStep
<1>1. /\ phase = "open" /\ edit = None /\ numbers' = [numbers EXCEPT !.next = @ + 1]
      /\ UNCHANGED <<current, manifests, logs, tables, phase, version, mem, imm, edit, writing,
                     history, counts>>
  BY DEF StartFlush, Ready, disk, history
<1>2. /\ numbers'.log = numbers.log /\ numbers'.logfile = numbers.logfile
      /\ numbers'.sequence = numbers.sequence
  BY <1>1 DEF DiskInv, Types, ProcessTypes, Numbers
<1> QED BY <1>1, <1>2, IdleStays

(* A table cannot be built. *)
LEMMA BuildTableFailsStores ==
  ASSUME Given, DiskInv, ContentsInv, BuildTableFails
  PROVE  ContentsInv' /\ StoreStep
<1>1. /\ flush # None /\ edit = None /\ counts' = [counts EXCEPT !.errors = @ + 1]
      /\ UNCHANGED <<current, manifests, logs, tables, phase, version, numbers, mem, imm, edit,
                     writing, history>>
  BY DEF BuildTableFails, Fail, disk, history
<1>2. phase = "open" /\ counts'.skips = counts.skips
  BY <1>1 DEF DiskInv, FilesInv, PhaseInv, Types, HistoryTypes, Counts
<1> QED BY <1>1, <1>2, IdleStays

(* A compaction fails. *)
LEMMA CleanupCompactionStores ==
  ASSUME Given, DiskInv, ContentsInv, CleanupCompaction
  PROVE  ContentsInv' /\ StoreStep
<1>1. /\ compaction # None /\ edit = None /\ counts' = [counts EXCEPT !.errors = @ + 1]
      /\ UNCHANGED <<current, manifests, logs, tables, phase, version, numbers, mem, imm, edit,
                     writing, history>>
  BY DEF CleanupCompaction, Fail, disk, history
<1>2. phase = "open" /\ counts'.skips = counts.skips
  BY <1>1 DEF DiskInv, FilesInv, PhaseInv, Types, HistoryTypes, Counts
<1> QED BY <1>1, <1>2, IdleStays

(* A compaction opens its output, with a new number. *)
LEMMA OpenCompactionOutputFileStores ==
  ASSUME Given, DiskInv, ContentsInv, NEW inputs,
         OpenCompactionOutputFile(inputs)
  PROVE  ContentsInv' /\ StoreStep
<1>1. /\ phase = "open" /\ edit = None /\ numbers' = [numbers EXCEPT !.next = @ + 1]
      /\ counts' = [counts EXCEPT !.compactions = @ + 1]
      /\ tables' = With(tables, numbers.next, {})
      /\ UNCHANGED <<current, manifests, logs, phase, version, mem, imm, edit, writing, history>>
  BY DEF OpenCompactionOutputFile, Ready, history
<1>2. /\ numbers'.log = numbers.log /\ numbers'.logfile = numbers.logfile
      /\ numbers'.sequence = numbers.sequence /\ counts'.skips = counts.skips
  BY <1>1 DEF DiskInv, Types, ProcessTypes, HistoryTypes, Numbers, Counts
<1>3. numbers.next \notin version /\ \A s \in Reads : numbers.next \notin s.files
  BY <1>1, NextIsNew
<1>4. \A n \in DOMAIN tables : n # numbers.next => tables'[n] = tables[n]  BY <1>1 DEF With
<1>5. version \subseteq DOMAIN tables /\ \A s \in Reads : s.files \subseteq DOMAIN tables
  <2>1. current # None /\ Running  BY <1>1, OpenIs
  <2> QED BY <2>1 DEF DiskInv, FilesInv, RunningInv, ReadsInv, GoodRead
<1> QED BY <1>1, <1>2, <1>3, <1>4, <1>5, IdleStays

(* A table for an edit: what it is made of is in use. *)
LEMMA TableMade ==
  ASSUME NoneAssumption, DiskInv, ContentsInv, phase = "open", edit = None,
         NEW t, NEW S, tables' = With(tables, t, S), S \subseteq Visible,
         t \notin version, \A s \in Reads : t \notin s.files,
         UNCHANGED <<current, manifests, logs, phase, version, numbers, mem, imm, durable,
                     acknowledged, doubtful, writing, counts>>,
         edit'.step = "write", edit'.record.add = {t}, edit'.record.sequence = numbers.sequence,
         S = IF edit'.by = "flush" THEN imm ELSE EntriesOf(edit'.record.del),
         edit'.record.del \subseteq version,
         edit'.record.log = IF edit'.by = "flush" THEN numbers.logfile ELSE numbers.log
  PROVE  ContentsInv' /\ StoreStep
<1>1. /\ version \subseteq DOMAIN tables /\ \A s \in Reads : s.files \subseteq DOMAIN tables
      /\ Running /\ current # None
  <2>1. current # None /\ Running  BY OpenIs
  <2> QED BY <2>1 DEF DiskInv, FilesInv, RunningInv, ReadsInv, GoodRead
<1>2. tables'[t] = S /\ \A n \in DOMAIN tables : n # t => tables'[n] = tables[n]  BY DEF With
<1>3. \A n \in version : tables'[n] = tables[n]  BY <1>1, <1>2
<1>4. \A s \in Reads : \A n \in s.files : tables'[n] = tables[n]  BY <1>1, <1>2
<1>5. EntriesOf(edit.record.add)' = S
  <2>1. EntriesOf(edit.record.add)' = UNION {tables'[n] : n \in edit'.record.add}
    BY DEF EntriesOf
  <2>2. UNION {tables'[n] : n \in {t}} = tables'[t]  OBVIOUS
  <2> QED BY <1>2, <2>1, <2>2
<1>6. EntriesOf(edit.record.del)' = EntriesOf(edit'.record.del)
  <2>1. PICK del : del = edit'.record.del
    OBVIOUS
  <2>2. EntriesOf(del)' = EntriesOf(del)  BY <1>3, <2>1, TablesStay
  <2>3. EntriesOf(edit.record.del)' = EntriesOf(del)'  BY <2>1 DEF EntriesOf
  <2> QED BY <2>1, <2>2, <2>3
<1>7. SourceInv'  BY <1>5, <1>6 DEF SourceInv, Committed
<1>8. EditSequences'
  <2>1. UpTo(numbers.sequence, Visible) /\ Latest.sequence <= numbers.sequence
    BY <1>1 DEF ContentsInv, AgesInv, SequenceInv, OpenSequences
  <2>2. EntriesOf(version \cup edit.record.add)' \subseteq EntriesOf(version) \cup S
    <3>1. EntriesOf(version \cup edit.record.add)' = UNION {tables'[n] : n \in version \cup {t}}
      BY DEF EntriesOf
    <3>2. EntriesOf(version) = UNION {tables[n] : n \in version}  BY DEF EntriesOf
    <3>3. \A n \in version : tables'[n] \subseteq EntriesOf(version)  BY <1>3, <3>2
    <3>4. tables'[t] = S  BY <1>2
    <3>5. ASSUME NEW e \in UNION {tables'[n] : n \in version \cup {t}}
          PROVE  e \in EntriesOf(version) \cup S
      <4>1. PICK n \in version \cup {t} : e \in tables'[n]
        BY <3>5
      <4> QED BY <3>3, <3>4, <4>1
    <3> QED BY <3>1, <3>5
  <2>3. EntriesOf(version) \subseteq Visible  BY DEF Visible
  <2>4. UpTo(numbers.sequence, EntriesOf(version \cup edit.record.add)')
    BY <2>1, <2>2, <2>3 DEF UpTo
  <2>5. Latest' = Latest /\ numbers.sequence \in Nat  BY OpenIs DEF Latest, Numbers
  <2>6. UpTo(edit'.record.sequence, EntriesOf(version \cup edit.record.add)')  BY <2>4
  <2>7. UpTo(edit.record.sequence, EntriesOf(version \cup edit.record.add))'  BY <2>6 DEF UpTo
  <2>8. /\ edit'.record.sequence <= numbers'.sequence
        /\ Latest'.sequence <= edit'.record.sequence
    BY <2>1, <2>5
  <2> QED BY <2>7, <2>8 DEF EditSequences
<1>9. /\ numbers'.log = numbers.log /\ numbers'.logfile = numbers.logfile
      /\ numbers'.sequence = numbers.sequence /\ counts'.skips = counts.skips
  OBVIOUS
<1> QED BY <1>3, <1>4, <1>7, <1>8, <1>9, ServingStays

(* BuildTable: the memtable becomes a table. *)
LEMMA BuildTableStores ==
  ASSUME Given, DiskInv, ContentsInv, BuildTable
  PROVE  ContentsInv' /\ StoreStep
<1>1. /\ flush # None /\ edit = None /\ tables' = With(tables, flush, imm)
      /\ edit' = [step |-> "write", by |-> "flush", fresh |-> ~descriptor,
                  record |-> Edit({flush}, {}, numbers.logfile, numbers.next, numbers.sequence)]
      /\ UNCHANGED <<current, manifests, logs, phase, version, numbers, mem, imm, writing,
                     history, counts>>
  BY DEF BuildTable, LogOfMem, history
<1>2. /\ phase = "open" /\ imm # None /\ flush \notin version
      /\ \A s \in Reads : flush \notin s.files
  BY <1>1 DEF DiskInv, FilesInv, PhaseInv, FlushInv
<1>3. /\ edit'.step = "write" /\ edit'.by = "flush" /\ edit'.record.add = {flush}
      /\ edit'.record.del = {} /\ edit'.record.log = numbers.logfile
      /\ edit'.record.sequence = numbers.sequence
  BY <1>1 DEF Edit
<1>4. imm \subseteq Visible  BY <1>2 DEF Visible
<1> QED BY <1>1, <1>2, <1>3, <1>4, TableMade

(* InstallCompactionResults: tables become one. *)
LEMMA InstallCompactionResultsStores ==
  ASSUME Given, DiskInv, ContentsInv, InstallCompactionResults
  PROVE  ContentsInv' /\ StoreStep
<1>1. /\ compaction # None /\ edit = None
      /\ tables' = With(tables, compaction.output, EntriesOf(compaction.inputs))
      /\ edit' = [step |-> "write", by |-> "compaction", fresh |-> ~descriptor,
                  record |-> Edit({compaction.output}, compaction.inputs, numbers.log,
                                  numbers.next, numbers.sequence)]
      /\ UNCHANGED <<current, manifests, logs, phase, version, numbers, mem, imm, writing,
                     history, counts>>
  BY DEF InstallCompactionResults, history
<1>2. /\ phase = "open" /\ compaction.inputs \subseteq version
      /\ compaction.output \notin version /\ \A s \in Reads : compaction.output \notin s.files
  BY <1>1 DEF DiskInv, FilesInv, PhaseInv, CompactionInv
<1>3. /\ edit'.step = "write" /\ edit'.by = "compaction" /\ edit'.record.add = {compaction.output}
      /\ edit'.record.del = compaction.inputs /\ edit'.record.log = numbers.log
      /\ edit'.record.sequence = numbers.sequence
  BY <1>1 DEF Edit
<1>4. EntriesOf(compaction.inputs) \subseteq Visible  BY <1>2 DEF Visible, EntriesOf
<1> QED BY <1>1, <1>2, <1>3, <1>4, TableMade

(* A step that the contents do not depend on. *)
LEMMA AllStays ==
  ASSUME ContentsInv,
         UNCHANGED <<current, manifests, logs, tables, phase, version, numbers, mem, imm,
                     recovering, edit, writing, history, counts>>
  PROVE  ContentsInv' /\ StoreStep
<1>1. Reads' = Reads /\ Latest' = Latest  BY DEF Reads, Latest
<1>2. \A n : EntriesOf(n)' = EntriesOf(n)  BY DEF EntriesOf
<1>3. /\ \A n : LogEntries(n)' = LogEntries(n) /\ LastingEntries(n)' = LastingEntries(n)
      /\ \A l : Written(l)' = Written(l) /\ Lasting(l)' = Lasting(l)
      /\ \A n : LogsFrom(n)' = LogsFrom(n)
  BY LogsStay
<1>4. \A s : Found(s)' = Found(s) /\ Kept(s)' = Kept(s)  BY <1>2, <1>3 DEF Found, Kept
<1>5. EntriesOf(version)' = EntriesOf(version)  BY DEF EntriesOf
<1>6. LogEntries(numbers.log)' = LogEntries(numbers.log) /\ Found(Latest)' = Found(Latest)
  BY <1>1, <1>3, <1>4
<1>7. Visible' = Visible /\ Recoverable' = Recoverable
  <2>1. Visible' = Visible  BY <1>5 DEF Visible
  <2>2. Recoverable' = Recoverable  BY DEF Recoverable, Readable, EntriesOf, LogsFrom
  <2> QED BY <2>1, <2>2
<1>8. Contents' = Contents  BY <1>7 DEF Contents
<1>9. StoreStep  BY <1>8 DEF StoreStep, Store!vars
<1>10. SourceInv'
  <2>1. edit # None => /\ EntriesOf(edit.record.add)' = EntriesOf(edit.record.add)
                       /\ EntriesOf(edit.record.del)' = EntriesOf(edit.record.del)
    BY DEF EntriesOf
  <2>2. EntriesOf(recovering.add)' = EntriesOf(recovering.add)  BY DEF EntriesOf
  <2>3. EntriesOf(edit.record.add)' = EntriesOf(edit.record.add)  BY DEF EntriesOf
  <2>4. Committed' = Committed  BY DEF Committed
  <2>5. SourceInv  BY DEF ContentsInv
  <2>6. EntriesOf(edit.record.del)' = EntriesOf(edit.record.del)  BY DEF EntriesOf
  <2> QED BY <1>1, <1>6, <2>2, <2>3, <2>4, <2>5, <2>6 DEF SourceInv
<1>11. OrderInv'
  <2>1. FoundByAny' = FoundByAny  BY <1>1, <1>4 DEF FoundByAny
  <2>2. Logged' = Logged /\ UnderWay' = UnderWay  BY <1>6 DEF Logged, UnderWay
  <2>3. Known' = Known  BY <1>7, <2>1, <2>2 DEF Known
  <2> QED BY <2>3 DEF ContentsInv, AgesInv, OrderInv
<1>12. SequenceInv'
  <2>1. /\ ReadSequences /\ RecoverySequences /\ EditSequences /\ OpenSequences /\ WriterSequence
        /\ (Running => Latest.sequence <= numbers.sequence)
    BY DEF ContentsInv, AgesInv, SequenceInv
  <2>2. ReadSequences'  BY <1>1, <1>2, <2>1 DEF ReadSequences, UpTo
  <2>3. RecoverySequences'
    <3>1. EntriesOf(recovering.add)' = EntriesOf(recovering.add)  BY DEF EntriesOf
    <3>2. (LogsFrom(numbers.log) \ recovering.logs)' = LogsFrom(numbers.log) \ recovering.logs
      BY <1>3
    <3> QED BY <1>3, <2>1, <3>1, <3>2 DEF RecoverySequences, UpTo
  <2>4. EditSequences'
    <3>1. EntriesOf(version \cup edit.record.add)' = EntriesOf(version \cup edit.record.add)
      BY DEF EntriesOf
    <3> QED BY <1>1, <2>1, <3>1 DEF EditSequences, UpTo
  <2>5. OpenSequences'
    <3>1. UNION {LogEntries(s.log)' : s \in Reads'} = UNION {LogEntries(s.log) : s \in Reads}
      BY <1>1, <1>3
    <3> QED BY <1>6, <1>7, <2>1, <3>1 DEF OpenSequences, UpTo
  <2>6. WriterSequence' /\ (Running' => Latest'.sequence <= numbers'.sequence)
    BY <1>1, <2>1 DEF WriterSequence, Running
  <2> QED BY <2>2, <2>3, <2>4, <2>5, <2>6 DEF SequenceInv
<1>13. StoreInv'
  <2> SUFFICES ASSUME current # None, counts.skips = 0
               PROVE  PromiseInv' /\ RecoveredInv' /\ ServedInv' /\ WritingInv'
    BY DEF StoreInv
  <2>1. PromiseInv /\ RecoveredInv /\ ServedInv /\ WritingInv  BY DEF ContentsInv, StoreInv
  <2>2. PromiseInv'  BY <1>1, <1>4, <1>8, <2>1 DEF PromiseInv
  <2>3. RecoveredInv'
    <3>1. EntriesOf(recovering.add)' = EntriesOf(recovering.add)  BY DEF EntriesOf
    <3>2. EntriesOf(edit.record.add)' = EntriesOf(edit.record.add)  BY DEF EntriesOf
    <3>3. LogsFrom(numbers.log)' = LogsFrom(numbers.log)  BY <1>3
    <3> QED BY <1>3, <2>1, <3>1, <3>2, <3>3 DEF RecoveredInv
  <2>4. ServedInv'
    <3>1. LastingEntries(numbers.log)' = LastingEntries(numbers.log)  BY <1>3
    <3>2. Written(numbers.logfile)' = Written(numbers.logfile)  BY <1>3
    <3>3. Lasting(numbers.logfile)' = Lasting(numbers.logfile)  BY <1>3
    <3> QED BY <1>1, <1>2, <1>5, <1>6, <1>7, <2>1, <3>1, <3>2, <3>3 DEF ServedInv
  <2>5. WritingInv'
    <3>1. Written(numbers.logfile)' = Written(numbers.logfile)  BY <1>3
    <3>2. Lasting(numbers.logfile)' = Lasting(numbers.logfile)  BY <1>3
    <3> QED BY <2>1, <3>1, <3>2 DEF WritingInv, SoundLog
  <2> QED BY <2>2, <2>3, <2>4, <2>5
<1> QED BY <1>9, <1>10, <1>11, <1>12, <1>13 DEF ContentsInv, AgesInv

(* An iterator. *)
LEMMA ReadingStores ==
  ASSUME ContentsInv, Reading
  PROVE  ContentsInv' /\ StoreStep
<1>1. UNCHANGED <<current, manifests, logs, tables, phase, version, numbers, mem, imm, recovering,
                  edit, writing, history, counts>>
  BY DEF Reading, NewIterator, ReleaseIterator, disk, history
<1> QED BY <1>1, AllStays

(* An old log goes. *)
LEMMA LogRemoved ==
  ASSUME Types, NEW k \in DOMAIN logs, logs' = Without(logs, k)
  PROVE  /\ \A l \in DOMAIN logs : l # k => Written(l)' = Written(l) /\ Lasting(l)' = Lasting(l)
         /\ \A n \in Nat : k < n => /\ LogEntries(n)' = LogEntries(n)
                                    /\ LastingEntries(n)' = LastingEntries(n)
<1>1. /\ DOMAIN logs' = DOMAIN logs \ {k} /\ DOMAIN logs \subseteq Nat
      /\ \A l \in DOMAIN logs' : logs'[l] = logs[l]
  BY DEF Without, Types, DiskTypes, Files
<1>2. ASSUME NEW l \in DOMAIN logs, l # k PROVE Written(l)' = Written(l) /\ Lasting(l)' = Lasting(l)
  BY <1>1, <1>2 DEF Written, Lasting
<1>3. ASSUME NEW n \in Nat, k < n
      PROVE  LogEntries(n)' = LogEntries(n) /\ LastingEntries(n)' = LastingEntries(n)
  <2>1. LogsFrom(n)' = LogsFrom(n)  BY <1>1, <1>3 DEF LogsFrom
  <2>2. \A l \in LogsFrom(n) : l \in DOMAIN logs /\ l # k  BY <1>1, <1>3 DEF LogsFrom
  <2>3. \A l \in LogsFrom(n) : Written(l)' = Written(l) /\ Lasting(l)' = Lasting(l)
    BY <1>2, <2>2
  <2>4. LogEntries(n)' = LogEntries(n)  BY <2>1, <2>3 DEF LogEntries
  <2>5. LastingEntries(n)' = LastingEntries(n)  BY <2>1, <2>3 DEF LastingEntries
  <2> QED BY <2>4, <2>5
<1> QED BY <1>2, <1>3

(* DeleteObsoleteFiles: what is read, or would be, is not in the file. *)
LEMMA DeleteFileStores ==
  ASSUME Given, Options, DiskInv, ContentsInv, DeleteFile
  PROVE  ContentsInv' /\ StoreStep
<1>1. /\ obsolete /\ ~bg_error
      /\ UNCHANGED <<current, phase, version, numbers, mem, imm, recovering, edit, writing,
                     history, counts>>
      /\ \/ \E n \in ObsoleteLogs : logs' = Without(logs, n) /\ UNCHANGED <<manifests, tables>>
         \/ \E n \in ObsoleteManifests :
              manifests' = Without(manifests, n) /\ UNCHANGED <<logs, tables>>
         \/ \E n \in ObsoleteTables :
              tables' = Without(tables, n) /\ UNCHANGED <<logs, manifests>>
  BY DEF DeleteFile, MayDelete, process, history
<1>2. /\ phase = "open" /\ edit = None /\ current # None /\ Running
      /\ numbers \in Numbers /\ numbers.manifest = current
      /\ Reads = {Latest} /\ Latest.files = version /\ Latest.log = numbers.log
  BY <1>1, DeletingIs
<1>3. Types /\ current \in DOMAIN manifests /\ Latest \in Reads /\ current \in Nat
      /\ version \subseteq DOMAIN tables
  <2>1. Types /\ ReadsInv /\ RunningInv  BY DEF DiskInv, FilesInv
  <2> QED BY <1>2, <2>1, ReadingsAre DEF RunningInv
<1>4. SourceInv' /\ EditSequences'  BY <1>1, <1>2 DEF SourceInv, EditSequences
<1>5. CASE \E n \in ObsoleteLogs : logs' = Without(logs, n) /\ UNCHANGED <<manifests, tables>>
  <2>1. PICK n \in ObsoleteLogs : logs' = Without(logs, n) /\ UNCHANGED <<manifests, tables>>
    BY <1>5
  <2>2. n \in DOMAIN logs /\ n \in Nat /\ n < numbers.log
    BY <1>3, <2>1 DEF ObsoleteLogs, Types, DiskTypes, Files
  <2>3. numbers.log \in Nat /\ numbers.logfile \in Nat /\ numbers.log <= numbers.logfile
    BY <1>2 DEF Numbers, DiskInv, FilesInv, LogfileInv
  <2>4. /\ \A l \in DOMAIN logs : l # n => Written(l)' = Written(l) /\ Lasting(l)' = Lasting(l)
        /\ \A m \in Nat : n < m => /\ LogEntries(m)' = LogEntries(m)
                                   /\ LastingEntries(m)' = LastingEntries(m)
    BY <1>3, <2>1, <2>2, LogRemoved
  <2>5. Reads' = Reads /\ Latest' = Latest  BY <1>1, <2>1 DEF Reads, Latest
  <2>6. \A ns : EntriesOf(ns)' = EntriesOf(ns)  BY <2>1, TablesStay
  <2>7. EntriesOf(version)' = EntriesOf(version)  BY <1>1, <2>1 DEF EntriesOf
  <2>8. /\ Written(numbers.logfile)' = Written(numbers.logfile)
        /\ Lasting(numbers.logfile)' = Lasting(numbers.logfile)
        /\ SoundLog' = SoundLog
    <3>1. n # numbers.logfile /\ numbers.logfile \in DOMAIN logs  BY <1>2, <2>2, <2>3, OpenIs
    <3>2. logs'[numbers.logfile] = logs[numbers.logfile]  BY <2>1, <3>1 DEF Without
    <3>3. SoundLog' = SoundLog  BY <1>1, <3>2 DEF SoundLog
    <3> QED BY <1>1, <2>4, <3>1, <3>3
  <2>9. /\ LogEntries(numbers.log)' = LogEntries(numbers.log)
        /\ LastingEntries(numbers.log)' = LastingEntries(numbers.log)
    BY <1>1, <2>2, <2>3, <2>4
  <2>10. \A s \in Reads : /\ EntriesOf(s.files)' = EntriesOf(s.files)
                          /\ LogEntries(s.log)' = LogEntries(s.log)
                          /\ LastingEntries(s.log)' = LastingEntries(s.log)
    BY <1>2, <2>2, <2>3, <2>4, <2>6
  <2> QED BY <1>1, <1>2, <1>4, <2>5, <2>7, <2>8, <2>9, <2>10, SameStore
<1>6. CASE \E n \in ObsoleteManifests :
              manifests' = Without(manifests, n) /\ UNCHANGED <<logs, tables>>
  <2>1. PICK n \in ObsoleteManifests : manifests' = Without(manifests, n) /\ UNCHANGED <<logs, tables>>
    BY <1>6
  <2>2. n \in Nat /\ n < current
    BY <1>2, <1>3, <2>1 DEF ObsoleteManifests, Types, DiskTypes, Files
  <2>3. manifests'[current] = manifests[current]  BY <1>3, <2>1, <2>2 DEF Without
  <2>4. Reads' = Reads /\ Latest' = Latest  BY <1>1, <2>3 DEF Reads, Latest
  <2>5. /\ \A m : LogEntries(m)' = LogEntries(m) /\ LastingEntries(m)' = LastingEntries(m)
        /\ \A l : Written(l)' = Written(l) /\ Lasting(l)' = Lasting(l)
    BY <2>1, LogsStay
  <2>6. \A ns : EntriesOf(ns)' = EntriesOf(ns)  BY <2>1, TablesStay
  <2>7. EntriesOf(version)' = EntriesOf(version)  BY <1>1, <2>1 DEF EntriesOf
  <2>8. /\ LogEntries(numbers.log)' = LogEntries(numbers.log)
        /\ LastingEntries(numbers.log)' = LastingEntries(numbers.log)
        /\ Written(numbers.logfile)' = Written(numbers.logfile)
        /\ Lasting(numbers.logfile)' = Lasting(numbers.logfile)
        /\ SoundLog' = SoundLog
    BY <1>1, <2>1, <2>5 DEF SoundLog
  <2>9. \A s \in Reads : /\ EntriesOf(s.files)' = EntriesOf(s.files)
                         /\ LogEntries(s.log)' = LogEntries(s.log)
                         /\ LastingEntries(s.log)' = LastingEntries(s.log)
    BY <2>5, <2>6
  <2> QED BY <1>1, <1>2, <1>4, <2>4, <2>7, <2>8, <2>9, SameStore
<1>7. CASE \E n \in ObsoleteTables : tables' = Without(tables, n) /\ UNCHANGED <<logs, manifests>>
  <2>1. PICK n \in ObsoleteTables : tables' = Without(tables, n) /\ UNCHANGED <<logs, manifests>>
    BY <1>7
  <2>2. n \notin version  BY <2>1 DEF ObsoleteTables, Live, OfVersions
  <2>3. \A k \in version : tables'[k] = tables[k]  BY <1>3, <2>1, <2>2 DEF Without
  <2>4. \A s \in Reads : \A k \in s.files : tables'[k] = tables[k]  BY <1>2, <2>3
  <2> QED BY <1>1, <1>2, <1>4, <2>1, <2>3, <2>4, ServingStays
<1> QED BY <1>1, <1>5, <1>6, <1>7

-------------------------------------------------------------------------------
(* Writes. *)

(* The files stay as they are. *)
LEMMA SameFiles ==
  ASSUME UNCHANGED <<current, manifests, logs, tables>>
  PROVE  /\ Reads' = Reads /\ Latest' = Latest
         /\ \A n : EntriesOf(n)' = EntriesOf(n)
         /\ \A n : LogEntries(n)' = LogEntries(n) /\ LastingEntries(n)' = LastingEntries(n)
         /\ \A l : Written(l)' = Written(l) /\ Lasting(l)' = Lasting(l)
         /\ \A s : Found(s)' = Found(s) /\ Kept(s)' = Kept(s)
<1>1. Reads' = Reads /\ Latest' = Latest  BY DEF Reads, Latest
<1>2. /\ \A n : EntriesOf(n)' = EntriesOf(n)
      /\ \A n : LogEntries(n)' = LogEntries(n) /\ LastingEntries(n)' = LastingEntries(n)
      /\ \A l : Written(l)' = Written(l) /\ Lasting(l)' = Lasting(l)
  BY TablesStay, LogsStay
<1> QED BY <1>1, <1>2 DEF Found, Kept

(* An edit that is under way stays right when the sequence number grows. *)
LEMMA EditStays ==
  ASSUME NoneAssumption, DiskInv, ContentsInv, phase = "open",
         UNCHANGED <<current, manifests, tables, phase, version, edit, imm>>,
         numbers'.log = numbers.log, numbers'.logfile = numbers.logfile,
         numbers'.sequence \in Nat, numbers.sequence <= numbers'.sequence,
         counts'.skips = counts.skips
  PROVE  SourceInv' /\ EditSequences'
<1>1. SourceInv /\ EditSequences  BY DEF ContentsInv, AgesInv, SequenceInv
<1>2. Latest' = Latest /\ Committed' = Committed  BY DEF Latest, Committed
<1>3. /\ EntriesOf(edit.record.add)' = EntriesOf(edit.record.add)
      /\ EntriesOf(edit.record.del)' = EntriesOf(edit.record.del)
      /\ EntriesOf(version \cup edit.record.add)' = EntriesOf(version \cup edit.record.add)
  BY DEF EntriesOf
<1>4. SourceInv'  BY <1>1, <1>2, <1>3 DEF SourceInv
<1>5. EditSequences'
  <2> SUFFICES ASSUME edit # None
               PROVE  /\ edit'.record.sequence <= numbers'.sequence
                      /\ Latest'.sequence <= edit'.record.sequence
                      /\ UpTo(edit.record.sequence, EntriesOf(version \cup edit.record.add))'
    BY DEF EditSequences
  <2>1. /\ edit.record.sequence <= numbers.sequence /\ Latest.sequence <= edit.record.sequence
        /\ UpTo(edit.record.sequence, EntriesOf(version \cup edit.record.add))
    BY <1>1 DEF EditSequences
  <2>2. edit.record.sequence \in Nat /\ numbers.sequence \in Nat  BY EditIs DEF Numbers
  <2>3. edit'.record.sequence <= numbers'.sequence  BY <2>1, <2>2
  <2>4. UpTo(edit.record.sequence, EntriesOf(version \cup edit.record.add))'
    BY <1>3, <2>1 DEF UpTo
  <2> QED BY <1>2, <2>1, <2>3, <2>4
<1> QED BY <1>4, <1>5

(* The sequence numbers that a reader or a recovery may meet have been given. *)
LEMMA KnownIs ==
  ASSUME NoneAssumption, DiskInv, ContentsInv, phase = "open", NEW e \in Known
  PROVE  /\ e.id \in Nat /\ e.seq \in Nat /\ e.id <= counts.writes
         /\ e.seq <= numbers.sequence \/ (writing # None /\ e = writing.entry)
<1>1. current # None /\ Running /\ numbers \in Numbers  BY OpenIs
<1>2. Types /\ ReadsInv /\ RunningInv  BY DEF DiskInv, FilesInv
<1>3. ReadSequences /\ OpenSequences /\ Latest.sequence <= numbers.sequence
  BY <1>1 DEF ContentsInv, AgesInv, SequenceInv
<1>4. GoodRead(Latest)  BY <1>1, <1>2, ReadingsAre
<1>5. ASSUME NEW s \in Reads, NEW f \in EntriesOf(s.files)
      PROVE  f \in Issued /\ f.seq <= numbers.sequence
  <2>1. GoodRead(s)  BY <1>1, <1>2 DEF ReadsInv
  <2>2. s.files \subseteq DOMAIN tables /\ s.sequence \in Nat /\ Latest.sequence \in Nat
    BY <1>4, <2>1 DEF GoodRead, CompleteState
  <2>3. f \in Issued /\ f.seq \in Nat  BY <1>2, <2>2, EntriesAreIssued
  <2>4. f.seq <= s.sequence /\ s.sequence <= Latest.sequence
    BY <1>1, <1>3 DEF ReadSequences, UpTo
  <2>5. numbers.sequence \in Nat  BY <1>1 DEF Numbers
  <2> QED BY <1>3, <2>2, <2>3, <2>4, <2>5
<1>6. ASSUME NEW n, NEW f \in LogEntries(n) PROVE f \in Issued
  BY <1>2, EntriesAreIssued
<1>7. \A f \in Visible : f \in Issued /\ f.seq <= numbers.sequence
  <2>1. \A f \in Visible : f.seq <= numbers.sequence  BY <1>3 DEF OpenSequences, UpTo
  <2>2. EntriesOf(version) \subseteq Issued  BY <1>1, <1>2, EntriesAreIssued DEF RunningInv
  <2> QED BY <1>2, <2>1, <2>2 DEF Visible, Types, ProcessTypes
<1>8. \A f \in LogEntries(numbers.log) \cup UNION {LogEntries(s.log) : s \in Reads} :
         f.seq <= numbers.sequence \/ (writing # None /\ f = writing.entry)
  BY <1>3 DEF OpenSequences
<1>9. e \in FoundByAny \/ e \in Visible \/ e \in LogEntries(numbers.log) \/ e \in UnderWay
  BY <1>1 DEF Known, Logged
<1>10. e \in Issued /\ (e.seq <= numbers.sequence \/ (writing # None /\ e = writing.entry))
  <2>1. CASE e \in FoundByAny
    <3>1. PICK s \in Reads : e \in Found(s)
      BY <2>1 DEF FoundByAny
    <3>2. CASE e \in EntriesOf(s.files)
      BY <1>5, <3>2
    <3>3. CASE e \in LogEntries(s.log)
      BY <1>6, <1>8, <3>3
    <3> QED BY <3>1, <3>2, <3>3 DEF Found
  <2>2. CASE e \in Visible
    BY <1>7, <2>2
  <2>3. CASE e \in LogEntries(numbers.log)
    BY <1>6, <1>8, <2>3
  <2>4. CASE e \in UnderWay
    <3>1. writing # None /\ e = writing.entry  BY <2>4 DEF UnderWay
    <3> QED BY <3>1, WriterIs
  <2> QED BY <1>9, <2>1, <2>2, <2>3, <2>4
<1>11. e.seq \in Nat /\ e.id \in Nat /\ e.id <= counts.writes  BY <1>2, <1>10, EntriesAreIssued
<1> QED BY <1>10, <1>11

(* A write begins: its number and its sequence number are larger than all. *)
LEMMA BeginWriteStores ==
  ASSUME Given, DiskInv, ContentsInv, NEW sync \in BOOLEAN,
         BeginWrite(sync)
  PROVE  ContentsInv' /\ StoreStep
<1> DEFINE e == [id |-> counts.writes + 1, seq |-> numbers.sequence + 1]
<1>1. /\ phase = "open" /\ writing = None /\ counts.writes < MaxWrites
      /\ writing' = [entry |-> e, sync |-> sync, step |-> "log"]
      /\ doubtful' = doubtful \cup {e}
      /\ counts' = [counts EXCEPT !.writes = @ + 1]
      /\ UNCHANGED <<current, manifests, logs, tables, phase, version, numbers, mem, imm,
                     recovering, edit, acknowledged, durable>>
  BY DEF BeginWrite, Ready, disk
<1>2. /\ Types /\ current # None /\ Running /\ numbers.sequence \in Nat /\ counts.writes \in Nat
      /\ counts \in Counts /\ numbers.sequence <= counts.writes /\ durable \subseteq Issued
  <2>1. current # None /\ Running /\ numbers \in Numbers /\ counts \in Counts  BY <1>1, OpenIs
  <2> QED BY <2>1 DEF Numbers, Counts, DiskInv, Types, ProcessTypes, HistoryTypes
<1>3. counts'.skips = counts.skips /\ counts'.writes = counts.writes + 1
  BY <1>1, <1>2 DEF Counts
<1>4. e.id = counts.writes + 1 /\ e.seq = numbers.sequence + 1  OBVIOUS
<1>5. e \in Entry
  <2>1. MaxWrites \in Nat  BY DEF StorageAssumption
  <2>2. counts.writes + 1 \in 1..MaxWrites /\ numbers.sequence + 1 \in 1..MaxWrites
    BY <1>1, <1>2, <2>1
  <2> QED BY <2>2 DEF Entry
<1>6. writing' # None /\ writing'.entry = e /\ writing'.step = "log"
  <2>1. writing' \in Writer  BY <1>1, <1>5, Zenon DEF Writer
  <2> QED BY <1>1, <2>1 DEF NoneAssumption
<1>7. e \notin durable
  <2>1. \A d \in durable : d.id <= counts.writes /\ d.id \in Nat  BY <1>2, EntriesAreIssued
  <2> QED BY <1>2, <1>4, <2>1
<1> HIDE DEF e
<1>8. /\ Reads' = Reads /\ Latest' = Latest
      /\ \A n : EntriesOf(n)' = EntriesOf(n)
      /\ \A n : LogEntries(n)' = LogEntries(n) /\ LastingEntries(n)' = LastingEntries(n)
      /\ \A l : Written(l)' = Written(l) /\ Lasting(l)' = Lasting(l)
      /\ \A s : Found(s)' = Found(s) /\ Kept(s)' = Kept(s)
  BY <1>1, SameFiles
<1>9. EntriesOf(version)' = EntriesOf(version) /\ Visible' = Visible /\ Contents' = Contents
  <2>1. EntriesOf(version)' = EntriesOf(version)  BY <1>1 DEF EntriesOf
  <2>2. Visible' = Visible  BY <1>1, <2>1 DEF Visible
  <2> QED BY <1>1, <2>1, <2>2 DEF Contents
<1>10. /\ LogEntries(numbers.log)' = LogEntries(numbers.log)
       /\ LastingEntries(numbers.log)' = LastingEntries(numbers.log)
       /\ Written(numbers.logfile)' = Written(numbers.logfile)
       /\ Lasting(numbers.logfile)' = Lasting(numbers.logfile)
       /\ Found(Latest)' = Found(Latest)
  BY <1>1, <1>8
<1>11. /\ ReadSequences /\ OpenSequences /\ StoreInv /\ OrderInv
       /\ Latest.sequence <= numbers.sequence
  BY <1>2 DEF ContentsInv, AgesInv, SequenceInv
<1>12. SourceInv' /\ EditSequences'  BY <1>1, <1>2, <1>3, EditStays
<1>13. OrderInv'
  <2>1. Known' \subseteq Known \cup {e}
    <3>1. FoundByAny' = FoundByAny  BY <1>8 DEF FoundByAny
    <3>2. Logged' = Logged /\ UnderWay' = {e}  BY <1>1, <1>6, <1>10 DEF Logged, UnderWay
    <3> QED BY <1>1, <1>2, <1>9, <3>1, <3>2 DEF Known
  <2>2. ASSUME NEW d \in Known PROVE d.id \in Nat /\ d.seq \in Nat /\ d.id < e.id /\ d.seq < e.seq
    <3>1. d.id \in Nat /\ d.seq \in Nat /\ d.id <= counts.writes /\ d.seq <= numbers.sequence
      BY <1>1, KnownIs
    <3> QED BY <1>2, <1>4, <3>1
  <2>3. ASSUME NEW d \in Known \cup {e}, NEW f \in Known \cup {e}, d.id < f.id PROVE d.seq < f.seq
    <3>1. CASE d \in Known /\ f \in Known
      BY <1>11, <2>3, <3>1 DEF OrderInv
    <3>2. CASE d \in Known /\ f = e
      BY <2>2, <3>2
    <3>3. CASE d = e
      <4>1. e.id \in Nat  BY <1>2, <1>4
      <4>2. CASE f = e
        BY <2>3, <3>3, <4>1, <4>2
      <4>3. CASE f \in Known
        BY <2>2, <2>3, <3>3, <4>1, <4>3
      <4> QED BY <4>2, <4>3
    <3> QED BY <3>1, <3>2, <3>3
  <2> QED BY <2>1, <2>3 DEF OrderInv
<1>14. SequenceInv'
  <2>1. ReadSequences'  BY <1>1, <1>8, <1>11 DEF ReadSequences, UpTo
  <2>2. RecoverySequences'  BY <1>1 DEF RecoverySequences
  <2>3. OpenSequences'
    <3>1. UNION {LogEntries(s.log)' : s \in Reads'} = UNION {LogEntries(s.log) : s \in Reads}
      BY <1>8
    <3>2. /\ UpTo(numbers.sequence, Visible)
          /\ \A f \in LogEntries(numbers.log) \cup UNION {LogEntries(s.log) : s \in Reads} :
               f.seq <= numbers.sequence
      BY <1>1, <1>11 DEF OpenSequences
    <3> QED BY <1>1, <1>9, <1>10, <3>1, <3>2 DEF OpenSequences, UpTo
  <2>4. WriterSequence'  BY <1>1, <1>4, <1>6 DEF WriterSequence
  <2>5. Latest'.sequence <= numbers'.sequence  BY <1>1, <1>8, <1>11
  <2> QED BY <1>12, <2>1, <2>2, <2>3, <2>4, <2>5 DEF SequenceInv
<1>15. StoreInv'
  <2> SUFFICES ASSUME counts.skips = 0
               PROVE  PromiseInv' /\ RecoveredInv' /\ ServedInv' /\ WritingInv'
    BY <1>3 DEF StoreInv
  <2>1. PromiseInv /\ ServedInv  BY <1>2, <1>11 DEF StoreInv
  <2>2. PromiseInv'  BY <1>1, <1>8, <1>9, <2>1 DEF PromiseInv
  <2>3. RecoveredInv'  BY <1>1 DEF RecoveredInv
  <2>4. ServedInv'  BY <1>1, <1>8, <1>9, <1>10, <2>1 DEF ServedInv
  <2>5. WritingInv'  BY <1>1, <1>6, <1>7 DEF WritingInv
  <2> QED BY <2>2, <2>3, <2>4, <2>5
<1>16. Store!Begin(e)  BY <1>1, <1>9 DEF Store!Begin
<1>17. StoreStep  BY <1>5, <1>16 DEF StoreStep, Store!Next
<1> QED BY <1>12, <1>13, <1>14, <1>15, <1>17 DEF ContentsInv, AgesInv

(* The log of the memtable gets the record of the write, or is synced. *)
LEMMA LogGrows ==
  ASSUME NoneAssumption, DiskInv, ContentsInv, writing # None,
         UNCHANGED <<current, manifests, tables, phase, version, mem, imm, edit, history>>,
         counts'.skips = counts.skips,
         numbers'.log = numbers.log, numbers'.logfile = numbers.logfile,
         numbers'.sequence \in Nat,
         \/ writing' # None /\ writing'.entry = writing.entry /\ numbers'.sequence = numbers.sequence
         \/ writing' = None /\ numbers'.sequence = writing.entry.seq,
         DOMAIN logs' = DOMAIN logs,
         \A l \in DOMAIN logs : l # numbers.logfile => logs'[l] = logs[l],
         Written(numbers.logfile)' \subseteq Written(numbers.logfile) \cup {writing.entry},
         Written(numbers.logfile) \subseteq Written(numbers.logfile)',
         Lasting(numbers.logfile) \subseteq Lasting(numbers.logfile)',
         counts.skips = 0 => WritingInv'
  PROVE  ContentsInv' /\ StoreStep
<1> DEFINE e == writing.entry
           m == numbers.logfile
<1>1. phase = "open" /\ e.seq \in Nat  BY WriterIs
<1>2. current # None /\ Running /\ numbers \in Numbers /\ m \in DOMAIN logs  BY <1>1, OpenIs
<1>3. /\ ReadSequences /\ OpenSequences /\ StoreInv /\ OrderInv
      /\ Latest.sequence <= numbers.sequence /\ WriterSequence
  BY <1>2 DEF ContentsInv, AgesInv, SequenceInv
<1>4. numbers.sequence \in Nat /\ numbers.sequence <= numbers'.sequence
  <2>1. numbers.sequence \in Nat /\ e.seq = numbers.sequence + 1
    BY <1>2, <1>3 DEF Numbers, WriterSequence
  <2> QED BY <2>1
<1>5. SourceInv' /\ EditSequences'  BY <1>1, <1>4, EditStays
<1>6. Written(m)' = Written(numbers.logfile)' /\ Lasting(m)' = Lasting(numbers.logfile)'
  BY DEF Written, Lasting
<1>7. ASSUME NEW l \in DOMAIN logs
      PROVE  /\ Written(l)' \subseteq Written(l) \cup {e} /\ Written(l) \subseteq Written(l)'
             /\ Lasting(l) \subseteq Lasting(l)'
  <2>1. CASE l = m
    <3>1. Written(l)' = Written(m)' /\ Lasting(l)' = Lasting(m)'  BY <2>1 DEF Written, Lasting
    <3> QED BY <1>6, <2>1, <3>1
  <2>2. CASE l # m
    <3>1. logs'[l] = logs[l]  BY <2>2
    <3> QED BY <3>1 DEF Written, Lasting
  <2> QED BY <2>1, <2>2
<1> HIDE DEF e, m
<1>8. ASSUME NEW n
      PROVE  /\ LogEntries(n)' \subseteq LogEntries(n) \cup {e} /\ LogEntries(n) \subseteq LogEntries(n)'
             /\ LastingEntries(n) \subseteq LastingEntries(n)'
  <2>1. LogsFrom(n)' = LogsFrom(n) /\ LogsFrom(n) \subseteq DOMAIN logs  BY DEF LogsFrom
  <2>2. LogEntries(n)' \subseteq LogEntries(n) \cup {e}  BY <1>7, <2>1 DEF LogEntries
  <2>3. LogEntries(n) \subseteq LogEntries(n)'  BY <1>7, <2>1 DEF LogEntries
  <2>4. LastingEntries(n) \subseteq LastingEntries(n)'  BY <1>7, <2>1 DEF LastingEntries
  <2> QED BY <2>2, <2>3, <2>4
<1>9. Reads' = Reads /\ Latest' = Latest /\ \A n : EntriesOf(n)' = EntriesOf(n)
  BY TablesStay DEF Reads, Latest
<1>10. \A s : /\ Found(s)' \subseteq Found(s) \cup {e} /\ Found(s) \subseteq Found(s)'
              /\ Kept(s) \subseteq Kept(s)'
  BY <1>8, <1>9 DEF Found, Kept
<1>11. EntriesOf(version)' = EntriesOf(version) /\ Visible' = Visible /\ Contents' = Contents
  <2>1. EntriesOf(version)' = EntriesOf(version)  BY DEF EntriesOf
  <2>2. Visible' = Visible  BY <2>1 DEF Visible
  <2> QED BY <1>1, <2>1, <2>2 DEF Contents
<1>12. /\ LogEntries(numbers.log)' \subseteq LogEntries(numbers.log) \cup {e}
       /\ LogEntries(numbers.log) \subseteq LogEntries(numbers.log)'
       /\ LastingEntries(numbers.log) \subseteq LastingEntries(numbers.log)'
       /\ Found(Latest) \subseteq Found(Latest)'
  BY <1>8, <1>9, <1>10
<1>13. OrderInv'
  <2>1. FoundByAny' \subseteq FoundByAny \cup {e}  BY <1>9, <1>10 DEF FoundByAny
  <2>2. Logged' \subseteq Logged \cup {e} /\ UnderWay' \subseteq {e} /\ UnderWay = {e}
    BY <1>1, <1>12 DEF Logged, UnderWay, e
  <2>3. Known' \subseteq Known  BY <1>2, <1>11, <2>1, <2>2 DEF Known
  <2> QED BY <1>3, <2>3 DEF OrderInv
<1>14. SequenceInv'
  <2>1. ReadSequences'  BY <1>3, <1>9 DEF ReadSequences, UpTo
  <2>2. RecoverySequences'  BY <1>1 DEF RecoverySequences
  <2>3. OpenSequences'
    <3> DEFINE old == UNION {LogEntries(s.log) : s \in Reads}
               new == UNION {LogEntries(s.log)' : s \in Reads'}
    <3>1. \A f \in new : \E s \in Reads' : f \in LogEntries(s.log)'  OBVIOUS
    <3>2. \A s \in Reads : LogEntries(s.log) \subseteq old  OBVIOUS
    <3>3. UpTo(numbers.sequence, Visible)  BY <1>1, <1>3 DEF OpenSequences
    <3>4. \A f \in LogEntries(numbers.log) \cup old : f.seq <= numbers.sequence \/ f = e
      BY <1>1, <1>3 DEF OpenSequences, e
    <3>5. \A f \in Known : f.seq \in Nat  BY <1>1, KnownIs
    <3>6. Visible \subseteq Known /\ LogEntries(numbers.log) \subseteq Known /\ old \subseteq Known
      BY <1>1, <1>2 DEF Known, Logged, FoundByAny, Found
    <3>7. UpTo(numbers'.sequence, Visible)  BY <1>4, <3>3, <3>5, <3>6, UpToMore
    <3> HIDE DEF old, new
    <3>8. new \subseteq old \cup {e}
      <4>1. ASSUME NEW f \in new PROVE f \in old \/ f = e
        <5>1. PICK s \in Reads' : f \in LogEntries(s.log)'
          BY <3>1
        <5>2. s \in Reads /\ (f \in LogEntries(s.log) \/ f = e)  BY <1>8, <1>9, <5>1
        <5> QED BY <3>2, <5>2
      <4> QED BY <4>1
    <3>9. ASSUME NEW f \in LogEntries(numbers.log)' \cup new
          PROVE  f.seq <= numbers'.sequence \/ (writing' # None /\ f = writing'.entry)
      <4>1. CASE f = e
        BY <1>1, <4>1 DEF e
      <4>2. CASE f # e
        <5>1. f \in LogEntries(numbers.log) \cup old  BY <1>12, <3>8, <4>2
        <5>2. f.seq <= numbers.sequence /\ f.seq \in Nat  BY <3>4, <3>5, <3>6, <4>2, <5>1
        <5> QED BY <1>4, <5>2
      <4> QED BY <4>1, <4>2
    <3> QED BY <1>11, <3>7, <3>9 DEF OpenSequences, UpTo, new
  <2>4. WriterSequence'  BY <1>3 DEF WriterSequence
  <2>5. Latest'.sequence <= numbers'.sequence
    <3>1. Latest.sequence \in Nat
      <4>1. GoodRead(Latest)  BY <1>2, ReadingsAre DEF DiskInv
      <4> QED BY <4>1 DEF GoodRead, CompleteState
    <3> QED BY <1>3, <1>4, <1>9, <3>1
  <2> QED BY <1>5, <2>1, <2>2, <2>3, <2>4, <2>5 DEF SequenceInv
<1>15. StoreInv'
  <2> SUFFICES ASSUME counts.skips = 0
               PROVE  PromiseInv' /\ RecoveredInv' /\ ServedInv' /\ WritingInv'
    BY DEF StoreInv
  <2>1. PromiseInv /\ ServedInv /\ e \in doubtful  BY <1>2, <1>3 DEF StoreInv, WritingInv, e
  <2>2. PromiseInv'
    <3>1. ASSUME NEW s \in Reads' PROVE durable' \subseteq Kept(s)' /\ Found(s)' \subseteq Contents' \cup doubtful'
      <4>1. s \in Reads  BY <1>9
      <4> QED BY <1>10, <1>11, <2>1, <4>1 DEF PromiseInv
    <3> QED BY <1>11, <2>1, <3>1 DEF PromiseInv
  <2>3. RecoveredInv'  BY <1>1 DEF RecoveredInv
  <2>4. ServedInv'
    <3>1. \A s \in Reads' : EntriesOf(version)' \subseteq EntriesOf(s.files)'
      BY <1>1, <1>9, <1>11, <2>1 DEF ServedInv
    <3>2. /\ mem' \ doubtful' \subseteq Written(numbers.logfile)'
          /\ durable' \cap mem' \subseteq Lasting(numbers.logfile)'
      BY <1>1, <2>1 DEF ServedInv
    <3>3. imm' # None => /\ imm' \ doubtful' \subseteq LogEntries(numbers.log)' \cap Found(Latest)'
                         /\ durable' \cap imm' \subseteq LastingEntries(numbers.log)'
      BY <1>1, <1>12, <2>1 DEF ServedInv
    <3>4. LogEntries(numbers.log)' \subseteq Visible' \cup doubtful'
      BY <1>1, <1>11, <1>12, <2>1 DEF ServedInv
    <3> QED BY <3>1, <3>2, <3>3, <3>4 DEF ServedInv
  <2> QED BY <2>2, <2>3, <2>4
<1>16. StoreStep  BY <1>11 DEF StoreStep, Store!vars
<1> QED BY <1>5, <1>13, <1>14, <1>15, <1>16 DEF ContentsInv, AgesInv

(* The record is in the log, or behind a failed one perhaps not; what lasts of
   the log stays. *)
LEMMA LogOfWriter ==
  ASSUME DiskInv, writing # None, NEW g, LogTakes(g),
         logs' = [logs EXCEPT ![numbers.logfile] = g]
  PROVE  /\ DOMAIN logs' = DOMAIN logs
         /\ \A l \in DOMAIN logs : l # numbers.logfile => logs'[l] = logs[l]
         /\ numbers'.logfile = numbers.logfile =>
              /\ Written(numbers.logfile)' \subseteq Written(numbers.logfile) \cup {writing.entry}
              /\ Written(numbers.logfile) \subseteq Written(numbers.logfile)'
              /\ Lasting(numbers.logfile) \subseteq Lasting(numbers.logfile)'
              /\ SoundLog' => writing.entry \in Written(numbers.logfile)'
<1> DEFINE e == writing.entry
           m == numbers.logfile
           r == logs[m].records
           n == logs[m].synced
           t == g.records
<1>1. e \in Issued /\ phase = "open"  BY WriterIs
<1>2. m \in DOMAIN logs /\ Types  BY <1>1, OpenIs DEF DiskInv
<1>3. /\ logs[m] \in FileOf(Issued) /\ r \in Seq(Issued) /\ n \in Nat /\ n <= Len(r)
  BY <1>2 DEF Types, DiskTypes, Files, FileOf
<1>4. DOMAIN logs' = DOMAIN logs /\ (\A l \in DOMAIN logs : l # m => logs'[l] = logs[l]) /\ logs'[m] = g
  BY <1>2
<1>5. /\ g.synced = n
      /\ t = r \o <<e>> \/ (t = r /\ g.tail # "sound")
  BY DEF LogTakes
<1> HIDE DEF e, r, n, t
<1>6. ToSet(r \o <<e>>) = ToSet(r) \cup {e}
  <2>1. /\ r \o <<e>> \in Seq(Issued) /\ Len(r \o <<e>>) = Len(r) + 1 /\ Len(r) \in Nat
        /\ \A i \in 1..Len(r) : (r \o <<e>>)[i] = r[i]
        /\ (r \o <<e>>)[Len(r) + 1] = e
    BY <1>1, <1>3
  <2> DEFINE u == r \o <<e>>
  <2>2. DOMAIN u = 1..Len(r) + 1 /\ DOMAIN r = 1..Len(r)  BY <1>3, <2>1
  <2>3. \A i \in 1..Len(r) : u[i] = r[i]  BY <2>1
  <2>4. u[Len(r) + 1] = e /\ Len(r) \in Nat  BY <2>1
  <2> HIDE DEF u
  <2>5. ToSet(u) \subseteq ToSet(r) \cup {e}  BY <2>2, <2>3, <2>4 DEF ToSet
  <2>6. ToSet(r) \subseteq ToSet(u) /\ e \in ToSet(u)  BY <2>2, <2>3, <2>4 DEF ToSet
  <2> QED BY <2>5, <2>6 DEF u
<1>7. SubSeq(t, 1, n) = SubSeq(r, 1, n)
  <2>1. SubSeq(r \o <<e>>, 1, n) = SubSeq(r, 1, n)  BY <1>1, <1>3, PrefixOfAppended
  <2> QED BY <1>5, <2>1
<1>8. /\ ToSet(t) \subseteq ToSet(r) \cup {e} /\ ToSet(r) \subseteq ToSet(t)
      /\ g.tail = "sound" => e \in ToSet(t)
  BY <1>5, <1>6
<1>9. ASSUME numbers'.logfile = numbers.logfile
      PROVE  /\ Written(numbers.logfile)' \subseteq Written(numbers.logfile) \cup {writing.entry}
             /\ Written(numbers.logfile) \subseteq Written(numbers.logfile)'
             /\ Lasting(numbers.logfile) \subseteq Lasting(numbers.logfile)'
             /\ SoundLog' => writing.entry \in Written(numbers.logfile)'
  <2>1. Written(numbers.logfile)' = ToSet(t) /\ Written(numbers.logfile) = ToSet(r)
        /\ SoundLog' = (g.tail = "sound")
    BY <1>4, <1>9 DEF Written, SoundLog, r, t
  <2>2. CASE PowerFails
    <3>1. /\ Lasting(numbers.logfile)' = ToSet(SubSeq(t, 1, n))
          /\ Lasting(numbers.logfile) = ToSet(SubSeq(r, 1, n))
      BY <1>4, <1>5, <1>9, <2>2 DEF Lasting, r, n, t
    <3> QED BY <1>7, <1>8, <2>1, <3>1 DEF e
  <2>3. CASE ~PowerFails
    <3>1. Lasting(numbers.logfile)' = ToSet(t) /\ Lasting(numbers.logfile) = ToSet(r)
      BY <1>4, <1>9, <2>3 DEF Lasting, r, t
    <3> QED BY <1>8, <2>1, <3>1 DEF e
  <2> QED BY <2>2, <2>3
<1> QED BY <1>4, <1>9

(* AddRecord. *)
LEMMA AddRecordStores ==
  ASSUME Given, DiskInv, ContentsInv, AddRecord
  PROVE  ContentsInv' /\ StoreStep
<1>1. /\ writing # None /\ writing.step = "log"
      /\ \E file \in Appends(logs[numbers.logfile], <<writing.entry>>) :
           logs' = [logs EXCEPT ![numbers.logfile] = file]
      /\ writing' = [writing EXCEPT !.step = AfterRecord(writing.sync)]
      /\ UNCHANGED <<current, manifests, tables, phase, version, numbers, mem, imm, edit, history,
                     counts>>
  BY DEF AddRecord, history
<1>2. phase = "open" /\ writing \in Writer /\ writing.entry \in Issued /\ writing.sync \in BOOLEAN
  BY <1>1, WriterIs
<1>3. AfterRecord(writing.sync) \in {"sync", "insert"}  BY <1>2 DEF AfterRecord
<1>4. writing' \in Writer /\ writing'.entry = writing.entry /\ writing'.sync = writing.sync
      /\ writing'.step = AfterRecord(writing.sync)
  <2> DEFINE step == AfterRecord(writing.sync)
  <2>1. step \in {"log", "sync", "insert"}  BY <1>3
  <2> HIDE DEF step
  <2>2. writing' = [writing EXCEPT !.step = step]  BY <1>1 DEF step
  <2>3. writing' \in Writer  BY <1>2, <2>1, <2>2, Zenon DEF Writer
  <2>4. /\ writing'.entry = writing.entry /\ writing'.sync = writing.sync /\ writing'.step = step
    BY <1>2, <2>2, Zenon DEF Writer
  <2> QED BY <2>3, <2>4 DEF step
<1>5. writing' # None  BY <1>4 DEF NoneAssumption
<1>6. /\ DOMAIN logs' = DOMAIN logs
      /\ \A l \in DOMAIN logs : l # numbers.logfile => logs'[l] = logs[l]
      /\ Written(numbers.logfile)' \subseteq Written(numbers.logfile) \cup {writing.entry}
      /\ Written(numbers.logfile) \subseteq Written(numbers.logfile)'
      /\ Lasting(numbers.logfile) \subseteq Lasting(numbers.logfile)'
      /\ SoundLog' => writing.entry \in Written(numbers.logfile)'
  <2>1. PICK file \in Appends(logs[numbers.logfile], <<writing.entry>>) :
          logs' = [logs EXCEPT ![numbers.logfile] = file]
    BY <1>1
  <2>2. LogTakes(file)  BY <1>1, LogTaken
  <2> QED BY <1>1, <2>1, <2>2, LogOfWriter
<1>7. numbers'.sequence \in Nat /\ current # None  BY <1>1, <1>2, OpenIs DEF Numbers
<1>8. counts.skips = 0 => WritingInv'
  <2> SUFFICES ASSUME counts.skips = 0 PROVE WritingInv'
    OBVIOUS
  <2>1. writing.entry \in doubtful /\ writing.entry \notin durable
    BY <1>1, <1>7 DEF ContentsInv, StoreInv, WritingInv
  <2>2. SoundLog' => writing'.entry \in Written(numbers.logfile)'  BY <1>4, <1>6
  <2>3. ~(writing'.step = "insert" /\ writing'.sync)
    <3>1. CASE writing.sync
      <4>1. writing'.step = "sync"  BY <1>4, <3>1 DEF AfterRecord
      <4> QED BY <4>1
    <3>2. CASE ~writing.sync
      BY <1>4, <3>2
    <3> QED BY <3>1, <3>2
  <2> QED BY <1>1, <1>4, <2>1, <2>2, <2>3 DEF WritingInv
<1> QED BY <1>1, <1>4, <1>5, <1>6, <1>7, <1>8, LogGrows

(* SyncLog: all that was written lasts. *)
LEMMA SyncLogStores ==
  ASSUME Given, DiskInv, ContentsInv, SyncLog
  PROVE  ContentsInv' /\ StoreStep
<1>1. /\ writing # None /\ writing.step = "sync"
      /\ logs' = [logs EXCEPT ![numbers.logfile] = Synced(@)]
      /\ writing' = [writing EXCEPT !.step = "insert"]
      /\ UNCHANGED <<current, manifests, tables, phase, version, numbers, mem, imm, edit, history,
                     counts>>
  BY DEF SyncLog, history
<1>2. phase = "open" /\ writing \in Writer  BY <1>1, WriterIs
<1>3. writing' \in Writer /\ writing'.entry = writing.entry /\ writing'.step = "insert"
  BY <1>1, <1>2 DEF Writer
<1>4. writing' # None  BY <1>3 DEF NoneAssumption
<1>5. numbers.logfile \in DOMAIN logs /\ current # None /\ numbers'.sequence \in Nat /\ Types
  BY <1>1, <1>2, OpenIs DEF Numbers, DiskInv
<1> DEFINE file == logs[numbers.logfile]
<1>6. /\ file \in FileOf(Issued) /\ file.records \in Seq(Issued)
      /\ DOMAIN logs' = DOMAIN logs /\ logs'[numbers.logfile] = Synced(file)
      /\ \A l \in DOMAIN logs : l # numbers.logfile => logs'[l] = logs[l]
  BY <1>1, <1>5 DEF Types, DiskTypes, Files, FileOf
<1> HIDE DEF file
<1>7. /\ Synced(file).records = file.records /\ Synced(file).synced = Len(file.records)
      /\ Synced(file).tail = file.tail
  BY <1>6, SyncedIsFile
<1>8. SubSeq(file.records, 1, Len(file.records)) = file.records  BY <1>6, WholePrefix
<1>9. logs'[numbers'.logfile].records = file.records /\ logs'[numbers'.logfile].synced = Len(file.records)
  BY <1>1, <1>6, <1>7
<1>10. Written(numbers.logfile)' = Written(numbers.logfile)  BY <1>9 DEF Written, file
<1>11. Lasting(numbers.logfile)' = Written(numbers.logfile)
  <2>1. Lasting(numbers.logfile)' = ToSet(file.records)  BY <1>8, <1>9 DEF Lasting
  <2> QED BY <2>1 DEF Written, file
<1>12. Lasting(numbers.logfile) \subseteq Lasting(numbers.logfile)'
  BY <1>5, <1>11, LastingIsWritten
<1>13. counts.skips = 0 => WritingInv'
  <2> SUFFICES ASSUME counts.skips = 0 PROVE WritingInv'
    OBVIOUS
  <2>1. /\ writing.entry \in doubtful /\ writing.entry \notin durable
        /\ SoundLog => writing.entry \in Written(numbers.logfile)
    BY <1>1, <1>5 DEF ContentsInv, StoreInv, WritingInv
  <2>2. SoundLog' = SoundLog  BY <1>1, <1>6, <1>7 DEF SoundLog, file
  <2> QED BY <1>1, <1>3, <1>10, <1>11, <2>1, <2>2 DEF WritingInv
<1> QED BY <1>1, <1>3, <1>4, <1>5, <1>6, <1>10, <1>12, <1>13, LogGrows

(* WriteFails: the record is there or not, and the tail is torn. *)
LEMMA WriteFailsStores ==
  ASSUME Given, DiskInv, ContentsInv, WriteFails
  PROVE  ContentsInv' /\ StoreStep
<1>1. /\ writing # None /\ writing.step \in {"log", "sync"}
      /\ counts' = [counts EXCEPT !.errors = @ + 1]
      /\ \/ logs' = logs
         \/ \E file \in {logs[numbers.logfile], Appended(logs[numbers.logfile], <<writing.entry>>)} :
              logs' = [logs EXCEPT ![numbers.logfile] = AfterFailure(file)]
      /\ numbers' = [numbers EXCEPT !.sequence = writing.entry.seq]
      /\ writing' = None
      /\ UNCHANGED <<current, manifests, tables, phase, version, mem, imm, edit, history>>
  BY DEF WriteFails, Fail, history
<1>2. phase = "open"  BY <1>1, WriterIs
<1>3. /\ numbers'.sequence = writing.entry.seq /\ numbers'.sequence \in Nat
      /\ numbers'.log = numbers.log /\ numbers'.logfile = numbers.logfile
  BY <1>1, SequenceTaken DEF Numbers
<1>4. counts'.skips = counts.skips  BY <1>1, <1>2, OpenIs DEF Counts
<1>5. /\ DOMAIN logs' = DOMAIN logs
      /\ \A l \in DOMAIN logs : l # numbers.logfile => logs'[l] = logs[l]
      /\ Written(numbers.logfile)' \subseteq Written(numbers.logfile) \cup {writing.entry}
      /\ Written(numbers.logfile) \subseteq Written(numbers.logfile)'
      /\ Lasting(numbers.logfile) \subseteq Lasting(numbers.logfile)'
  <2>1. CASE logs' = logs
    <3>1. /\ Written(numbers.logfile)' = Written(numbers.logfile)
          /\ Lasting(numbers.logfile)' = Lasting(numbers.logfile)
      BY <1>3, <2>1 DEF Written, Lasting
    <3> QED BY <2>1, <3>1
  <2>2. CASE \E file \in {logs[numbers.logfile], Appended(logs[numbers.logfile], <<writing.entry>>)} :
               logs' = [logs EXCEPT ![numbers.logfile] = AfterFailure(file)]
    <3>1. PICK file \in {logs[numbers.logfile], Appended(logs[numbers.logfile], <<writing.entry>>)} :
            logs' = [logs EXCEPT ![numbers.logfile] = AfterFailure(file)]
      BY <2>2
    <3>2. LogTakes(AfterFailure(file))  BY <1>1, LogTaken
    <3> QED BY <1>1, <1>3, <3>1, <3>2, LogOfWriter
  <2> QED BY <1>1, <2>1, <2>2
<1>6. WritingInv'  BY <1>1 DEF WritingInv
<1> QED BY <1>1, <1>3, <1>4, <1>5, <1>6, LogGrows

(* InsertInto: the write is found, and acknowledged, which leaves it in doubt
   when it is behind one that failed. *)
LEMMA InsertIntoStores ==
  ASSUME Given, DiskInv, TailInv, ContentsInv, InsertInto
  PROVE  ContentsInv' /\ StoreStep
<1> DEFINE e == writing.entry
<1>1. /\ writing # None /\ writing.step = "insert" /\ mem' = mem \cup {e}
      /\ numbers' = [numbers EXCEPT !.sequence = writing.entry.seq]
      /\ SoundLog => /\ acknowledged' = acknowledged \cup {e}
                     /\ durable' = (IF writing.sync THEN durable \cup {e} ELSE durable)
                     /\ doubtful' = doubtful \ {e}
      /\ ~SoundLog => UNCHANGED <<history>>
      /\ writing' = None
      /\ UNCHANGED <<current, manifests, logs, tables, phase, version, imm, recovering, edit, counts>>
  BY DEF InsertInto, SoundLog, disk, history
<1>2. /\ phase = "open" /\ writing.sync \in BOOLEAN /\ e \in Issued /\ e.seq \in Nat
      /\ current # None /\ Running /\ numbers \in Numbers
  BY <1>1, WriterIs, OpenIs
<1>3. /\ numbers'.sequence = e.seq /\ numbers'.log = numbers.log
      /\ numbers'.logfile = numbers.logfile
  BY <1>1, SequenceTaken
<1>4. /\ ReadSequences /\ OpenSequences /\ StoreInv /\ OrderInv
      /\ Latest.sequence <= numbers.sequence /\ e.seq = numbers.sequence + 1
  BY <1>1, <1>2 DEF ContentsInv, AgesInv, SequenceInv, WriterSequence
<1>5. numbers.sequence \in Nat /\ numbers.sequence <= numbers'.sequence /\ numbers'.sequence \in Nat
  BY <1>2, <1>3, <1>4 DEF Numbers
<1>6. SourceInv' /\ EditSequences'  BY <1>1, <1>2, <1>3, <1>5, EditStays
<1>7. /\ Reads' = Reads /\ Latest' = Latest
      /\ \A n : EntriesOf(n)' = EntriesOf(n)
      /\ \A n : LogEntries(n)' = LogEntries(n) /\ LastingEntries(n)' = LastingEntries(n)
      /\ \A l : Written(l)' = Written(l) /\ Lasting(l)' = Lasting(l)
      /\ \A s : Found(s)' = Found(s) /\ Kept(s)' = Kept(s)
  BY <1>1, SameFiles
<1> HIDE DEF e
<1>8. EntriesOf(version)' = EntriesOf(version) /\ Visible' = Visible \cup {e}
  <2>1. EntriesOf(version)' = EntriesOf(version)  BY <1>1 DEF EntriesOf
  <2>2. Visible' = Visible \cup {e}  BY <1>1, <2>1 DEF Visible
  <2> QED BY <2>1, <2>2
<1>9. Contents' = Contents \cup {e} /\ Contents = Visible  BY <1>1, <1>2, <1>8 DEF Contents
<1>10. /\ LogEntries(numbers.log)' = LogEntries(numbers.log)
       /\ LastingEntries(numbers.log)' = LastingEntries(numbers.log)
       /\ Written(numbers.logfile)' = Written(numbers.logfile)
       /\ Lasting(numbers.logfile)' = Lasting(numbers.logfile)
       /\ Found(Latest)' = Found(Latest)
  BY <1>3, <1>7
<1>11. OrderInv'
  <2>1. FoundByAny' = FoundByAny  BY <1>7 DEF FoundByAny
  <2>2. Logged' = Logged /\ UnderWay' = {} /\ UnderWay = {e}
    BY <1>1, <1>10 DEF Logged, UnderWay, e
  <2>3. Known' \subseteq Known  BY <1>1, <1>2, <1>8, <2>1, <2>2 DEF Known
  <2> QED BY <1>4, <2>3 DEF OrderInv
<1>12. SequenceInv'
  <2>1. ReadSequences'  BY <1>1, <1>4, <1>7 DEF ReadSequences, UpTo
  <2>2. RecoverySequences'  BY <1>1, <1>2 DEF RecoverySequences
  <2>3. OpenSequences'
    <3> DEFINE all == LogEntries(numbers.log) \cup UNION {LogEntries(s.log) : s \in Reads}
    <3>1. LogEntries(numbers.log)' \cup UNION {LogEntries(s.log)' : s \in Reads'} = all
      BY <1>7, <1>10
    <3>2. /\ UpTo(numbers.sequence, Visible)
          /\ \A f \in all : f.seq <= numbers.sequence \/ f = e
      BY <1>2, <1>4 DEF OpenSequences, e
    <3>3. Visible \subseteq Known /\ all \subseteq Known
      BY <1>2 DEF Known, Logged, FoundByAny, Found
    <3> HIDE DEF all
    <3>4. \A f \in Known : f.seq \in Nat  BY <1>2, KnownIs
    <3>5. \A f \in all : f.seq <= numbers'.sequence
      <4>1. ASSUME NEW f \in all PROVE f.seq <= numbers'.sequence
        <5>1. CASE f = e
          BY <1>2, <1>3, <5>1 DEF e
        <5>2. CASE f # e
          <6>1. f.seq <= numbers.sequence /\ f.seq \in Nat  BY <3>2, <3>3, <3>4, <5>2
          <6> QED BY <1>5, <6>1
        <5> QED BY <5>1, <5>2
      <4> QED BY <4>1
    <3>6. UpTo(numbers'.sequence, Visible \cup {e})
      <4>1. UpTo(numbers'.sequence, Visible)  BY <1>5, <3>2, <3>3, <3>4, UpToMore
      <4>2. e.seq <= numbers'.sequence  BY <1>3, <1>5
      <4> QED BY <4>1, <4>2 DEF UpTo
    <3> QED BY <1>8, <3>1, <3>5, <3>6 DEF OpenSequences, UpTo
  <2>4. WriterSequence'  BY <1>1 DEF WriterSequence
  <2>5. Latest'.sequence <= numbers'.sequence
    <3>1. Latest.sequence \in Nat
      <4>1. GoodRead(Latest)  BY <1>2, ReadingsAre DEF DiskInv
      <4> QED BY <4>1 DEF GoodRead, CompleteState
    <3> QED BY <1>4, <1>5, <1>7, <3>1
  <2> QED BY <1>6, <2>1, <2>2, <2>3, <2>4, <2>5 DEF SequenceInv
<1>13. counts.skips = 0 =>
         /\ PromiseInv /\ ServedInv /\ e \in doubtful /\ e \notin durable
         /\ SoundLog => /\ e \in Written(numbers.logfile)
                        /\ writing.sync => e \in Lasting(numbers.logfile)
  BY <1>1, <1>2, <1>4 DEF StoreInv, WritingInv, e
<1>14. StoreInv'
  <2> SUFFICES ASSUME counts.skips = 0
               PROVE  PromiseInv' /\ RecoveredInv' /\ ServedInv' /\ WritingInv'
    BY <1>1 DEF StoreInv
  <2>1. numbers.logfile \in DOMAIN logs /\ numbers.log <= numbers.logfile
        /\ \A s \in Reads : s.log <= numbers.logfile
    BY <1>2 DEF DiskInv, FilesInv, LogfileInv
  <2>2. /\ durable' \subseteq durable \cup {e} /\ acknowledged' \subseteq acknowledged \cup {e}
        /\ durable' \subseteq acknowledged'
        /\ doubtful' \subseteq doubtful /\ doubtful \subseteq doubtful' \cup {e}
        /\ e \in doubtful' \/ e \in Written(numbers.logfile)
        /\ e \in durable' => e \in Lasting(numbers.logfile)
    <3>1. CASE SoundLog
      BY <1>1, <1>13, <3>1 DEF PromiseInv
    <3>2. CASE ~SoundLog
      BY <1>1, <1>13, <3>2 DEF PromiseInv
    <3> QED BY <3>1, <3>2
  <2>7. e \in durable' => e \in LastingEntries(numbers.log) /\ \A s \in Reads : e \in Kept(s)
    BY <2>1, <2>2 DEF LastingEntries, LogsFrom, Kept
  <2>8. e \in doubtful' \/ e \in LogEntries(numbers.log) \cap Found(Latest)
    <3>1. Latest \in Reads  BY <1>2, ReadingsAre DEF DiskInv
    <3> QED BY <2>1, <2>2, <3>1 DEF LogEntries, LogsFrom, Found
  <2>3. PromiseInv'
    <3>1. ASSUME NEW s \in Reads' PROVE durable' \subseteq Kept(s)' /\ Found(s)' \subseteq Contents' \cup doubtful'
      <4>1. s \in Reads /\ Found(s)' = Found(s) /\ Kept(s)' = Kept(s)  BY <1>7
      <4>2. durable \subseteq Kept(s) /\ Found(s) \subseteq Contents \cup doubtful
        BY <1>13, <4>1 DEF PromiseInv
      <4>3. durable' \subseteq Kept(s)  BY <2>2, <2>7, <4>1, <4>2
      <4> QED BY <1>9, <2>2, <4>1, <4>2, <4>3
    <3>2. durable' \subseteq acknowledged' /\ acknowledged' \subseteq Contents'
      BY <1>9, <1>13, <2>2 DEF PromiseInv
    <3> QED BY <3>1, <3>2 DEF PromiseInv
  <2>4. RecoveredInv'  BY <1>1, <1>2 DEF RecoveredInv
  <2>5. ServedInv'
    <3>1. \A s \in Reads' : EntriesOf(version)' \subseteq EntriesOf(s.files)'
      BY <1>2, <1>7, <1>8, <1>13 DEF ServedInv
    <3>2. mem' \ doubtful' \subseteq Written(numbers.logfile)'
      BY <1>1, <1>2, <1>10, <1>13, <2>2 DEF ServedInv
    <3>3. durable' \cap mem' \subseteq Lasting(numbers.logfile)'
      BY <1>1, <1>2, <1>10, <1>13, <2>2 DEF ServedInv
    <3>4. imm' # None => imm' \ doubtful' \subseteq LogEntries(numbers.log)' \cap Found(Latest)'
      BY <1>1, <1>2, <1>10, <1>13, <2>2, <2>8 DEF ServedInv
    <3>5. imm' # None => durable' \cap imm' \subseteq LastingEntries(numbers.log)'
      BY <1>1, <1>2, <1>10, <1>13, <2>2, <2>7 DEF ServedInv
    <3>6. LogEntries(numbers.log)' \subseteq Visible' \cup doubtful'
      BY <1>1, <1>2, <1>8, <1>10, <1>13, <2>2 DEF ServedInv
    <3> QED BY <3>1, <3>2, <3>3, <3>4, <3>5, <3>6 DEF ServedInv
  <2>6. WritingInv'  BY <1>1 DEF WritingInv
  <2> QED BY <2>3, <2>4, <2>5, <2>6
<1>15. StoreStep
  <2> SUFFICES ASSUME counts'.skips = 0 PROVE Store!Next
    BY DEF StoreStep
  <2>1. e \in doubtful  BY <1>1, <1>13
  <2>3. e \in Entry
    <3>1. writing \in Writer  BY <1>1, WriterIs
    <3> QED BY <3>1 DEF Writer, e
  <2>2. CASE SoundLog
    <3>1. Store!Acknowledge(e, writing.sync)  BY <1>1, <1>9, <2>1, <2>2 DEF Store!Acknowledge
    <3> QED BY <1>2, <2>3, <3>1 DEF Store!Next
  <2>4. CASE ~SoundLog
    <3>1. doubtful # {e}  BY <1>1, <1>2, <2>4 DEF TailInv, LogTail, SoundLog, e
    <3>2. Store!AcknowledgeInDoubt(e)
      BY <1>1, <1>9, <2>1, <2>4, <3>1 DEF Store!AcknowledgeInDoubt
    <3> QED BY <2>3, <3>2 DEF Store!Next
  <2> QED BY <2>2, <2>4
<1> QED BY <1>6, <1>11, <1>12, <1>14, <1>15 DEF ContentsInv, AgesInv

(* MakeRoomForWrite: a full memtable waits to be flushed; its log is kept. *)
LEMMA SwitchMemTableStores ==
  ASSUME Given, DiskInv, ContentsInv, SwitchMemTable
  PROVE  ContentsInv' /\ StoreStep
<1>0. PICK k : k = numbers.next
  OBVIOUS
<1>1. /\ phase = "open" /\ writing = None /\ imm = None
      /\ logs' = With(logs, k, NewFile)
      /\ numbers' = [numbers EXCEPT !.logfile = k, !.next = @ + 1]
      /\ imm' = mem /\ mem' = {}
      /\ UNCHANGED <<current, manifests, tables, phase, version, recovering, edit, writing,
                     history, counts>>
  BY <1>0 DEF SwitchMemTable, Ready, history
<1>2. /\ current # None /\ Running /\ numbers \in Numbers /\ Types
      /\ k \in Nat /\ \A l \in DOMAIN logs : l < k
  BY <1>0, <1>1, OpenIs, NextIsNew DEF DiskInv
<1>3. /\ numbers.logfile \in DOMAIN logs /\ numbers.log <= numbers.logfile
      /\ \A s \in Reads : s.log <= numbers.logfile
      /\ DOMAIN logs \subseteq Nat
  BY <1>1, <1>2 DEF DiskInv, FilesInv, LogfileInv, Types, DiskTypes, Files
<1>4. k \notin DOMAIN logs  BY <1>2, <1>3
<1>5. /\ numbers'.logfile = k /\ numbers'.log = numbers.log /\ numbers'.sequence = numbers.sequence
  BY <1>1, <1>2 DEF Numbers
<1>6. /\ \A l \in DOMAIN logs : Written(l)' = Written(l) /\ Lasting(l)' = Lasting(l)
      /\ Written(k)' = {} /\ Lasting(k)' = {}
      /\ \A n : LogEntries(n)' = LogEntries(n) /\ LastingEntries(n)' = LastingEntries(n)
  BY <1>1, <1>4, LogAdded
<1>7. Reads' = Reads /\ Latest' = Latest /\ \A n : EntriesOf(n)' = EntriesOf(n)
  BY <1>1, TablesStay DEF Reads, Latest
<1>8. \A s : Found(s)' = Found(s) /\ Kept(s)' = Kept(s)  BY <1>6, <1>7 DEF Found, Kept
<1>9. EntriesOf(version)' = EntriesOf(version) /\ Visible' = Visible /\ Contents' = Contents
  <2>1. EntriesOf(version)' = EntriesOf(version)  BY <1>1 DEF EntriesOf
  <2>2. mem # None
    <3>1. mem \subseteq Issued /\ counts.writes \in Nat /\ counts.writes <= MaxWrites
      BY <1>2 DEF Types, ProcessTypes, HistoryTypes, Counts
    <3>2. MaxWrites \in Nat  BY DEF StorageAssumption
    <3>3. 1..counts.writes \subseteq 1..MaxWrites  BY <3>1, <3>2
    <3>4. mem \in SUBSET Entry  BY <3>1, <3>3 DEF Issued, Entry
    <3> QED BY <3>4 DEF NoneAssumption
  <2>3. Visible' = Visible  BY <1>1, <2>1, <2>2 DEF Visible
  <2> QED BY <1>1, <2>1, <2>3 DEF Contents
<1>10. /\ LogEntries(numbers.log)' = LogEntries(numbers.log)
       /\ LastingEntries(numbers.log)' = LastingEntries(numbers.log)
       /\ Found(Latest)' = Found(Latest)
  BY <1>5, <1>6, <1>7, <1>8
<1>11. /\ SourceInv /\ ReadSequences /\ OpenSequences /\ EditSequences /\ StoreInv /\ OrderInv
       /\ Latest.sequence <= numbers.sequence
  BY <1>2 DEF ContentsInv, AgesInv, SequenceInv
<1>12. edit # None => edit.by # "flush"  BY <1>1 DEF DiskInv, FilesInv, EditInv, FlushInv
<1>13. SourceInv'
  <2>1. /\ EntriesOf(edit.record.add)' = EntriesOf(edit.record.add)
        /\ EntriesOf(edit.record.del)' = EntriesOf(edit.record.del)
    BY <1>1 DEF EntriesOf
  <2>2. Committed' = Committed  BY <1>1 DEF Committed
  <2> QED BY <1>1, <1>5, <1>7, <1>11, <1>12, <2>1, <2>2 DEF SourceInv
<1>14. OrderInv'
  <2>1. FoundByAny' = FoundByAny  BY <1>7, <1>8 DEF FoundByAny
  <2>2. Logged' = Logged /\ UnderWay' = UnderWay  BY <1>1, <1>10 DEF Logged, UnderWay
  <2>3. Known' = Known  BY <1>1, <1>9, <2>1, <2>2 DEF Known
  <2> QED BY <1>11, <2>3 DEF OrderInv
<1>15. SequenceInv'
  <2>1. ReadSequences'  BY <1>1, <1>7, <1>11 DEF ReadSequences, UpTo
  <2>2. RecoverySequences' /\ WriterSequence'  BY <1>1 DEF RecoverySequences, WriterSequence
  <2>3. EditSequences'
    <3>1. EntriesOf(version \cup edit.record.add)' = EntriesOf(version \cup edit.record.add)
      BY <1>1 DEF EntriesOf
    <3> QED BY <1>1, <1>5, <1>7, <1>11, <3>1 DEF EditSequences, UpTo
  <2>4. OpenSequences'
    <3>1. UNION {LogEntries(s.log)' : s \in Reads'} = UNION {LogEntries(s.log) : s \in Reads}
      BY <1>6, <1>7
    <3> QED BY <1>1, <1>5, <1>9, <1>10, <1>11, <3>1 DEF OpenSequences, UpTo
  <2>5. Latest'.sequence <= numbers'.sequence  BY <1>5, <1>7, <1>11
  <2> QED BY <2>1, <2>2, <2>3, <2>4, <2>5 DEF SequenceInv
<1>16. StoreInv'
  <2> SUFFICES ASSUME counts.skips = 0
               PROVE  PromiseInv' /\ RecoveredInv' /\ ServedInv' /\ WritingInv'
    BY <1>1 DEF StoreInv
  <2>1. PromiseInv /\ ServedInv  BY <1>2, <1>11 DEF StoreInv
  <2>2. PromiseInv'  BY <1>1, <1>7, <1>8, <1>9, <2>1 DEF PromiseInv
  <2>3. RecoveredInv' /\ WritingInv'  BY <1>1 DEF RecoveredInv, WritingInv
  <2>4. ServedInv'
    <3>1. \A s \in Reads' : EntriesOf(version)' \subseteq EntriesOf(s.files)'
      BY <1>1, <1>7, <1>9, <2>1 DEF ServedInv
    <3>2. Written(numbers.logfile) \subseteq LogEntries(numbers.log) \cap Found(Latest)
      <4>1. Latest \in Reads  BY <1>2, ReadingsAre DEF DiskInv
      <4>2. numbers.logfile \in LogsFrom(numbers.log) \cap LogsFrom(Latest.log)
        BY <1>3, <4>1 DEF LogsFrom
      <4> QED BY <4>2 DEF LogEntries, Found
    <3>3. Lasting(numbers.logfile) \subseteq LastingEntries(numbers.log)
      <4>1. numbers.logfile \in LogsFrom(numbers.log)  BY <1>3 DEF LogsFrom
      <4> QED BY <4>1 DEF LastingEntries
    <3>4. /\ imm' \ doubtful' \subseteq LogEntries(numbers.log)' \cap Found(Latest)'
          /\ durable' \cap imm' \subseteq LastingEntries(numbers.log)'
      BY <1>1, <1>10, <2>1, <3>2, <3>3 DEF ServedInv
    <3>5. LogEntries(numbers.log)' \subseteq Visible' \cup doubtful'
      BY <1>1, <1>9, <1>10, <2>1 DEF ServedInv
    <3> QED BY <1>1, <3>1, <3>4, <3>5 DEF ServedInv
  <2> QED BY <2>2, <2>3, <2>4
<1>17. StoreStep  BY <1>1, <1>9 DEF StoreStep, Store!vars
<1> QED BY <1>13, <1>14, <1>15, <1>16, <1>17 DEF ContentsInv, AgesInv

-------------------------------------------------------------------------------
(* Crashes. *)

(* After a crash nothing is in memory. *)
LEMMA CrashedIs ==
  ASSUME ToClosed
  PROVE  /\ phase' = "closed" /\ Visible' = {} /\ UnderWay' = {} /\ Logged' = {} /\ ~Running'
         /\ SourceInv' /\ RecoverySequences' /\ EditSequences' /\ OpenSequences' /\ WriterSequence'
         /\ RecoveredInv' /\ ServedInv' /\ WritingInv'
<1>1. /\ phase' = "closed" /\ version' = {} /\ mem' = {} /\ imm' = None /\ edit' = None /\ writing' = None
  BY DEF ToClosed
<1>2. Visible' = {} /\ UnderWay' = {} /\ Logged' = {} /\ ~Running'
  BY <1>1 DEF Visible, UnderWay, Logged, Running, EntriesOf
<1>3. SourceInv' /\ RecoverySequences' /\ EditSequences' /\ OpenSequences' /\ WriterSequence'
  BY <1>1 DEF SourceInv, RecoverySequences, EditSequences, OpenSequences, WriterSequence
<1>4. RecoveredInv' /\ ServedInv' /\ WritingInv'
  BY <1>1 DEF RecoveredInv, ServedInv, WritingInv
<1> QED BY <1>1, <1>2, <1>3, <1>4

(* The process dies: what it had acknowledged is in the files, and perhaps
   what was under way, had failed or was behind one that failed. *)
LEMMA ProcessCrashStores ==
  ASSUME Given, DiskInv, TailInv, ContentsInv, ProcessCrash
  PROVE  ContentsInv' /\ StoreStep
<1>1. /\ counts' = [counts EXCEPT !.crashes = @ + 1] /\ ToClosed
      /\ UNCHANGED <<current, manifests, logs, tables, history>>
  BY DEF ProcessCrash, Crash, disk
<1>2. DiskInv'  BY ProcessCrashKeeps
<1>3. counts'.skips = counts.skips  BY <1>1 DEF DiskInv, Types, HistoryTypes, Counts
<1>4. CASE current = None
  BY <1>1, <1>2, <1>4, NothingHappens
<1>5. CASE current # None
  <2>1. /\ Reads' = Reads /\ Latest' = Latest
        /\ \A n : EntriesOf(n)' = EntriesOf(n)
        /\ \A s : Found(s)' = Found(s) /\ Kept(s)' = Kept(s)
    BY <1>1, SameFiles
  <2>2. /\ phase' = "closed" /\ Visible' = {} /\ UnderWay' = {} /\ Logged' = {} /\ ~Running'
        /\ SourceInv' /\ RecoverySequences' /\ EditSequences' /\ OpenSequences' /\ WriterSequence'
        /\ RecoveredInv' /\ ServedInv' /\ WritingInv'
    BY <1>1, CrashedIs
  <2>3. Contents' = Found(Latest)  BY <1>1, <1>2, <1>5, <2>1, <2>2, StoredNext DEF StoredIs
  <2>4. ReadSequences /\ OrderInv /\ StoreInv  BY DEF ContentsInv, AgesInv, SequenceInv
  <2>5. AgesInv'
    <3>1. ReadSequences'  BY <1>1, <2>1, <2>4 DEF ReadSequences, UpTo
    <3>2. FoundByAny' = FoundByAny  BY <2>1 DEF FoundByAny
    <3>3. Known' \subseteq Known  BY <1>1, <1>5, <2>2, <3>2 DEF Known
    <3> QED BY <2>2, <2>4, <3>1, <3>3 DEF AgesInv, SequenceInv, OrderInv
  <2>6. counts.skips = 0 =>
          /\ PromiseInv /\ Contents \ doubtful \subseteq Found(Latest)
          /\ Found(Latest) \subseteq Contents \cup doubtful
    <3> SUFFICES ASSUME counts.skips = 0
                 PROVE  /\ PromiseInv /\ Contents \ doubtful \subseteq Found(Latest)
                        /\ Found(Latest) \subseteq Contents \cup doubtful
      OBVIOUS
    <3>1. PromiseInv  BY <1>5, <2>4 DEF StoreInv
    <3>2. Latest \in Reads  BY <1>5, ReadingsAre DEF DiskInv
    <3> QED BY <1>5, <2>4, <3>1, <3>2, ContentsAreFound DEF PromiseInv
  <2>7. StoreInv'
    <3> SUFFICES ASSUME counts.skips = 0 PROVE PromiseInv'
      BY <1>3, <2>2 DEF StoreInv
    <3>1. ASSUME NEW s \in Reads' PROVE durable' \subseteq Kept(s)' /\ Found(s)' \subseteq Contents' \cup doubtful'
      <4>1. s \in Reads /\ Found(s)' = Found(s) /\ Kept(s)' = Kept(s)  BY <2>1
      <4>2. durable \subseteq Kept(s) /\ Found(s) \subseteq Contents \cup doubtful
        BY <2>6, <4>1 DEF PromiseInv
      <4> QED BY <1>1, <2>3, <2>6, <4>1, <4>2
    <3>2. durable' \subseteq acknowledged' /\ acknowledged' \subseteq Contents'
      BY <1>1, <2>3, <2>6 DEF PromiseInv, TailInv, DoubtInv
    <3> QED BY <3>1, <3>2 DEF PromiseInv
  <2>8. StoreStep
    <3> SUFFICES ASSUME counts'.skips = 0 PROVE Store!Next
      BY DEF StoreStep
    <3> DEFINE d == Found(Latest) \cap doubtful
    <3>1. d \in SUBSET doubtful /\ Contents' = (Contents \ doubtful) \cup d  BY <1>3, <2>3, <2>6
    <3>2. Store!ProcessCrash  BY <1>1, <3>1 DEF Store!ProcessCrash
    <3> QED BY <3>2 DEF Store!Next
  <2> QED BY <2>2, <2>5, <2>7, <2>8 DEF ContentsInv
<1> QED BY <1>4, <1>5

(* What a failing machine leaves of a log is what had lasted and perhaps more. *)
LEMMA LogsTorn ==
  ASSUME Types, PowerFails, logs' \in Remains(logs)
  PROVE  \A n : /\ LastingEntries(n) \subseteq LastingEntries(n)'
                /\ LogEntries(n)' \subseteq LogEntries(n)
                /\ LastingEntries(n)' = LogEntries(n)'
<1>1. /\ Files(logs, Issued) /\ DOMAIN logs' = DOMAIN logs
      /\ \A x \in DOMAIN logs : \E n \in 0..Len(logs[x].records) :
           logs[x].synced <= n /\ logs'[x] = Torn(logs[x], n)
  BY FilesTorn DEF Types, DiskTypes
<1>2. ASSUME NEW l \in DOMAIN logs
      PROVE  /\ Lasting(l) \subseteq Lasting(l)' /\ Written(l)' \subseteq Written(l)
             /\ Lasting(l)' = Written(l)'
  <2> DEFINE r == logs[l].records
             k == logs[l].synced
  <2>1. PICK n \in 0..Len(r) : k <= n /\ logs'[l] = Torn(logs[l], n)
    BY <1>1
  <2>2. r \in Seq(Issued) /\ k \in Nat /\ Len(r) \in Nat  BY <1>1 DEF Files, FileOf
  <2>3. logs'[l].records = SubSeq(r, 1, n) /\ logs'[l].synced = n
    BY <1>1, <2>1, TornIsFile DEF Files
  <2>4. /\ Lasting(l) = ToSet(SubSeq(r, 1, k)) /\ Written(l) = ToSet(r)  BY DEF Lasting, Written
  <2> HIDE DEF r, k
  <2> DEFINE t == SubSeq(r, 1, n)
             b == SubSeq(r, 1, k)
  <2>5. /\ t \in Seq(Issued) /\ Len(t) = n /\ \A i \in 1..n : t[i] = r[i]
        /\ b \in Seq(Issued) /\ Len(b) = k /\ \A i \in 1..k : b[i] = r[i]
    BY <2>1, <2>2, FirstElements
  <2>6. Lasting(l)' = ToSet(SubSeq(t, 1, n)) /\ Written(l)' = ToSet(t)
    BY <2>3 DEF Lasting, Written
  <2> HIDE DEF t, b
  <2>7. SubSeq(t, 1, n) = t  BY <2>5, WholePrefix
  <2>8. DOMAIN t = 1..n /\ DOMAIN b = 1..k /\ DOMAIN r = 1..Len(r) /\ 1..k \subseteq 1..n
        /\ 1..n \subseteq 1..Len(r)
    BY <2>1, <2>2, <2>5
  <2>9. ToSet(t) \subseteq ToSet(r)  BY <2>5, <2>8 DEF ToSet
  <2>10. ToSet(b) \subseteq ToSet(t)
    <3>1. \A i \in 1..k : b[i] = t[i]  BY <2>5, <2>8
    <3> QED BY <2>8, <3>1 DEF ToSet
  <2> QED BY <2>4, <2>6, <2>7, <2>9, <2>10 DEF b
<1>3. ASSUME NEW n
      PROVE  /\ LastingEntries(n) \subseteq LastingEntries(n)'
             /\ LogEntries(n)' \subseteq LogEntries(n)
             /\ LastingEntries(n)' = LogEntries(n)'
  <2>1. LogsFrom(n)' = LogsFrom(n) /\ LogsFrom(n) \subseteq DOMAIN logs  BY <1>1 DEF LogsFrom
  <2>2. LastingEntries(n) \subseteq LastingEntries(n)'  BY <1>2, <2>1 DEF LastingEntries
  <2>3. LogEntries(n)' \subseteq LogEntries(n)  BY <1>2, <2>1 DEF LogEntries
  <2>4. LastingEntries(n)' = LogEntries(n)'  BY <1>2, <2>1 DEF LastingEntries, LogEntries
  <2> QED BY <2>2, <2>3, <2>4
<1> QED BY <1>3

(* The machine fails: a MANIFEST may be found as it was, and each log has
   what was synced, so what was synced is found. *)
LEMMA MachineCrashStores ==
  ASSUME Given, Options, DiskInv, ContentsInv, MachineCrash
  PROVE  ContentsInv' /\ StoreStep
<1>1. /\ PowerFails /\ counts' = [counts EXCEPT !.crashes = @ + 1] /\ ToClosed
      /\ logs' \in Remains(logs) /\ UNCHANGED <<current, tables, durable>>
      /\ acknowledged' = acknowledged \cap Recoverable' /\ doubtful' = {}
  BY DEF MachineCrash, Crash
<1>2. current # None /\ current' # None /\ Reads' = {Latest'} /\ Latest' \in Reads
  BY MachineCrashIs
<1>3. DiskInv' /\ Types  BY MachineCrashKeeps DEF DiskInv
<1>4. counts'.skips = counts.skips  BY <1>1 DEF DiskInv, Types, HistoryTypes, Counts
<1>5. /\ phase' = "closed" /\ Visible' = {} /\ UnderWay' = {} /\ Logged' = {} /\ ~Running'
      /\ SourceInv' /\ RecoverySequences' /\ EditSequences' /\ OpenSequences' /\ WriterSequence'
      /\ RecoveredInv' /\ ServedInv' /\ WritingInv'
  BY <1>1, CrashedIs
<1>6. \A n : EntriesOf(n)' = EntriesOf(n)  BY <1>1, TablesStay
<1>7. \A n : /\ LastingEntries(n) \subseteq LastingEntries(n)'
             /\ LogEntries(n)' \subseteq LogEntries(n)
             /\ LastingEntries(n)' = LogEntries(n)'
  BY <1>1, <1>3, LogsTorn
<1>8. \A s : Kept(s) \subseteq Kept(s)' /\ Found(s)' \subseteq Found(s) /\ Kept(s)' = Found(s)'
  BY <1>6, <1>7 DEF Kept, Found
<1>9. PICK r \in Reads : r = Latest'
  BY <1>2
<1>10. Found(Latest)' = Found(r)' /\ Reads' = {r}  BY <1>2, <1>9 DEF Found
<1>11. Contents' = Found(r)' /\ Recoverable' = Found(r)'
  BY <1>2, <1>3, <1>5, <1>10, StoredNext DEF StoredIs
<1>12. ReadSequences /\ OrderInv /\ StoreInv  BY DEF ContentsInv, AgesInv, SequenceInv
<1>13. AgesInv'
  <2>1. ReadSequences'
    <3>1. r.sequence \in Nat  BY <1>2, <1>9 DEF DiskInv, ReadsInv, GoodRead, CompleteState
    <3>2. UpTo(r.sequence, EntriesOf(r.files))  BY <1>2, <1>9, <1>12 DEF ReadSequences
    <3> QED BY <1>6, <1>9, <1>10, <3>1, <3>2 DEF ReadSequences, UpTo
  <2>2. FoundByAny' = Found(r)' /\ Found(r) \subseteq FoundByAny  BY <1>9, <1>10 DEF FoundByAny
  <2>3. Known' \subseteq Known  BY <1>2, <1>5, <1>8, <2>2 DEF Known
  <2> QED BY <1>5, <1>12, <2>1, <2>3 DEF AgesInv, SequenceInv, OrderInv
<1>14. counts.skips = 0 =>
         /\ PromiseInv /\ durable \subseteq Found(r)' /\ Found(r)' \subseteq Contents \cup doubtful
  <2> SUFFICES ASSUME counts.skips = 0
               PROVE  /\ PromiseInv /\ durable \subseteq Found(r)'
                      /\ Found(r)' \subseteq Contents \cup doubtful
    OBVIOUS
  <2>1. PromiseInv  BY <1>2, <1>12 DEF StoreInv
  <2>2. durable \subseteq Kept(r) /\ Found(r) \subseteq Contents \cup doubtful
    BY <1>9, <2>1 DEF PromiseInv
  <2> QED BY <1>8, <2>1, <2>2
<1>15. StoreInv'
  <2> SUFFICES ASSUME counts.skips = 0 PROVE PromiseInv'
    BY <1>4, <1>5 DEF StoreInv
  <2>1. ASSUME NEW s \in Reads' PROVE durable' \subseteq Kept(s)' /\ Found(s)' \subseteq Contents' \cup doubtful'
    <3>1. s = r  BY <1>10
    <3>2. Kept(s)' = Found(r)' /\ Found(s)' = Found(r)'  BY <1>8, <3>1
    <3> QED BY <1>1, <1>11, <1>14, <3>2
  <2>2. durable' \subseteq acknowledged' /\ acknowledged' \subseteq Contents'
    BY <1>1, <1>11, <1>14 DEF PromiseInv
  <2> QED BY <2>1, <2>2 DEF PromiseInv
<1>16. StoreStep
  <2> SUFFICES ASSUME counts'.skips = 0 PROVE Store!Next
    BY DEF StoreStep
  <2>1. Store!MachineCrash  BY <1>1, <1>4, <1>11, <1>14 DEF Store!MachineCrash
  <2> QED BY <2>1 DEF Store!Next
<1> QED BY <1>5, <1>13, <1>15, <1>16 DEF ContentsInv

-------------------------------------------------------------------------------
(* The theorems about what is stored. *)

(* Every step keeps what is stored, or is a step of the abstract store. *)
LEMMA NextKeepsContents ==
  ASSUME Given, Options, DiskInv, TailInv, ContentsInv, [Next]_vars
  PROVE  ContentsInv' /\ StoreStep
<1>1. CASE Opening
  BY <1>1, NewDBStores, SetCurrentOfNewDBStores, RecoverVersionStores, RecoverLogFileStores,
     SkipLogFileStores, NewLogStores, OpenFailsStores DEF Opening
<1>2. CASE Applying
  BY <1>2, WriteManifestStores, SyncManifestStores, SetCurrentFileStores, InstallVersionStores,
     LogAndApplyFailsStores DEF Applying
<1>3. CASE Deleting
  BY <1>3, DeleteFileStores, AllDeletedStores DEF Deleting
<1>4. CASE Writing
  BY <1>4, BeginWriteStores, AddRecordStores, SyncLogStores, InsertIntoStores, WriteFailsStores,
     SwitchMemTableStores DEF Writing
<1>5. CASE Compacting
  BY <1>5, StartFlushStores, BuildTableStores, BuildTableFailsStores,
     OpenCompactionOutputFileStores, InstallCompactionResultsStores, CleanupCompactionStores
     DEF Compacting
<1>6. CASE Reading
  BY <1>6, ReadingStores
<1>7. CASE Crashing
  BY <1>7, ProcessCrashStores, MachineCrashStores DEF Crashing
<1>8. CASE UNCHANGED vars
  <2>1. UNCHANGED <<current, manifests, logs, tables, phase, version, numbers, mem, imm,
                    recovering, edit, writing, history, counts>>
    BY <1>8 DEF vars, disk, process, history
  <2> QED BY <2>1, AllStays
<1> QED BY <1>1, <1>2, <1>3, <1>4, <1>5, <1>6, <1>7, <1>8 DEF Next

(* A database that was never opened stores nothing. *)
LEMMA ContentsInit ==
  ASSUME Given, Init
  PROVE  ContentsInv /\ Store!Init
<1>1. DiskInv /\ current = None  BY DiskInit DEF Init
<1>2. ContentsInv /\ Contents = {} /\ durable = {} /\ doubtful = {}  BY <1>1, NothingStored
<1> QED BY <1>2 DEF Store!Init

(* Where the entries of tables come from, how old they are, and that nothing
   but what is in doubt, as what is behind a failed append is, gets lost on
   the way from a log through a memtable and a table to the next; the latter
   while no log was passed over and the MANIFEST has no record behind a failed
   one. *)
THEOREM ContentsInvariant ==
  ASSUME Options
  PROVE  Spec => []ContentsInv
<1>1. Spec => [](DiskInv /\ TailInv)  BY DiskInvariant
<1>2. Init => ContentsInv  BY StorageAssumption, NoneAssumption, ContentsInit
<1>3. DiskInv /\ TailInv /\ ContentsInv /\ [Next]_vars => ContentsInv'
  BY StorageAssumption, NoneAssumption, NextKeepsContents
<1> QED BY <1>1, <1>2, <1>3, PTL DEF Spec

(* LaterWins, from the invariant. *)
LEMMA ContentsInvOrders ==
  ASSUME Given, DiskInv, ContentsInv
  PROVE  LaterWins
<1>1. OrderInv  BY DEF ContentsInv, AgesInv
<1>2. CASE current # None
  <2>1. Recoverable = Found(Latest) /\ Latest \in Reads
    BY <1>2, RecoverableIs, ReadingsAre DEF DiskInv
  <2>2. Recoverable \cup Visible \subseteq Known  BY <1>2, <2>1 DEF Known, FoundByAny
  <2> QED BY <1>1, <2>2 DEF LaterWins, OrderInv
<1>3. CASE current = None
  <2>1. phase \in {"closed", "created"}  BY <1>3 DEF DiskInv, FilesInv, UnbornInv
  <2>2. version = {} /\ mem = {} /\ imm = None  BY <2>1 DEF DiskInv, FilesInv, PhaseInv
  <2>3. Recoverable = {} /\ Visible = {}  BY <1>3, <2>2, RecoverableIs DEF Visible, EntriesOf
  <2> QED BY <2>3 DEF LaterWins
<1> QED BY <1>2, <1>3

(* WritesSurvive, from the invariant. *)
LEMMA ContentsInvKeepsWrites ==
  ASSUME Given, DiskInv, TailInv, ContentsInv
  PROVE  WritesSurvive
<1> SUFFICES ASSUME counts.skips = 0 PROVE SyncedSurvives /\ AcknowledgedRecoverable
  BY DEF WritesSurvive
<1>1. CASE current # None
  <2>1. StoreInv /\ PromiseInv  BY <1>1 DEF ContentsInv, StoreInv
  <2>2. Contents \ doubtful \subseteq Found(Latest) /\ Recoverable = Found(Latest)
    BY <1>1, <2>1, ContentsAreFound, RecoverableIs
  <2>3. acknowledged \subseteq Recoverable /\ durable \subseteq acknowledged
    BY <2>1, <2>2 DEF PromiseInv, TailInv, DoubtInv
  <2>4. phase = "open" => durable \subseteq Visible  BY <2>1, <2>3 DEF PromiseInv, Contents
  <2> QED BY <2>3, <2>4 DEF SyncedSurvives, AcknowledgedRecoverable
<1>2. CASE current = None
  <2>1. durable = {} /\ acknowledged = {}  BY <1>2, NothingStored
  <2> QED BY <2>1 DEF SyncedSurvives, AcknowledgedRecoverable
<1> QED BY <1>1, <1>2

(* Of two writes that a reader may find, now or after the next recovery, the
   later one has the larger sequence number. *)
THEOREM LaterWinsAlways ==
  ASSUME Options
  PROVE  Spec => []LaterWins
<1>1. Spec => [](DiskInv /\ TailInv) /\ []ContentsInv  BY DiskInvariant, ContentsInvariant
<1>2. DiskInv /\ ContentsInv => LaterWins
  BY StorageAssumption, NoneAssumption, ContentsInvOrders
<1> QED BY <1>1, <1>2, PTL

(* A write that was acknowledged can be recovered from the files until the
   machine fails, and one made with sync always: if no append to its log had
   failed before it, no log was passed over and the MANIFEST has no record
   behind a failed one. *)
THEOREM WritesSurviveAlways ==
  ASSUME Options
  PROVE  Spec => []WritesSurvive
<1>1. Spec => [](DiskInv /\ TailInv) /\ []ContentsInv  BY DiskInvariant, ContentsInvariant
<1>2. DiskInv /\ TailInv /\ ContentsInv => WritesSurvive
  BY StorageAssumption, NoneAssumption, ContentsInvKeepsWrites
<1> QED BY <1>1, <1>2, PTL

(* Every step of the database is a step of the store, or none of its, while no
   log was passed over and the MANIFEST has no record behind a failed one. *)
THEOREM StorageImplementsStore ==
  ASSUME Options
  PROVE  Spec => ImplementsStore
<1>1. Spec => [](DiskInv /\ TailInv) /\ []ContentsInv  BY DiskInvariant, ContentsInvariant
<1>2. Init => Store!Init  BY StorageAssumption, NoneAssumption, ContentsInit
<1>3. DiskInv /\ TailInv /\ ContentsInv /\ [Next]_vars => [counts'.skips = 0 => Store!Next]_(Store!vars)
  BY StorageAssumption, NoneAssumption, NextKeepsContents DEF StoreStep
<1> QED BY <1>1, <1>2, <1>3, PTL DEF Spec, ImplementsStore
===============================================================================
