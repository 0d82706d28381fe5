--------------------------- MODULE SkipListProofs ----------------------------
(***************************************************************************)
(* Proofs about the skip list (db/skiplist.h), for any number of keys,     *)
(* levels and operations: a reader that searches without a lock beside a   *)
(* writer, and may read any store to a link that C++'s memory model        *)
(* allows, follows no uninitialised link, and what it finds is right; and  *)
(* between inserts every level is a sorted list of what it should have.    *)
(***************************************************************************)
EXTENDS SkipList, DataLemmas

(* Facts about the log.  Know(k, l, t): one of the first t stores puts k on
   level l.  Set(n, l, t): one of them sets node n's link on level l. *)
Know(k, l, t) == \E j \in 1..t : log[j].value = k /\ log[j].level = l
Set(n, l, t) == \E j \in 1..t : log[j].node = n /\ log[j].level = l

StoreType == [node : 0..MaxKey, level : Levels, value : 1..Nil]

(* Links lead to greater keys, on levels that are in use. *)
Sorted ==
  \A i \in 1..Len(log) : log[i].node < log[i].value /\ log[i].level < max_height_

(* A node is put on a level only after its links on that level and all below
   are set, and level by level. *)
Initialised ==
  \A i \in 1..Len(log) : log[i].value \in Keys =>
    /\ \A l \in 0..log[i].level : Set(log[i].value, l, i - 1)
    /\ log[i].level > 0 => Know(log[i].value, log[i].level - 1, Len(log))

(* No link passes over a key of its level: one that a store j puts between a
   node and where it led was not there before, and by then the node's link
   has been set again. *)
Tight ==
  \A i, j \in 1..Len(log) :
    /\ log[i].level = log[j].level
    /\ log[i].node < log[j].value /\ log[j].value < log[i].value
    => i < j /\ \E m \in i + 1..j : log[m].node = log[i].node /\ log[m].level = log[i].level
HeadTight ==
  \A j \in 1..Len(log) : log[j].value \in Keys => Set(Head_, log[j].level, j)

(* Nodes with links are on the list, except the one that is being inserted;
   the keys on the list are those inserted, and the new one below its level. *)
Linking(n, l) == writer # None /\ n = writer.key /\ l = writer.level /\ writer.linked
Published ==
  \A i \in 1..Len(log) : log[i].node \in Keys =>
    Know(log[i].node, log[i].level, Len(log)) \/ Linking(log[i].node, log[i].level)
KeysKnown ==
  /\ \A i \in 1..Len(log) : log[i].value \in Keys =>
       \/ log[i].value \in inserted
       \/ writer # None /\ log[i].value = writer.key /\ log[i].level < writer.level
  /\ \A k \in inserted : Know(k, 0, Len(log))

(* The writer. *)
PrevIsRight(p, l, key) ==
  p < key /\ (p = Head_ \/ Know(p, l, Len(log))) /\ Link(p, l) > key
WriterInv ==
  writer # None =>
    /\ writer.key \notin inserted /\ writer.height <= max_height_
    /\ writer.level < writer.height /\ writer.prev \in [0..writer.height - 1 -> 0..MaxKey]
    /\ \A l \in 0..writer.level - 1 : Know(writer.key, l, Len(log))
    /\ \A l \in writer.level..writer.height - 1 : PrevIsRight(writer.prev[l], l, writer.key)
    /\ writer.linked => Set(writer.key, writer.level, Len(log))

(* The list. *)
ListInv == Sorted /\ Initialised /\ Tight /\ HeadTight /\ Published /\ KeysKnown /\ WriterInv

(* The reader. *)
Safe(n, l) == n = Head_ \/ Set(n, l, reader.seen)
ReaderInv ==
  /\ reader.node \in Keys => Set(reader.node, 0, reader.seen)
  /\ \A k \in reader.from : Know(k, 0, reader.seen)
  /\ reader.op \in {"searching_ge", "searching_lt"} =>
       /\ reader.x < reader.target
       /\ \A l \in 0..reader.level : Safe(reader.x, l)
  /\ reader.op = "stepping" =>
       /\ reader.x \in Keys /\ reader.target = reader.x + 1 /\ Set(reader.x, 0, reader.seen)

Ops == {"idle", "searching_ge", "searching_lt", "stepping", "ge", "lt"}
Types ==
  /\ log \in Seq(StoreType) /\ max_height_ \in 1..kMaxHeight
  /\ writer = None \/ writer \in Insertion
  /\ inserted \subseteq Keys
  /\ reader \in [node : 1..Nil, op : Ops, target : 0..Nil, x : 0..MaxKey, level : Levels,
                 seen : Nat, from : SUBSET Keys]
  /\ reader.seen <= Len(log)

(* The inductive invariant. *)
MemInv == Types /\ ListInv /\ ReaderInv /\ GreaterOrEqualIsRight /\ LessThanIsRight

-------------------------------------------------------------------------------
(* Stores and links. *)

(* The greatest of a nonempty set of naturals with a bound. *)
LEMMA MaxIs ==
  ASSUME NEW N \in Nat, NEW T, T \subseteq 0..N, T # {}
  PROVE  Max(T) \in T /\ \A y \in T : y <= Max(T)
<1>1. \E x \in T : \A y \in T : x >= y
  <2>1. PICK x \in T : \A y \in T : y <= x
    BY GreatestNatural
  <2>2. ASSUME NEW y \in T PROVE x >= y
    <3>1. x \in 0..N /\ y \in 0..N /\ y <= x
      BY <2>1
    <3> QED BY <3>1
  <2> QED BY <2>2
<1>2. Max(T) \in T /\ \A y \in T : Max(T) >= y
  BY <1>1 DEF Max
<1>3. ASSUME NEW y \in T PROVE y <= Max(T)
  <2>1. Max(T) \in 0..N /\ y \in 0..N /\ Max(T) >= y
    BY <1>2
  <2> QED BY <2>1
<1> QED BY <1>2, <1>3

(* The writer reads what it stored last. *)
LEMMA LinkIs ==
  ASSUME log \in Seq(StoreType), NEW n, NEW l
  PROVE  \/ /\ ~Set(n, l, Len(log))
            /\ Link(n, l) = IF n = Head_ THEN Nil ELSE Garbage
         \/ \E i \in 1..Len(log) :
              /\ log[i].node = n /\ log[i].level = l /\ Link(n, l) = log[i].value
              /\ \A m \in i + 1..Len(log) : ~(log[m].node = n /\ log[m].level = l)
<1> DEFINE T == {0} \cup StoresTo(n, l)
<1>1. Len(log) \in Nat /\ DOMAIN log = 1..Len(log)
  OBVIOUS
<1>2. T \subseteq 0..Len(log) /\ T # {}
  BY <1>1 DEF StoresTo
<1> DEFINE i == Max(T)
<1>3. i \in T /\ \A y \in T : y <= i
  <2> HIDE DEF T
  <2> QED BY <1>1, <1>2, MaxIs
<1>4. Link(n, l) = ValueAt(n, l, i)
  BY DEF Link
<1> HIDE DEF i
<1>5. CASE i = 0
  <2>1. ASSUME NEW j \in 1..Len(log), log[j].node = n, log[j].level = l PROVE FALSE
    <3>1. j \in T
      BY <1>1, <2>1 DEF StoresTo
    <3> QED BY <1>3, <1>5, <3>1
  <2> QED BY <1>4, <1>5, <2>1 DEF ValueAt, Set
<1>6. CASE i # 0
  <2>1. i \in 1..Len(log) /\ log[i].node = n /\ log[i].level = l
    BY <1>1, <1>3, <1>6 DEF StoresTo
  <2>2. Link(n, l) = log[i].value
    BY <1>4, <1>6 DEF ValueAt
  <2>3. ASSUME NEW m \in i + 1..Len(log), log[m].node = n, log[m].level = l PROVE FALSE
    <3>1. m \in 1..Len(log) /\ m > i
      BY <2>1
    <3>2. m \in T
      BY <1>1, <2>3, <3>1 DEF StoresTo
    <3> QED BY <1>3, <2>1, <3>1, <3>2
  <2> QED BY <2>1, <2>2, <2>3
<1> QED BY <1>5, <1>6

(* A store comes last in the log and leaves the others. *)
LEMMA Stored ==
  ASSUME log \in Seq(StoreType), NEW s \in StoreType, log' = Append(log, s)
  PROVE  /\ log' \in Seq(StoreType) /\ Len(log) \in Nat /\ Len(log') = Len(log) + 1
         /\ \A i \in 1..Len(log) : log'[i] = log[i] /\ log[i] \in StoreType
         /\ log'[Len(log) + 1] = s
  OBVIOUS

(* What was on a level, or set, up to some store is so for good. *)
LEMMA KnowStays ==
  ASSUME log \in Seq(StoreType), NEW s \in StoreType, log' = Append(log, s),
         NEW n, NEW l, NEW t \in 0..Len(log)
  PROVE  /\ Know(n, l, t)' <=> Know(n, l, t)
         /\ Set(n, l, t)' <=> Set(n, l, t)
         /\ Know(n, l, t) => Know(n, l, Len(log))' /\ Know(n, l, Len(log))
         /\ Set(n, l, t) => Set(n, l, Len(log))' /\ Set(n, l, Len(log))
<1>1. Len(log) \in Nat /\ Len(log') = Len(log) + 1 /\ \A i \in 1..Len(log) : log'[i] = log[i]
  BY Stored
<1>2. \A j \in 1..t : j \in 1..Len(log) /\ j \in 1..Len(log')
  BY <1>1
<1> QED BY <1>1, <1>2 DEF Know, Set

(* A store to one link leaves the others. *)
LEMMA SameLink ==
  ASSUME log \in Seq(StoreType), NEW s \in StoreType, log' = Append(log, s),
         NEW n, NEW l, ~(s.node = n /\ s.level = l)
  PROVE  Link(n, l)' = Link(n, l)
<1>1. /\ log' \in Seq(StoreType) /\ Len(log) \in Nat /\ Len(log') = Len(log) + 1
      /\ \A i \in 1..Len(log) : log'[i] = log[i]
      /\ log'[Len(log) + 1] = s
  BY Stored
<1>2. DOMAIN log = 1..Len(log) /\ DOMAIN log' = 1..Len(log) + 1
  BY <1>1
<1>3. StoresTo(n, l)' = StoresTo(n, l)
  <2>1. ASSUME NEW i \in StoresTo(n, l)' PROVE i \in StoresTo(n, l)
    <3>1. i \in 1..Len(log) + 1 /\ log'[i].node = n /\ log'[i].level = l
      BY <1>2 DEF StoresTo
    <3>2. i # Len(log) + 1
      BY <1>1, <3>1
    <3>3. i \in 1..Len(log)
      BY <1>1, <3>1, <3>2
    <3> QED BY <1>1, <1>2, <3>1, <3>3 DEF StoresTo
  <2>2. ASSUME NEW i \in StoresTo(n, l) PROVE i \in StoresTo(n, l)'
    <3>1. i \in 1..Len(log) /\ log[i].node = n /\ log[i].level = l
      BY <1>2 DEF StoresTo
    <3>2. i \in 1..Len(log) + 1 /\ log'[i] = log[i]
      BY <1>1, <3>1
    <3> QED BY <1>2, <3>1, <3>2 DEF StoresTo
  <2> QED BY <2>1, <2>2
<1>4. PICK i \in {0} \cup StoresTo(n, l) : i = Max({0} \cup StoresTo(n, l))
  <2>1. {0} \cup StoresTo(n, l) \subseteq 0..Len(log)
    BY <1>1, <1>2 DEF StoresTo
  <2> QED BY <1>1, <2>1, MaxIs
<1>5. Link(n, l) = ValueAt(n, l, i) /\ Link(n, l)' = ValueAt(n, l, i)'
  BY <1>3, <1>4 DEF Link, ValueAt
<1>6. i = 0 \/ log'[i] = log[i]
  BY <1>1, <1>2, <1>4 DEF StoresTo
<1>7. ValueAt(n, l, i)' = ValueAt(n, l, i)
  BY <1>6 DEF ValueAt
<1> QED BY <1>5, <1>7

(* The last link of a node on the list leads to the next key of the level. *)
LEMMA LinkLeads ==
  ASSUME SkipListAssumption, log \in Seq(StoreType), Sorted, Tight, HeadTight,
         NEW n \in 0..MaxKey, NEW l, n = Head_ \/ Set(n, l, Len(log))
  PROVE  /\ Link(n, l) \in n + 1..Nil
         /\ Link(n, l) \in Keys => Know(Link(n, l), l, Len(log))
         /\ \A k \in Keys : n < k /\ Know(k, l, Len(log)) => Link(n, l) <= k
<1>1. MaxKey \in Nat /\ Len(log) \in Nat /\ Nil = MaxKey + 1 /\ Head_ = 0 /\ Keys = 1..MaxKey
  BY DEF SkipListAssumption, Nil, Head_, Keys
<1>2. CASE /\ ~Set(n, l, Len(log))
           /\ Link(n, l) = IF n = Head_ THEN Nil ELSE Garbage
  <2>1. n = 0 /\ Link(n, l) = MaxKey + 1
    BY <1>1, <1>2
  <2>2. ASSUME NEW k \in Keys, Know(k, l, Len(log)) PROVE FALSE
    <3>1. PICK j \in 1..Len(log) : log[j].value = k /\ log[j].level = l
      BY <2>2 DEF Know
    <3>2. Set(n, l, j)
      BY <1>1, <2>1, <3>1 DEF HeadTight
    <3> QED BY <1>1, <1>2, <3>2 DEF Set
  <2> QED BY <1>1, <2>1, <2>2
<1>3. ASSUME NEW i \in 1..Len(log),
             log[i].node = n, log[i].level = l, Link(n, l) = log[i].value,
             \A m \in i + 1..Len(log) : ~(log[m].node = n /\ log[m].level = l)
      PROVE  /\ Link(n, l) \in n + 1..Nil
             /\ Link(n, l) \in Keys => Know(Link(n, l), l, Len(log))
             /\ \A k \in Keys : n < k /\ Know(k, l, Len(log)) => Link(n, l) <= k
  <2>1. log[i] \in StoreType
    BY <1>1
  <2>2. log[i].value \in 1..Nil
    BY <2>1 DEF StoreType
  <2>3. Link(n, l) \in n + 1..Nil
    <3>1. n < log[i].value
      BY <1>3 DEF Sorted
    <3> QED BY <1>1, <1>3, <2>2, <3>1
  <2>4. ASSUME NEW k \in Keys, n < k, Know(k, l, Len(log)), ~(Link(n, l) <= k) PROVE FALSE
    <3>1. PICK j \in 1..Len(log) : log[j].value = k /\ log[j].level = l
      BY <2>4 DEF Know
    <3>2. log[i].node < log[j].value /\ log[j].value < log[i].value
      BY <1>1, <1>3, <2>2, <2>4, <3>1
    <3>3. PICK m \in i + 1..j : log[m].node = n /\ log[m].level = l
      BY <1>3, <3>1, <3>2 DEF Tight
    <3>4. m \in i + 1..Len(log)
      BY <1>1
    <3> QED BY <1>3, <3>3, <3>4
  <2> QED BY <1>3, <2>3, <2>4 DEF Know
<1> QED BY <1>2, <1>3, LinkIs

(* A link that is in use is set on every level below, and the keys of a level
   are among the nodes with links there. *)
LEMMA KnownIsSet ==
  ASSUME log \in Seq(StoreType), Initialised, NEW k \in Keys, NEW l \in Levels,
         NEW t \in 0..Len(log), Know(k, l, t)
  PROVE  \A m \in 0..l : Set(k, m, t)
<1> SUFFICES ASSUME NEW m \in 0..l PROVE Set(k, m, t)
  OBVIOUS
<1>1. PICK j \in 1..t : log[j].value = k /\ log[j].level = l
  BY DEF Know
<1>2. j \in 1..Len(log)
  OBVIOUS
<1>3. Set(k, m, j - 1)
  BY <1>1, <1>2 DEF Initialised
<1> QED BY <1>1, <1>3 DEF Set

-------------------------------------------------------------------------------
(* FindGreaterOrEqual, by the writer: where a key is to be put. *)

(* Nodes of a level. *)
OnList(n, l) == n = Head_ \/ (n \in Keys /\ Know(n, l, Len(log)))

(* The same for the nodes of a level. *)
LEMMA LinkFromList ==
  ASSUME SkipListAssumption, Types, ListInv, NEW n \in 0..MaxKey, NEW l \in Levels, OnList(n, l)
  PROVE  /\ Link(n, l) \in n + 1..Nil
         /\ Link(n, l) = Nil \/ OnList(Link(n, l), l)
         /\ \A k \in Keys : n < k /\ Know(k, l, Len(log)) => Link(n, l) <= k
<1>1. log \in Seq(StoreType) /\ Sorted /\ Tight /\ HeadTight /\ Initialised
  BY DEF Types, ListInv
<1>2. Len(log) \in 0..Len(log)
  BY <1>1
<1>3. l \in 0..l
  BY DEF Levels, SkipListAssumption
<1>4. n = Head_ \/ Set(n, l, Len(log))
  BY <1>1, <1>2, <1>3, KnownIsSet DEF OnList
<1>5. /\ Link(n, l) \in n + 1..Nil
      /\ Link(n, l) \in Keys => Know(Link(n, l), l, Len(log))
      /\ \A k \in Keys : n < k /\ Know(k, l, Len(log)) => Link(n, l) <= k
  BY <1>1, <1>4, LinkLeads
<1>6. Link(n, l) \in Keys \/ Link(n, l) = Nil
  BY <1>5 DEF Keys, Nil, SkipListAssumption
<1> QED BY <1>5, <1>6 DEF OnList

(* A node that is not on the list leads nowhere, or where the list goes on. *)
LEMMA LinkOfAny ==
  ASSUME SkipListAssumption, Types, ListInv, NEW n \in 0..MaxKey, NEW l \in Levels
  PROVE  \/ Link(n, l) = Garbage /\ n # Head_
         \/ Link(n, l) \in n + 1..Nil /\ (Link(n, l) = Nil \/ OnList(Link(n, l), l))
<1>1. log \in Seq(StoreType) /\ Sorted /\ Tight /\ HeadTight
  BY DEF Types, ListInv
<1>2. CASE n = Head_ \/ Set(n, l, Len(log))
  <2>1. /\ Link(n, l) \in n + 1..Nil
        /\ Link(n, l) \in Keys => Know(Link(n, l), l, Len(log))
    BY <1>1, <1>2, LinkLeads
  <2>2. Link(n, l) \in Keys \/ Link(n, l) = Nil
    BY <2>1 DEF Keys, Nil, SkipListAssumption
  <2> QED BY <2>1, <2>2 DEF OnList
<1>3. CASE ~(n = Head_ \/ Set(n, l, Len(log)))
  <2>1. \A i \in 1..Len(log) : ~(log[i].node = n /\ log[i].level = l)
    BY <1>3 DEF Set
  <2> QED BY <1>1, <1>3, <2>1, LinkIs
<1> QED BY <1>2, <1>3

(* The walk along a level ends at the last node before the key: by induction
   from the end of the list. *)
LEMMA PrevFound ==
  ASSUME SkipListAssumption, Types, ListInv, NEW key \in Keys, NEW l \in Levels,
         ~Know(key, l, Len(log))
  PROVE  Prev(key, l) \in 0..MaxKey /\ PrevIsRight(Prev(key, l), l, key)
<1> DEFINE B == {n \in 0..key - 1 : OnList(n, l)}
           On(x) == Link(x, l) \in x + 1..key - 1
           Following(f) == [x \in 0..MaxKey |-> IF On(x) THEN f[Link(x, l)] ELSE x]
<1>1. MaxKey \in Nat /\ Nil = MaxKey + 1 /\ Head_ = 0 /\ Keys = 1..MaxKey /\ key \in 1..MaxKey
      /\ Garbage = -1
  BY DEF SkipListAssumption, Nil, Head_, Keys, Garbage
<1>2. PICK G \in B : \A n \in B : n <= G
  <2>1. B \subseteq 0..key - 1 /\ key - 1 \in Nat
    BY <1>1
  <2>2. 0 \in B
    BY <1>1 DEF OnList
  <2> HIDE DEF B
  <2> QED BY <2>1, <2>2, GreatestNatural
<1>3. ASSUME NEW x \in 0..MaxKey, On(x)
      PROVE  Link(x, l) \in B /\ Link(x, l) \in Keys /\ x < Link(x, l)
  <2>1. Link(x, l) \in 1..key - 1 /\ Link(x, l) # Garbage /\ Link(x, l) # Nil /\ x < Link(x, l)
    BY <1>1, <1>3
  <2>2. OnList(Link(x, l), l)
    BY <2>1, LinkOfAny
  <2> QED BY <1>1, <2>1, <2>2
<1>4. ASSUME NEW n \in B, ~On(n) PROVE n = G /\ Link(n, l) \in Nat /\ Link(n, l) > key
  <2>1. n \in 0..MaxKey /\ OnList(n, l)
    BY <1>1
  <2>2. /\ Link(n, l) \in n + 1..Nil
        /\ Link(n, l) = Nil \/ OnList(Link(n, l), l)
        /\ \A k \in Keys : n < k /\ Know(k, l, Len(log)) => Link(n, l) <= k
    BY <2>1, LinkFromList
  <2>3. Link(n, l) >= key
    BY <1>1, <1>4, <2>2
  <2>4. Link(n, l) # key
    BY <1>1, <2>2 DEF OnList
  <2>5. ASSUME n < G PROVE FALSE
    <3>1. G \in Keys /\ Know(G, l, Len(log)) /\ G < key
      BY <1>1, <1>2, <2>5 DEF OnList
    <3> QED BY <1>1, <2>2, <2>3, <2>5, <3>1
  <2>6. n <= G /\ G \in Nat /\ n \in Nat
    BY <1>1, <1>2
  <2> QED BY <1>1, <2>2, <2>3, <2>4, <2>5, <2>6
<1> DEFINE g == [x \in 0..MaxKey |-> IF On(x) THEN G ELSE x]
<1>5. g = Following(g)
  <2>1. ASSUME NEW x \in 0..MaxKey, On(x) PROVE g[Link(x, l)] = G
    <3>1. Link(x, l) \in B /\ Link(x, l) \in 0..MaxKey
      BY <1>1, <1>3, <2>1
    <3>2. g[Link(x, l)] = IF On(Link(x, l)) THEN G ELSE Link(x, l)
      BY <3>1
    <3> HIDE DEF g, B, On
    <3> QED BY <1>4, <3>1, <3>2
  <2>2. ASSUME NEW x \in 0..MaxKey PROVE g[x] = IF On(x) THEN g[Link(x, l)] ELSE x
    <3>1. g[x] = IF On(x) THEN G ELSE x
      OBVIOUS
    <3> HIDE DEF g, On
    <3> QED BY <2>1, <3>1
  <2>3. g = [x \in 0..MaxKey |-> g[x]]
    OBVIOUS
  <2> HIDE DEF g, On
  <2> QED BY <2>2, <2>3
<1> HIDE DEF g
<1> DEFINE w == CHOOSE walk : walk = Following(walk)
<1>6. w = Following(w)
  BY <1>5
<1>7. Prev(key, l) = w[Head_]
  BY Zenon DEF Prev
<1> HIDE DEF w
<1>8. \A x \in 0..MaxKey : w[x] = IF On(x) THEN w[Link(x, l)] ELSE x
  <2> HIDE DEF On
  <2> QED BY <1>6
<1> DEFINE T == {n \in B : w[n] # G}
<1>9. T = {}
  <2> SUFFICES ASSUME T # {} PROVE FALSE
    OBVIOUS
  <2>1. PICK n \in T : \A m \in T : m <= n
    <3>1. T \subseteq 0..key - 1 /\ key - 1 \in Nat
      BY <1>1
    <3> HIDE DEF T
    <3> QED BY <3>1, GreatestNatural
  <2>2. n \in B /\ w[n] # G /\ n \in 0..MaxKey
    BY <1>1
  <2>3. On(n)
    <3> HIDE DEF On, B
    <3> QED BY <1>4, <1>8, <2>2
  <2>4. Link(n, l) \in B /\ Link(n, l) \in Keys /\ n < Link(n, l)
    BY <1>3, <2>2, <2>3
  <2>5. w[Link(n, l)] # G
    <3> HIDE DEF On, B
    <3> QED BY <1>8, <2>2, <2>3
  <2>6. Link(n, l) \in T
    BY <2>4, <2>5
  <2>7. Link(n, l) <= n
    BY <2>1, <2>6
  <2> QED BY <1>1, <2>2, <2>4, <2>7
<1>10. Prev(key, l) = G
  <2>1. Head_ \in B
    BY <1>1 DEF OnList
  <2> QED BY <1>7, <1>9, <2>1
<1>11. ~On(G)
  <2> SUFFICES ASSUME On(G) PROVE FALSE
    OBVIOUS
  <2>1. G \in 0..MaxKey
    BY <1>1, <1>2
  <2>2. Link(G, l) \in B /\ G < Link(G, l) /\ Link(G, l) \in Keys
    BY <1>3, <2>1
  <2>3. Link(G, l) <= G
    BY <1>2, <2>2
  <2> QED BY <1>1, <2>1, <2>2, <2>3
<1>12. Link(G, l) > key
  BY <1>2, <1>4, <1>11
<1> QED BY <1>1, <1>2, <1>10, <1>12 DEF PrevIsRight, OnList

-------------------------------------------------------------------------------
(* What is on a level: the keys that were put there, by induction from the end
   of the list. *)
LEMMA LevelIs ==
  ASSUME SkipListAssumption, Types, ListInv, NEW l \in Levels
  PROVE  OnLevel(l) = {k \in Keys : Know(k, l, Len(log))}
<1> DEFINE N == {k \in Keys : Know(k, l, Len(log))}
           Following(f) == [x \in 0..Nil |-> IF x = Nil THEN {} ELSE {x} \cup
                              (IF Link(x, l) > x THEN f[Link(x, l)] ELSE {Garbage})]
           After(x) == {k \in N : k >= x}
           g == [x \in 0..Nil |-> IF x = Nil THEN {} ELSE {x} \cup
                   (IF Link(x, l) > x THEN After(Link(x, l)) ELSE {Garbage})]
<1>1. MaxKey \in Nat /\ Nil = MaxKey + 1 /\ Head_ = 0 /\ Keys = 1..MaxKey /\ Garbage = -1
  BY DEF SkipListAssumption, Nil, Head_, Keys, Garbage
<1>2. ASSUME NEW n \in 0..MaxKey, OnList(n, l)
      PROVE  Link(n, l) > n /\ After(Link(n, l)) = {k \in N : k > n}
  <2>1. /\ Link(n, l) \in n + 1..Nil
        /\ \A k \in Keys : n < k /\ Know(k, l, Len(log)) => Link(n, l) <= k
    BY <1>2, LinkFromList
  <2>2. \A k \in N : k \in Nat
    BY <1>1
  <2>3. ASSUME NEW k \in N PROVE k >= Link(n, l) <=> k > n
    BY <1>1, <2>1, <2>2
  <2> QED BY <1>1, <2>1, <2>3
<1>3. ASSUME NEW x \in 0..MaxKey, Link(x, l) > x
      PROVE  Link(x, l) \in 0..Nil /\ g[Link(x, l)] = After(Link(x, l))
  <2>1. Link(x, l) \in x + 1..Nil /\ (Link(x, l) = Nil \/ OnList(Link(x, l), l))
    BY <1>1, <1>3, LinkOfAny
  <2>2. CASE Link(x, l) = Nil
    <3>1. After(Nil) = {}
      BY <1>1
    <3>2. g[Nil] = {}
      BY <1>1
    <3> QED BY <1>1, <2>1, <2>2, <3>1, <3>2
  <2>3. CASE Link(x, l) # Nil
    <3> DEFINE y == Link(x, l)
    <3>1. y \in 1..MaxKey /\ OnList(y, l) /\ y # Nil /\ y \in 0..Nil /\ y \in 0..MaxKey
      BY <1>1, <2>1, <2>3
    <3>2. y \in N
      BY <1>1, <3>1 DEF OnList
    <3> HIDE DEF y
    <3>3. Link(y, l) > y /\ After(Link(y, l)) = {k \in N : k > y}
      BY <1>2, <3>1
    <3>4. g[y] = {y} \cup {k \in N : k > y}
      <4>1. g[y] = {y} \cup (IF Link(y, l) > y THEN After(Link(y, l)) ELSE {Garbage})
        BY <3>1
      <4> HIDE DEF g, After, N
      <4> QED BY <3>3, <4>1
    <3>5. {y} \cup {k \in N : k > y} = After(y)
      <4>1. \A k \in N : k \in Nat
        BY <1>1
      <4>2. \A k \in N : k >= y <=> k = y \/ k > y
        BY <3>1, <4>1
      <4> HIDE DEF N
      <4> QED BY <3>2, <4>2
    <3>6. y \in 0..Nil /\ g[y] = After(y)
      BY <3>1, <3>4, <3>5
    <3> QED BY <3>6 DEF y
  <2> QED BY <2>2, <2>3
<1>4. g = Following(g)
  <2>1. ASSUME NEW x \in 0..Nil
        PROVE  g[x] = IF x = Nil THEN {} ELSE {x} \cup
                        (IF Link(x, l) > x THEN g[Link(x, l)] ELSE {Garbage})
    <3>1. CASE x = Nil
      BY <3>1
    <3>2. CASE x # Nil
      <4>1. x \in 0..MaxKey
        BY <1>1, <3>2
      <4>2. g[x] = {x} \cup (IF Link(x, l) > x THEN After(Link(x, l)) ELSE {Garbage})
        BY <3>2
      <4> HIDE DEF g, After
      <4> QED BY <1>3, <3>2, <4>1, <4>2
    <3> QED BY <3>1, <3>2
  <2>2. g = [x \in 0..Nil |-> g[x]]
    OBVIOUS
  <2> HIDE DEF g
  <2> QED BY <2>1, <2>2
<1> HIDE DEF g
<1> DEFINE r == CHOOSE reach : reach = Following(reach)
<1>5. r = Following(r)
  BY <1>4
<1>6. OnLevel(l) = r[Head_] \ {Head_}
  BY Zenon DEF OnLevel
<1> HIDE DEF r
<1>7. \A x \in 0..Nil : r[x] = IF x = Nil THEN {} ELSE {x} \cup
                          (IF Link(x, l) > x THEN r[Link(x, l)] ELSE {Garbage})
  BY <1>5
<1> DEFINE T == {n \in 0..MaxKey : OnList(n, l) /\ r[n] # {n} \cup {k \in N : k > n}}
<1>8. T = {}
  <2> SUFFICES ASSUME T # {} PROVE FALSE
    OBVIOUS
  <2>1. PICK n \in T : \A m \in T : m <= n
    <3>1. T \subseteq 0..MaxKey
      OBVIOUS
    <3> HIDE DEF T
    <3> QED BY <1>1, <3>1, GreatestNatural
  <2>2. n \in 0..MaxKey /\ OnList(n, l) /\ r[n] # {n} \cup {k \in N : k > n}
    OBVIOUS
  <2>3. Link(n, l) > n /\ After(Link(n, l)) = {k \in N : k > n}
    BY <1>2, <2>2
  <2>4. r[n] = {n} \cup r[Link(n, l)]
    <3>1. n \in 0..Nil /\ n # Nil
      BY <1>1, <2>2
    <3> QED BY <1>7, <2>3, <3>1
  <2>5. Link(n, l) \in n + 1..Nil /\ (Link(n, l) = Nil \/ OnList(Link(n, l), l))
    BY <2>2, LinkFromList
  <2>6. r[Link(n, l)] = After(Link(n, l))
    <3>1. CASE Link(n, l) = Nil
      <4>1. After(Nil) = {}
        BY <1>1
      <4>2. Nil \in 0..Nil
        BY <1>1
      <4>3. r[Nil] = {}
        BY <1>7, <4>2, Zenon
      <4> QED BY <3>1, <4>1, <4>3
    <3>2. CASE Link(n, l) # Nil
      <4> DEFINE y == Link(n, l)
      <4>1. y \in 1..MaxKey /\ OnList(y, l) /\ y > n
        BY <1>1, <2>2, <2>5, <3>2
      <4>2. y \notin T
        <5>1. ASSUME y \in T PROVE FALSE
          <6>1. y <= n
            BY <2>1, <5>1
          <6> QED BY <2>2, <4>1, <6>1
        <5> QED BY <5>1
      <4>3. y \in N /\ y \in 0..MaxKey
        BY <1>1, <4>1 DEF OnList
      <4> HIDE DEF y
      <4>4. r[y] = {y} \cup {k \in N : k > y}
        BY <4>1, <4>2, <4>3
      <4>5. \A k \in N : k >= y <=> k = y \/ k > y
        BY <1>1, <4>1
      <4>6. {y} \cup {k \in N : k > y} = After(y)
        <5> HIDE DEF N
        <5> QED BY <4>3, <4>5
      <4> QED BY <4>4, <4>6 DEF y
    <3> QED BY <3>1, <3>2
  <2> HIDE DEF N, T, After
  <2> QED BY <2>2, <2>3, <2>4, <2>6
<1>9. r[Head_] = {0} \cup {k \in N : k > 0}
  <2>1. Head_ \in 0..MaxKey /\ OnList(Head_, l)
    BY <1>1 DEF OnList
  <2>2. Head_ \notin T
    BY <1>8
  <2> QED BY <1>1, <2>1, <2>2
<1>10. OnLevel(l) = N
  <2>1. \A k \in N : k > 0 /\ k # 0
    BY <1>1
  <2> HIDE DEF N
  <2> QED BY <1>1, <1>6, <1>9, <2>1
<1> QED BY <1>10

-------------------------------------------------------------------------------
(* Insert. *)

(* A new store leaves the list in order when it leads to a greater key, the
   node it leads to is ready, it passes over no key, and it is the one to be
   set where a link would pass over what it adds. *)
LEMMA NewStore ==
  ASSUME SkipListAssumption, log \in Seq(StoreType), Sorted, Initialised, Tight, HeadTight,
         NEW s \in StoreType, log' = Append(log, s), max_height_' = max_height_,
         s.node < s.value, s.level < max_height_,
         s.value \in Keys =>
           /\ \A l \in 0..s.level : Set(s.value, l, Len(log))
           /\ s.level > 0 => Know(s.value, s.level - 1, Len(log))
           /\ s.node = Head_ \/ Set(Head_, s.level, Len(log)),
         \A j \in 1..Len(log) :
           ~(log[j].level = s.level /\ s.node < log[j].value /\ log[j].value < s.value),
         \A i \in 1..Len(log) :
           log[i].level = s.level /\ log[i].node < s.value /\ s.value < log[i].value =>
             \/ log[i].node = s.node
             \/ \E m \in i + 1..Len(log) : log[m].node = log[i].node /\ log[m].level = s.level
  PROVE  (Sorted /\ Initialised /\ Tight /\ HeadTight)'
<1> DEFINE L == Len(log)
<1>1. /\ L \in Nat /\ Len(log') = L + 1
      /\ \A i \in 1..L : log'[i] = log[i] /\ log[i] \in StoreType
      /\ log'[L + 1] = s
  BY Stored
<1>2. \A i \in 1..L + 1 : i \in 1..L \/ i = L + 1
  BY <1>1
<1>3. Sorted'
  <2>1. ASSUME NEW i \in 1..L + 1
        PROVE  log'[i].node < log'[i].value /\ log'[i].level < max_height_
    <3>1. CASE i \in 1..L
      BY <1>1, <3>1 DEF Sorted
    <3>2. CASE i = L + 1
      BY <1>1, <3>2
    <3> QED BY <1>2, <3>1, <3>2
  <2> QED BY <1>1, <2>1 DEF Sorted
<1>4. Initialised'
  <2>1. ASSUME NEW i \in 1..L + 1, log'[i].value \in Keys
        PROVE  /\ \A l \in 0..log'[i].level : Set(log[i].value, l, i - 1)'
               /\ log'[i].level > 0 => Know(log[i].value, log[i].level - 1, Len(log))'
    <3>1. CASE i \in 1..L
      <4>1. /\ \A l \in 0..log[i].level : Set(log[i].value, l, i - 1)
            /\ log[i].level > 0 => Know(log[i].value, log[i].level - 1, L)
            /\ log'[i] = log[i] /\ i - 1 \in 0..L /\ L \in 0..L
        BY <1>1, <2>1, <3>1 DEF Initialised
      <4>2. /\ \A l \in 0..log[i].level : \E j \in 1..i - 1 : log'[j].node = log[i].value /\ log'[j].level = l
            /\ log[i].level > 0 => \E j \in 1..L + 1 :
                 log'[j].value = log[i].value /\ log'[j].level = log[i].level - 1
        <5>1. (\A j \in 1..i - 1 : log'[j] = log[j]) /\ \A j \in 1..L : log'[j] = log[j] /\ j \in 1..L + 1
          BY <1>1, <3>1
        <5> QED BY <4>1, <5>1 DEF Set, Know
      <4> QED BY <1>1, <4>1, <4>2 DEF Set, Know
    <3>2. CASE i = L + 1
      <4>1. log'[i] = s /\ i - 1 = L /\ L \in 0..L
        BY <1>1, <3>2
      <4>2. /\ \A l \in 0..s.level : Set(s.value, l, L)
            /\ s.level > 0 => Know(s.value, s.level - 1, L)
        BY <2>1, <4>1
      <4>3. \A j \in 1..L : log'[j] = log[j] /\ j \in 1..L + 1
        BY <1>1
      <4>4. /\ \A l \in 0..s.level : \E j \in 1..L : log'[j].node = s.value /\ log'[j].level = l
            /\ s.level > 0 => \E j \in 1..L + 1 :
                 log'[j].value = s.value /\ log'[j].level = s.level - 1
        BY <4>2, <4>3 DEF Set, Know
      <4> QED BY <1>1, <4>1, <4>4 DEF Set, Know
    <3> QED BY <1>2, <3>1, <3>2
  <2>2. Len(log') = L + 1
    BY <1>1
  <2> HIDE DEF L
  <2> QED BY <2>1, <2>2 DEF Initialised, Know, Set
<1>5. Tight'
  <2>1. ASSUME NEW i \in 1..L + 1, NEW j \in 1..L + 1,
               log'[i].level = log'[j].level,
               log'[i].node < log'[j].value, log'[j].value < log'[i].value
        PROVE  i < j /\ \E m \in i + 1..j :
                 log'[m].node = log'[i].node /\ log'[m].level = log'[i].level
    <3>1. CASE i \in 1..L /\ j \in 1..L
      <4>1. log'[i] = log[i] /\ log'[j] = log[j]
        BY <1>1, <3>1
      <4>2. i < j /\ \E m \in i + 1..j : log[m].node = log[i].node /\ log[m].level = log[i].level
        BY <2>1, <3>1, <4>1 DEF Tight
      <4>3. \A m \in i + 1..j : log'[m] = log[m]
        BY <1>1, <3>1
      <4> QED BY <4>1, <4>2, <4>3
    <3>2. CASE i = L + 1 /\ j \in 1..L
      <4>1. log'[i] = s /\ log'[j] = log[j]
        BY <1>1, <3>2
      <4> QED BY <2>1, <3>2, <4>1
    <3>3. CASE i \in 1..L /\ j = L + 1
      <4>1. log'[i] = log[i] /\ log'[j] = s /\ i < j /\ L + 1 \in i + 1..j /\ log'[L + 1] = s
        BY <1>1, <3>3
      <4>2. CASE log[i].node = s.node
        BY <2>1, <4>1, <4>2
      <4>3. ASSUME NEW m \in i + 1..L, log[m].node = log[i].node, log[m].level = s.level
            PROVE  log'[m].node = log'[i].node /\ log'[m].level = log'[i].level /\ m \in i + 1..j
        <5>1. m \in 1..L /\ m \in i + 1..j
          BY <1>1, <3>3
        <5> QED BY <1>1, <2>1, <4>1, <4>3, <5>1
      <4> QED BY <2>1, <3>3, <4>1, <4>2, <4>3
    <3>4. CASE i = L + 1 /\ j = L + 1
      <4>1. s.value \in 1..Nil /\ Nil \in Nat
        BY DEF StoreType, Nil, SkipListAssumption
      <4> QED BY <1>1, <2>1, <3>4, <4>1
    <3> QED BY <1>2, <3>1, <3>2, <3>3, <3>4
  <2> HIDE DEF L
  <2> QED BY <1>1, <2>1 DEF Tight
<1>6. HeadTight'
  <2>1. ASSUME NEW j \in 1..L + 1, log'[j].value \in Keys
        PROVE  Set(Head_, log[j].level, j)'
    <3>1. CASE j \in 1..L
      <4>1. log'[j] = log[j] /\ Set(Head_, log[j].level, j)
        BY <1>1, <2>1, <3>1 DEF HeadTight
      <4>2. \A m \in 1..j : log'[m] = log[m]
        BY <1>1, <3>1
      <4> QED BY <4>1, <4>2 DEF Set
    <3>2. CASE j = L + 1
      <4>1. log'[j] = s /\ (s.node = Head_ \/ Set(Head_, s.level, L))
        BY <1>1, <2>1, <3>2
      <4>2. \A m \in 1..L : log'[m] = log[m] /\ m \in 1..j
        BY <1>1, <3>2
      <4>3. j \in 1..j
        BY <1>1, <3>2
      <4>4. \E m \in 1..j : log'[m].node = Head_ /\ log'[m].level = log'[j].level
        BY <4>1, <4>2, <4>3 DEF Set
      <4> QED BY <4>4 DEF Set
    <3> QED BY <1>2, <3>1, <3>2
  <2> HIDE DEF L
  <2> QED BY <1>1, <2>1 DEF HeadTight, Set
<1> QED BY <1>3, <1>4, <1>5, <1>6

(* What does not change the log does not change what is on the list. *)
LEMMA SameLog ==
  ASSUME log' = log, NEW n, NEW l, NEW t
  PROVE  /\ Know(n, l, t)' <=> Know(n, l, t)
         /\ Set(n, l, t)' <=> Set(n, l, t)
         /\ Link(n, l)' = Link(n, l)
  BY DEF Know, Set, Link, ValueAt, StoresTo

(* The facts about a writer at work that its steps use: p is the node before
   its key on its level, u the one after. *)
LEMMA WriterAt ==
  ASSUME SkipListAssumption, Types, ListInv, writer # None
  PROVE  /\ writer \in Insertion /\ writer.key \in Keys /\ writer.level \in Levels
         /\ writer.level < writer.height /\ writer.height \in Nat /\ writer.level \in Nat
         /\ LET p == writer.prev[writer.level]
                u == Link(p, writer.level)
            IN /\ p \in 0..MaxKey /\ p < writer.key /\ OnList(p, writer.level)
               /\ u \in writer.key + 1..Nil /\ (u = Nil \/ OnList(u, writer.level))
               /\ \A k \in Keys : p < k /\ Know(k, writer.level, Len(log)) => u <= k
<1>1. /\ writer \in Insertion /\ writer.key \in Keys /\ writer.level \in Levels
      /\ writer.height \in 1..kMaxHeight
  BY DEF Types, Insertion
<1>2. MaxKey \in Nat /\ Nil = MaxKey + 1 /\ Head_ = 0 /\ Keys = 1..MaxKey /\ kMaxHeight \in Nat
      /\ writer.level \in Nat /\ writer.height \in Nat
  BY <1>1 DEF SkipListAssumption, Nil, Head_, Keys, Levels
<1>3. /\ writer.level < writer.height /\ writer.prev \in [0..writer.height - 1 -> 0..MaxKey]
      /\ \A l \in writer.level..writer.height - 1 : PrevIsRight(writer.prev[l], l, writer.key)
  BY DEF ListInv, WriterInv
<1>4. writer.level \in writer.level..writer.height - 1 /\ writer.level \in 0..writer.height - 1
  BY <1>2, <1>3
<1> DEFINE p == writer.prev[writer.level]
           u == Link(p, writer.level)
<1>5. p \in 0..MaxKey /\ PrevIsRight(p, writer.level, writer.key)
  BY <1>3, <1>4
<1>6. p < writer.key /\ u > writer.key /\ OnList(p, writer.level)
  BY <1>2, <1>5 DEF PrevIsRight, OnList
<1>7. /\ u \in p + 1..Nil /\ (u = Nil \/ OnList(u, writer.level))
      /\ \A k \in Keys : p < k /\ Know(k, writer.level, Len(log)) => u <= k
  BY <1>1, <1>5, <1>6, LinkFromList
<1>8. u \in writer.key + 1..Nil
  BY <1>1, <1>2, <1>5, <1>6, <1>7
<1> QED BY <1>1, <1>2, <1>3, <1>5, <1>6, <1>7, <1>8

(* The record of an Insert under way. *)
LEMMA InsertionIs ==
  ASSUME NEW k \in Keys, NEW h \in 1..kMaxHeight, NEW q \in [0..h - 1 -> 0..MaxKey],
         NEW l \in Levels, NEW b \in BOOLEAN
  PROVE  [key |-> k, height |-> h, prev |-> q, level |-> l, linked |-> b] \in Insertion
<1> DEFINE P == UNION {[0..g - 1 -> 0..MaxKey] : g \in 1..kMaxHeight}
<1>1. q \in P
  OBVIOUS
<1>2. Insertion = [key : Keys, height : 1..kMaxHeight, prev : P, level : Levels, linked : BOOLEAN]
  BY DEF Insertion
<1> HIDE DEF P
<1> QED BY <1>1, <1>2

(* Insert finds the nodes before its key and raises the height. *)
LEMMA BeginInsertKeeps ==
  ASSUME SkipListAssumption, Types, ListInv,
         NEW key \in Keys, NEW height \in 1..kMaxHeight, BeginInsert(key, height)
  PROVE  Types' /\ ListInv'
<1>1. /\ writer = None /\ key \notin inserted /\ log' = log /\ inserted' = inserted
      /\ reader' = reader /\ max_height_' = Max({max_height_, height})
      /\ writer' = [key |-> key, height |-> height,
                    prev |-> [l \in 0..height - 1 |->
                                IF l < max_height_ THEN Prev(key, l) ELSE Head_],
                    level |-> 0, linked |-> FALSE]
  BY DEF BeginInsert
<1>2. /\ MaxKey \in Nat /\ Nil = MaxKey + 1 /\ Head_ = 0 /\ Keys = 1..MaxKey
      /\ kMaxHeight \in Nat \ {0} /\ Levels = 0..kMaxHeight - 1 /\ None \notin Insertion
  BY DEF SkipListAssumption, Nil, Head_, Keys, Levels
<1>3. log \in Seq(StoreType) /\ max_height_ \in 1..kMaxHeight
  BY DEF Types
<1>4. max_height_' \in 1..kMaxHeight /\ max_height_ <= max_height_' /\ height <= max_height_'
  <2>1. {max_height_, height} \subseteq 0..kMaxHeight /\ kMaxHeight \in Nat
    BY <1>2, <1>3
  <2>2. max_height_' \in {max_height_, height} /\ \A y \in {max_height_, height} : y <= max_height_'
    BY <1>1, <2>1, MaxIs
  <2> QED BY <1>3, <2>2
<1>5. \A l \in Levels : ~Know(key, l, Len(log))
  BY <1>1 DEF Know, ListInv, KeysKnown
<1>6. ASSUME NEW l \in 0..height - 1
      PROVE  /\ writer'.prev[l] \in 0..MaxKey
             /\ PrevIsRight(writer'.prev[l], l, key)
  <2>1. l \in Levels /\ writer'.prev[l] = IF l < max_height_ THEN Prev(key, l) ELSE Head_
    BY <1>1, <1>2
  <2>2. CASE l < max_height_
    BY <1>5, <2>1, <2>2, PrevFound
  <2>3. CASE ~(l < max_height_)
    <3>1. \A i \in 1..Len(log) : log[i].level < max_height_ /\ log[i].level # l
      BY <2>3 DEF ListInv, Sorted
    <3>2. Link(Head_, l) = Nil
      BY <1>3, <3>1, LinkIs
    <3> QED BY <1>2, <2>1, <2>3, <3>2 DEF PrevIsRight
  <2> QED BY <2>2, <2>3
<1>7. writer' \in Insertion
  <2>1. writer'.prev \in [0..height - 1 -> 0..MaxKey]
    <3>1. writer'.prev = [l \in 0..height - 1 |-> writer'.prev[l]]
      BY <1>1
    <3> QED BY <1>6, <3>1
  <2>2. 0 \in Levels
    BY <1>2
  <2>3. writer' = [key |-> key, height |-> height, prev |-> writer'.prev,
                   level |-> 0, linked |-> FALSE]
    BY <1>1
  <2> QED BY <2>1, <2>2, <2>3, InsertionIs
<1>8. Types'
  BY <1>1, <1>4, <1>7 DEF Types
<1>9. Sorted'
  <2>1. ASSUME NEW i \in 1..Len(log) PROVE log[i].level < max_height_'
    <3>1. log[i] \in StoreType /\ log[i].level < max_height_
      BY <1>3 DEF ListInv, Sorted
    <3>2. log[i].level \in Nat
      BY <1>2, <3>1 DEF StoreType
    <3> QED BY <1>3, <1>4, <3>1, <3>2
  <2> QED BY <1>1, <2>1 DEF ListInv, Sorted
<1>10. Initialised' /\ Tight' /\ HeadTight'
  BY <1>1, SameLog DEF ListInv, Initialised, Tight, HeadTight, Know, Set
<1>11. Published' /\ KeysKnown'
  <2>1. \A i \in 1..Len(log) : log[i].node \in Keys => Know(log[i].node, log[i].level, Len(log))
    BY <1>1 DEF ListInv, Published, Linking
  <2>2. /\ \A i \in 1..Len(log) : log[i].value \in Keys => log[i].value \in inserted
        /\ \A k \in inserted : Know(k, 0, Len(log))
    BY <1>1 DEF ListInv, KeysKnown
  <2> QED BY <1>1, <2>1, <2>2 DEF Published, KeysKnown, Know
<1>12. WriterInv'
  <2>1. ASSUME NEW l \in 0..height - 1 PROVE PrevIsRight(writer.prev[l], l, writer.key)'
    <3>1. PrevIsRight(writer'.prev[l], l, key)
      BY <1>6
    <3>2. writer'.key = key
      BY <1>1
    <3>3. Know(writer'.prev[l], l, Len(log)) => Know(writer.prev[l], l, Len(log))'
      BY <1>1 DEF Know
    <3>4. Link(writer.prev[l], l)' = Link(writer'.prev[l], l)
      BY <1>1 DEF Link, ValueAt, StoresTo
    <3> QED BY <3>1, <3>2, <3>3, <3>4 DEF PrevIsRight
  <2>2. writer'.prev \in [0..height - 1 -> 0..MaxKey]
    <3>1. writer'.prev = [l \in 0..height - 1 |-> writer'.prev[l]]
      BY <1>1
    <3> QED BY <1>6, <3>1
  <2>3. writer'.key = key /\ writer'.height = height /\ writer'.level = 0 /\ ~writer'.linked
    BY <1>1
  <2>4. 0 < height /\ 0..0 - 1 = {}
    BY <1>2
  <2> QED BY <1>1, <1>4, <2>1, <2>2, <2>3, <2>4 DEF WriterInv
<1> QED BY <1>8, <1>9, <1>10, <1>11, <1>12 DEF ListInv

(* The new node's own link leads where that of the node before it does: over
   no key, and to a node that is ready. *)
LEMMA SetOwnLinkKeeps ==
  ASSUME SkipListAssumption, Types, ListInv, SetOwnLink
  PROVE  Types' /\ ListInv'
<1>1. writer # None /\ ~writer.linked /\ writer' = [writer EXCEPT !.linked = TRUE]
      /\ max_height_' = max_height_ /\ inserted' = inserted /\ reader' = reader
  BY DEF SetOwnLink
<1>2. PICK w, l, p, u, L :
        /\ w = writer.key /\ l = writer.level /\ p = writer.prev[l] /\ u = Link(p, l)
        /\ L = Len(log)
  OBVIOUS
<1>3. /\ writer \in Insertion /\ w \in Keys /\ l \in Levels
      /\ l < writer.height /\ writer.height \in Nat /\ l \in Nat
      /\ p \in 0..MaxKey /\ p < w /\ OnList(p, l)
      /\ u \in w + 1..Nil /\ (u = Nil \/ OnList(u, l))
      /\ \A k \in Keys : p < k /\ Know(k, l, L) => u <= k
  BY <1>1, <1>2, WriterAt
<1>4. /\ MaxKey \in Nat /\ Nil = MaxKey + 1 /\ Head_ = 0 /\ Keys = 1..MaxKey
      /\ None \notin Insertion
  BY DEF SkipListAssumption, Nil, Head_, Keys
<1> DEFINE s == [node |-> w, level |-> l, value |-> u]
<1>5. s \in StoreType /\ log \in Seq(StoreType) /\ log' = Append(log, s)
  <2>1. w \in 0..MaxKey /\ u \in 1..Nil
    BY <1>3, <1>4
  <2>2. log' = Append(log, s)
    BY <1>2 DEF SetOwnLink, Store
  <2> QED BY <1>3, <2>1, <2>2 DEF StoreType, Types
<1>6. s.node = w /\ s.level = l /\ s.value = u
  OBVIOUS
<1> HIDE DEF s
<1>7. /\ log' \in Seq(StoreType) /\ L \in Nat /\ Len(log') = L + 1
      /\ \A i \in 1..L : log'[i] = log[i] /\ log[i] \in StoreType
      /\ log'[L + 1] = s
  BY <1>2, <1>5, Stored
<1>8. /\ Sorted /\ Initialised /\ Tight /\ HeadTight /\ Published /\ KeysKnown /\ WriterInv
  BY DEF ListInv
<1>9. ASSUME u \in Keys PROVE Know(u, l, L)
  BY <1>2, <1>3, <1>4, <1>9 DEF OnList
<1>10. (Sorted /\ Initialised /\ Tight /\ HeadTight)'
  <2>1. s.node < s.value
    BY <1>3, <1>4, <1>6
  <2>2. s.level < max_height_
    <3>1. writer.height <= max_height_ /\ max_height_ \in Nat
      BY <1>1, <1>8 DEF WriterInv, Types, SkipListAssumption
    <3> QED BY <1>3, <1>6, <3>1
  <2>3. ASSUME s.value \in Keys
        PROVE  /\ \A m \in 0..s.level : Set(s.value, m, Len(log))
               /\ s.level > 0 => Know(s.value, s.level - 1, Len(log))
               /\ Set(Head_, s.level, Len(log))
    <3>1. Know(u, l, L) /\ L \in 0..Len(log) /\ u \in Keys
      BY <1>2, <1>6, <1>7, <1>9, <2>3
    <3>2. PICK j \in 1..L : log[j].value = u /\ log[j].level = l
      BY <3>1 DEF Know
    <3>3. \A m \in 0..l : Set(u, m, L)
      BY <1>3, <1>5, <1>8, <3>1, KnownIsSet
    <3>4. l > 0 => Know(u, l - 1, L)
      BY <1>2, <1>8, <3>1, <3>2 DEF Initialised
    <3>5. Set(Head_, l, j)
      BY <1>2, <1>8, <3>1, <3>2 DEF HeadTight
    <3>6. Set(Head_, l, L)
      BY <1>7, <3>5 DEF Set
    <3> QED BY <1>2, <1>6, <3>3, <3>4, <3>6
  <2>4. ASSUME NEW j \in 1..Len(log),
               log[j].level = s.level, s.node < log[j].value, log[j].value < s.value
        PROVE  FALSE
    <3>1. log[j].value \in 1..Nil /\ Know(log[j].value, l, L)
      BY <1>2, <1>6, <1>7, <2>4 DEF StoreType, Know
    <3>2. log[j].value \in Keys /\ p < log[j].value
      BY <1>3, <1>4, <1>6, <2>4, <3>1
    <3>3. u <= log[j].value
      BY <1>3, <3>1, <3>2
    <3> QED BY <1>3, <1>4, <1>6, <2>4, <3>1, <3>3
  <2>5. ASSUME NEW i \in 1..Len(log),
               log[i].level = s.level, log[i].node < s.value, s.value < log[i].value
        PROVE  \E m \in i + 1..Len(log) : log[m].node = log[i].node /\ log[m].level = s.level
    <3>1. log[i].value \in 1..Nil
      BY <1>2, <1>7 DEF StoreType
    <3>2. u \in Keys
      BY <1>3, <1>4, <1>6, <2>5, <3>1
    <3>3. PICK j \in 1..L : log[j].value = u /\ log[j].level = l
      BY <1>9, <3>2 DEF Know
    <3>4. PICK m \in i + 1..j : log[m].node = log[i].node /\ log[m].level = log[i].level
      BY <1>2, <1>6, <1>8, <2>5, <3>3 DEF Tight
    <3>5. m \in i + 1..Len(log)
      BY <1>2, <1>7
    <3> QED BY <2>5, <3>4, <3>5
  <2> QED BY <1>1, <1>5, <1>8, <2>1, <2>2, <2>3, <2>4, <2>5, NewStore
<1>11. /\ writer' \in Insertion /\ writer' # None
       /\ writer'.key = w /\ writer'.level = l /\ writer'.linked /\ writer'.height = writer.height
       /\ writer'.prev = writer.prev
  <2>1. writer' = [writer EXCEPT !.linked = TRUE]
    BY <1>1
  <2>2. writer' \in Insertion
    <3> DEFINE P == UNION {[0..g - 1 -> 0..MaxKey] : g \in 1..kMaxHeight}
    <3>1. Insertion = [key : Keys, height : 1..kMaxHeight, prev : P, level : Levels, linked : BOOLEAN]
      BY DEF Insertion
    <3> HIDE DEF P
    <3> QED BY <1>3, <2>1, <3>1
  <2>3. /\ writer'.key = w /\ writer'.level = l /\ writer'.linked
        /\ writer'.height = writer.height /\ writer'.prev = writer.prev
    BY <1>2, <1>3, <2>1 DEF Insertion
  <2> QED BY <1>4, <2>2, <2>3
<1>12. Types'
  <2>1. reader.seen <= Len(log) /\ reader.seen \in Nat
    BY DEF Types
  <2>2. reader'.seen <= Len(log')
    BY <1>1, <1>2, <1>7, <2>1
  <2> QED BY <1>1, <1>7, <1>11, <2>2 DEF Types
<1>13. ASSUME NEW n, NEW m, Know(n, m, L) PROVE Know(n, m, Len(log))'
  <2>1. L \in 0..Len(log)
    BY <1>2, <1>7
  <2> QED BY <1>5, <1>13, <2>1, KnowStays
<1>14. Published'
  <2>1. ASSUME NEW i \in 1..L + 1, log'[i].node \in Keys
        PROVE  (Know(log[i].node, log[i].level, Len(log)) \/ Linking(log[i].node, log[i].level))'
    <3>1. CASE i = L + 1
      BY <1>6, <1>7, <1>11, <3>1 DEF Linking
    <3>2. CASE i # L + 1
      <4>1. i \in 1..L /\ log'[i] = log[i]
        BY <1>7, <3>2
      <4>2. Know(log[i].node, log[i].level, L)
        BY <1>1, <1>2, <1>8, <2>1, <4>1 DEF Published, Linking
      <4>3. Know(log'[i].node, log'[i].level, L)
        BY <4>1, <4>2
      <4>4. PICK j \in 1..L : log[j].value = log'[i].node /\ log[j].level = log'[i].level
        BY <4>3 DEF Know
      <4>5. j \in 1..L + 1 /\ log'[j] = log[j]
        BY <1>7
      <4> QED BY <1>7, <4>4, <4>5 DEF Know
    <3> QED BY <3>1, <3>2
  <2> QED BY <1>7, <2>1 DEF Published
<1>15. KeysKnown'
  <2>1. ASSUME NEW i \in 1..L + 1, log'[i].value \in Keys
        PROVE  log'[i].value \in inserted \/ (log'[i].value = w /\ log'[i].level < l)
    <3>1. CASE i = L + 1
      <4>1. u \in Keys
        BY <1>6, <1>7, <2>1, <3>1
      <4>2. PICK j \in 1..L : log[j].value = u /\ log[j].level = l
        BY <1>9, <4>1 DEF Know
      <4>3. u \in inserted \/ u = w
        BY <1>2, <1>8, <4>1, <4>2 DEF KeysKnown
      <4>4. u # w
        BY <1>3, <1>4
      <4> QED BY <1>6, <1>7, <3>1, <4>3, <4>4
    <3>2. CASE i # L + 1
      <4>1. i \in 1..L /\ log'[i] = log[i]
        BY <1>7, <3>2
      <4> QED BY <1>2, <1>8, <2>1, <4>1 DEF KeysKnown
    <3> QED BY <3>1, <3>2
  <2>2. ASSUME NEW k \in inserted PROVE Know(k, 0, Len(log))'
    BY <1>2, <1>8, <1>13 DEF KeysKnown
  <2> QED BY <1>1, <1>7, <1>11, <2>1, <2>2 DEF KeysKnown
<1>16. WriterInv'
  <2>1. /\ w \notin inserted /\ writer.height <= max_height_
        /\ writer.prev \in [0..writer.height - 1 -> 0..MaxKey]
        /\ \A m \in 0..l - 1 : Know(w, m, L)
        /\ \A m \in l..writer.height - 1 : PrevIsRight(writer.prev[m], m, w)
    BY <1>1, <1>2, <1>8 DEF WriterInv
  <2>2. ASSUME NEW m \in l..writer.height - 1
        PROVE  PrevIsRight(writer.prev[m], m, writer.key)'
    <3>1. PICK q : q = writer.prev[m]
      OBVIOUS
    <3>2. q \in 0..MaxKey /\ q < w /\ (q = Head_ \/ Know(q, m, L)) /\ Link(q, m) > w
      <4>1. m \in 0..writer.height - 1
        BY <1>3
      <4> QED BY <1>2, <2>1, <3>1, <4>1 DEF PrevIsRight
    <3>3. Link(q, m)' = Link(q, m)
      <4>1. s.node # q
        BY <1>3, <1>4, <1>6, <3>2
      <4> QED BY <1>5, <4>1, SameLink
    <3>4. PrevIsRight(q, m, w)'
      BY <1>13, <3>2, <3>3 DEF PrevIsRight
    <3>5. writer'.prev[m] = q /\ writer'.key = w
      BY <1>11, <3>1
    <3> QED BY <3>4, <3>5 DEF PrevIsRight, Know, Link, ValueAt, StoresTo
  <2>3. Set(writer.key, writer.level, Len(log))'
    <3>1. L + 1 \in 1..L + 1
      BY <1>7
    <3> QED BY <1>6, <1>7, <1>11, <3>1 DEF Set
  <2>4. ASSUME NEW m \in 0..l - 1 PROVE Know(writer.key, m, Len(log))'
    <3>1. Know(w, m, Len(log))'
      BY <1>13, <2>1
    <3> QED BY <1>11, <3>1 DEF Know
  <2> QED BY <1>1, <1>3, <1>11, <2>1, <2>2, <2>3, <2>4 DEF WriterInv
<1> QED BY <1>10, <1>12, <1>14, <1>15, <1>16 DEF ListInv

(* The node before it leads to the new node, whose links are set: any other
   link that would pass over it was set again before. *)
LEMMA PublishKeeps ==
  ASSUME SkipListAssumption, Types, ListInv, Publish
  PROVE  Types' /\ ListInv'
<1>1. writer # None /\ writer.linked /\ max_height_' = max_height_ /\ reader' = reader
  BY DEF Publish
<1>2. PICK w, l, p, L :
        w = writer.key /\ l = writer.level /\ p = writer.prev[l] /\ L = Len(log)
  OBVIOUS
<1>3. /\ writer \in Insertion /\ w \in Keys /\ l \in Levels
      /\ l < writer.height /\ writer.height \in Nat /\ l \in Nat
      /\ p \in 0..MaxKey /\ p < w /\ OnList(p, l)
      /\ Link(p, l) \in w + 1..Nil
      /\ \A k \in Keys : p < k /\ Know(k, l, L) => Link(p, l) <= k
  BY <1>1, <1>2, WriterAt
<1>4. /\ MaxKey \in Nat /\ Nil = MaxKey + 1 /\ Head_ = 0 /\ Keys = 1..MaxKey
      /\ None \notin Insertion
  BY DEF SkipListAssumption, Nil, Head_, Keys
<1> DEFINE s == [node |-> p, level |-> l, value |-> w]
<1>5. s \in StoreType /\ log \in Seq(StoreType) /\ log' = Append(log, s)
  <2>1. w \in 1..Nil
    BY <1>3, <1>4
  <2>2. log' = Append(log, s)
    BY <1>2 DEF Publish, Store
  <2> QED BY <1>3, <2>1, <2>2 DEF StoreType, Types
<1>6. s.node = p /\ s.level = l /\ s.value = w
  OBVIOUS
<1> HIDE DEF s
<1>7. /\ log' \in Seq(StoreType) /\ L \in Nat /\ Len(log') = L + 1
      /\ \A i \in 1..L : log'[i] = log[i] /\ log[i] \in StoreType
      /\ log'[L + 1] = s
  BY <1>2, <1>5, Stored
<1>8. /\ Sorted /\ Initialised /\ Tight /\ HeadTight /\ Published /\ KeysKnown /\ WriterInv
  BY DEF ListInv
<1>9. /\ w \notin inserted /\ writer.height <= max_height_
      /\ writer.prev \in [0..writer.height - 1 -> 0..MaxKey]
      /\ \A m \in 0..l - 1 : Know(w, m, L)
      /\ \A m \in l..writer.height - 1 : PrevIsRight(writer.prev[m], m, w)
      /\ Set(w, l, L)
  BY <1>1, <1>2, <1>8 DEF WriterInv
<1>10. ASSUME p # Head_ PROVE p \in Keys /\ Know(p, l, L)
  BY <1>2, <1>3, <1>10 DEF OnList
<1>11. (Sorted /\ Initialised /\ Tight /\ HeadTight)'
  <2>1. s.node < s.value
    BY <1>3, <1>6
  <2>2. s.level < max_height_
    <3>1. max_height_ \in Nat
      BY DEF Types, SkipListAssumption
    <3> QED BY <1>3, <1>6, <1>9, <3>1
  <2>3. ASSUME NEW m \in 0..s.level PROVE Set(s.value, m, Len(log))
    <3>1. CASE m = l
      BY <1>2, <1>6, <1>9, <3>1
    <3>2. CASE m # l
      <4>1. m \in 0..l - 1 /\ m \in Levels /\ L \in 0..Len(log) /\ m \in 0..m
        BY <1>2, <1>3, <1>6, <1>7, <3>2 DEF Levels, SkipListAssumption
      <4>2. Know(w, m, L)
        BY <1>9, <4>1
      <4> QED BY <1>2, <1>3, <1>5, <1>6, <1>8, <4>1, <4>2, KnownIsSet
    <3> QED BY <3>1, <3>2
  <2>4. s.level > 0 => Know(s.value, s.level - 1, Len(log))
    <3>1. l > 0 => l - 1 \in 0..l - 1
      BY <1>3
    <3> QED BY <1>2, <1>6, <1>9, <3>1
  <2>5. s.node = Head_ \/ Set(Head_, s.level, Len(log))
    <3> SUFFICES ASSUME p # Head_ PROVE Set(Head_, l, L)
      BY <1>2, <1>6
    <3>1. PICK j \in 1..L : log[j].value = p /\ log[j].level = l
      BY <1>10 DEF Know
    <3>2. Set(Head_, l, j)
      BY <1>2, <1>8, <1>10, <3>1 DEF HeadTight
    <3> QED BY <1>7, <3>2 DEF Set
  <2>6. ASSUME NEW j \in 1..Len(log),
               log[j].level = s.level, s.node < log[j].value, log[j].value < s.value
        PROVE  FALSE
    <3>1. log[j].value \in 1..Nil /\ Know(log[j].value, l, L)
      BY <1>2, <1>6, <1>7, <2>6 DEF StoreType, Know
    <3>2. log[j].value \in Keys /\ p < log[j].value
      BY <1>3, <1>4, <1>6, <2>6, <3>1
    <3>3. Link(p, l) <= log[j].value
      BY <1>3, <3>1, <3>2
    <3> QED BY <1>3, <1>4, <1>6, <2>6, <3>1, <3>3
  <2>7. ASSUME NEW i \in 1..Len(log),
               log[i].level = s.level, log[i].node < s.value, s.value < log[i].value
        PROVE  \/ log[i].node = s.node
               \/ \E m \in i + 1..Len(log) : log[m].node = log[i].node /\ log[m].level = s.level
    <3>1. log[i].value \in 1..Nil /\ log[i].node \in 0..MaxKey
      BY <1>2, <1>7 DEF StoreType
    <3>2. CASE log[i].node < p
      <4>1. p # Head_
        BY <1>4, <3>1, <3>2
      <4>2. PICK j \in 1..L : log[j].value = p /\ log[j].level = l
        BY <1>10, <4>1 DEF Know
      <4>3. p < log[i].value
        BY <1>3, <1>4, <1>6, <2>7, <3>1
      <4>4. PICK m \in i + 1..j : log[m].node = log[i].node /\ log[m].level = log[i].level
        BY <1>2, <1>6, <1>8, <2>7, <3>2, <4>2, <4>3 DEF Tight
      <4>5. m \in i + 1..Len(log)
        BY <1>2, <1>7
      <4> QED BY <2>7, <4>4, <4>5
    <3>3. CASE log[i].node > p
      <4>1. log[i].node \in Keys /\ log[i].node # w
        BY <1>3, <1>4, <1>6, <2>7, <3>1, <3>3
      <4>2. Know(log[i].node, l, L)
        BY <1>2, <1>6, <1>8, <2>7, <4>1 DEF Published, Linking
      <4>3. Link(p, l) <= log[i].node
        BY <1>3, <3>1, <3>3, <4>1, <4>2
      <4> QED BY <1>3, <1>4, <1>6, <2>7, <3>1, <4>3
    <3> QED BY <1>3, <1>6, <3>1, <3>2, <3>3
  <2> QED BY <1>1, <1>5, <1>8, <2>1, <2>2, <2>3, <2>4, <2>5, <2>6, <2>7, NewStore
<1>12. ASSUME NEW n, NEW m, Know(n, m, L) PROVE Know(n, m, Len(log))'
  <2>1. L \in 0..Len(log)
    BY <1>2, <1>7
  <2> QED BY <1>5, <1>12, <2>1, KnowStays
<1>13. Know(w, l, Len(log))'
  <2>1. L + 1 \in 1..L + 1
    BY <1>7
  <2> QED BY <1>6, <1>7, <2>1 DEF Know
<1>14. \/ /\ l + 1 < writer.height /\ inserted' = inserted
          /\ writer' = [writer EXCEPT !.level = @ + 1, !.linked = FALSE]
       \/ writer' = None /\ inserted' = inserted \cup {w}
  BY <1>2 DEF Publish
<1>15. \/ writer' = None /\ inserted' = inserted \cup {w}
       \/ /\ inserted' = inserted /\ writer' # None
          /\ writer' \in Insertion /\ l + 1 < writer.height
          /\ writer'.key = w /\ writer'.level = l + 1 /\ ~writer'.linked
          /\ writer'.height = writer.height /\ writer'.prev = writer.prev
  <2> SUFFICES ASSUME l + 1 < writer.height,
                      writer' = [writer EXCEPT !.level = @ + 1, !.linked = FALSE]
               PROVE  /\ writer' \in Insertion
                      /\ writer'.key = w /\ writer'.level = l + 1 /\ ~writer'.linked
                      /\ writer'.height = writer.height /\ writer'.prev = writer.prev
    BY <1>4, <1>14
  <2> DEFINE P == UNION {[0..g - 1 -> 0..MaxKey] : g \in 1..kMaxHeight}
  <2>1. Insertion = [key : Keys, height : 1..kMaxHeight, prev : P, level : Levels, linked : BOOLEAN]
    BY DEF Insertion
  <2> HIDE DEF P
  <2>2. writer.height \in 1..kMaxHeight
    BY <1>3, <2>1
  <2>3. l + 1 \in Levels
    BY <1>3, <2>2 DEF Levels, SkipListAssumption
  <2> QED BY <1>2, <1>3, <2>1, <2>3
<1>16. Types'
  <2>1. reader.seen <= Len(log) /\ reader.seen \in Nat
    BY DEF Types
  <2>2. reader'.seen <= Len(log')
    BY <1>1, <1>2, <1>7, <2>1
  <2>3. inserted' \subseteq Keys
    BY <1>3, <1>14 DEF Types
  <2> QED BY <1>1, <1>7, <1>15, <2>2, <2>3 DEF Types
<1>17. Published'
  <2>1. ASSUME NEW i \in 1..L + 1, log'[i].node \in Keys
        PROVE  Know(log[i].node, log[i].level, Len(log))'
    <3>1. PICK n, m : n = log'[i].node /\ m = log'[i].level
      OBVIOUS
    <3>2. Know(n, m, Len(log))'
      <4>1. CASE i = L + 1
        <5>1. n = p /\ m = l /\ p # Head_
          BY <1>4, <1>6, <1>7, <2>1, <3>1, <4>1
        <5> QED BY <1>10, <1>12, <5>1
      <4>2. CASE i # L + 1
        <5>1. i \in 1..L /\ log'[i] = log[i]
          BY <1>7, <4>2
        <5>2. Know(n, m, L) \/ (n = w /\ m = l)
          BY <1>2, <1>8, <2>1, <3>1, <5>1 DEF Published, Linking
        <5> QED BY <1>12, <1>13, <5>2
      <4> QED BY <4>1, <4>2
    <3> QED BY <3>1, <3>2 DEF Know
  <2> QED BY <1>7, <2>1 DEF Published
<1>18. KeysKnown'
  <2>1. ASSUME NEW i \in 1..L + 1, log'[i].value \in Keys
        PROVE  log'[i].value \in inserted \/ (log'[i].value = w /\ log'[i].level < l + 1)
    <3>1. CASE i = L + 1
      BY <1>3, <1>6, <1>7, <3>1
    <3>2. CASE i # L + 1
      <4>1. i \in 1..L /\ log'[i] = log[i] /\ log[i] \in StoreType
        BY <1>7, <3>2
      <4>2. log[i].level \in Nat
        BY <4>1 DEF StoreType, Levels, SkipListAssumption
      <4>3. log[i].value \in inserted \/ (log[i].value = w /\ log[i].level < l)
        BY <1>2, <1>8, <2>1, <4>1 DEF KeysKnown
      <4> QED BY <1>3, <4>1, <4>2, <4>3
    <3> QED BY <3>1, <3>2
  <2>2. ASSUME NEW k \in inserted PROVE Know(k, 0, Len(log))'
    BY <1>2, <1>8, <1>12 DEF KeysKnown
  <2>3. Know(w, 0, Len(log))'
    <3>1. CASE l = 0
      BY <1>13, <3>1
    <3>2. CASE l # 0
      <4>1. 0 \in 0..l - 1
        BY <1>3, <3>2
      <4> QED BY <1>9, <1>12, <4>1
    <3> QED BY <3>1, <3>2
  <2>4. CASE writer' = None /\ inserted' = inserted \cup {w}
    BY <1>7, <2>1, <2>2, <2>3, <2>4 DEF KeysKnown
  <2>5. CASE inserted' = inserted /\ writer' # None
    BY <1>7, <1>15, <2>1, <2>2, <2>5 DEF KeysKnown
  <2> QED BY <1>15, <2>4, <2>5
<1>19. WriterInv'
  <2> SUFFICES ASSUME writer' # None PROVE WriterInv'
    BY DEF WriterInv
  <2>1. /\ writer' \in Insertion /\ l + 1 < writer.height
        /\ writer'.key = w /\ writer'.level = l + 1 /\ ~writer'.linked
        /\ writer'.height = writer.height /\ writer'.prev = writer.prev
    BY <1>15
  <2>2. inserted' = inserted
    BY <1>15
  <2>3. ASSUME NEW m \in l + 1..writer.height - 1
        PROVE  PrevIsRight(writer.prev[m], m, writer.key)'
    <3>1. PICK q : q = writer.prev[m]
      OBVIOUS
    <3>2. q < w /\ (q = Head_ \/ Know(q, m, L)) /\ Link(q, m) > w
      <4>1. m \in l..writer.height - 1
        BY <1>3
      <4> QED BY <1>2, <1>9, <3>1, <4>1 DEF PrevIsRight
    <3>3. Link(q, m)' = Link(q, m)
      <4>1. s.level # m
        BY <1>3, <1>6
      <4> QED BY <1>5, <4>1, SameLink
    <3>4. PrevIsRight(q, m, w)'
      BY <1>12, <3>2, <3>3 DEF PrevIsRight
    <3>5. writer'.prev[m] = q /\ writer'.key = w
      BY <2>1, <3>1
    <3> QED BY <3>4, <3>5 DEF PrevIsRight, Know, Link, ValueAt, StoresTo
  <2>4. ASSUME NEW m \in 0..(l + 1) - 1 PROVE Know(writer.key, m, Len(log))'
    <3>1. CASE m = l
      <4>1. Know(w, m, Len(log))'
        BY <1>13, <3>1
      <4> QED BY <2>1, <4>1 DEF Know
    <3>2. CASE m # l
      <4>1. m \in 0..l - 1
        BY <1>3, <3>2
      <4>2. Know(w, m, Len(log))'
        BY <1>9, <1>12, <4>1
      <4> QED BY <2>1, <4>2 DEF Know
    <3> QED BY <3>1, <3>2
  <2> QED BY <1>1, <1>9, <2>1, <2>2, <2>3, <2>4 DEF WriterInv
<1> QED BY <1>11, <1>16, <1>17, <1>18, <1>19 DEF ListInv

-------------------------------------------------------------------------------
(* The reader. *)

(* What a load may return: a link that leads on to a node which is ready, and
   over no key of the level that the reader knows. *)
LEMMA ReadLeads ==
  ASSUME SkipListAssumption, Types, ListInv, NEW n \in 0..MaxKey, NEW l \in Levels,
         Safe(n, l), NEW i \in Readable(n, l)
  PROVE  /\ Acquire(i) \in reader.seen..Len(log)
         /\ ValueAt(n, l, i) \in n + 1..Nil
         /\ ValueAt(n, l, i) \in Keys => \A m \in 0..l : Set(ValueAt(n, l, i), m, Acquire(i))
         /\ \A k \in Keys : n < k /\ Know(k, l, reader.seen) => ValueAt(n, l, i) <= k
<1>1. /\ MaxKey \in Nat /\ Nil = MaxKey + 1 /\ Head_ = 0 /\ Keys = 1..MaxKey
      /\ log \in Seq(StoreType) /\ Len(log) \in Nat /\ DOMAIN log = 1..Len(log)
      /\ reader.seen \in 0..Len(log)
  BY DEF SkipListAssumption, Nil, Head_, Keys, Types
<1>2. Sorted /\ Initialised /\ Tight /\ HeadTight
  BY DEF ListInv
<1> DEFINE S == {0} \cup StoresTo(n, l)
           F == {j \in S : j <= reader.seen}
<1>3. S \subseteq 0..Len(log) /\ 0 \in F
  BY <1>1 DEF StoresTo
<1>4. PICK f \in F : f = Max(F) /\ \A j \in F : j <= f
  <2>1. F \subseteq 0..Len(log) /\ F # {}
    BY <1>3
  <2> HIDE DEF F
  <2> QED BY <1>1, <2>1, MaxIs
<1>5. i \in S /\ i >= f
  BY <1>4 DEF Readable
<1>6. i \in 0..Len(log) /\ f \in 0..Len(log)
  BY <1>3, <1>4, <1>5
<1>7. Acquire(i) \in reader.seen..Len(log) /\ i <= Acquire(i)
  <2>1. {reader.seen, i} \subseteq 0..Len(log)
    BY <1>1, <1>6
  <2>2. Acquire(i) \in {reader.seen, i} /\ \A y \in {reader.seen, i} : y <= Acquire(i)
    BY <1>1, <2>1, MaxIs DEF Acquire
  <2> QED BY <1>1, <1>6, <2>2
<1>8. CASE i = 0
  <2>1. ASSUME NEW j \in 1..reader.seen, log[j].node = n, log[j].level = l PROVE FALSE
    <3>1. j \in F
      BY <1>1, <2>1 DEF StoresTo
    <3>2. j <= f /\ f <= 0
      BY <1>4, <1>5, <1>6, <1>8, <3>1
    <3> QED BY <1>1, <1>6, <3>2
  <2>2. n = Head_ /\ ValueAt(n, l, i) = Nil
    BY <1>8, <2>1 DEF Safe, Set, ValueAt
  <2>3. ASSUME NEW k \in Keys, Know(k, l, reader.seen) PROVE FALSE
    <3>1. PICK j \in 1..reader.seen : log[j].value = k /\ log[j].level = l
      BY <2>3 DEF Know
    <3>2. j \in 1..Len(log) /\ 1..j \subseteq 1..reader.seen
      BY <1>1
    <3>3. Set(Head_, l, j)
      BY <1>2, <2>3, <3>1, <3>2 DEF HeadTight
    <3> QED BY <2>1, <2>2, <3>2, <3>3 DEF Set
  <2> QED BY <1>1, <1>7, <2>2, <2>3
<1>9. CASE i # 0
  <2>1. i \in 1..Len(log) /\ log[i].node = n /\ log[i].level = l /\ log[i] \in StoreType
    BY <1>1, <1>5, <1>9 DEF StoresTo
  <2>2. ValueAt(n, l, i) = log[i].value
    BY <1>9 DEF ValueAt
  <2>3. log[i].value \in n + 1..Nil
    <3>1. n < log[i].value /\ log[i].value \in 1..Nil
      BY <1>2, <2>1 DEF Sorted, StoreType
    <3> QED BY <1>1, <3>1
  <2>4. ASSUME log[i].value \in Keys, NEW m \in 0..l PROVE Set(log[i].value, m, Acquire(i))
    <3>1. Set(log[i].value, m, i - 1)
      BY <1>2, <2>1, <2>4 DEF Initialised
    <3>2. 1..i - 1 \subseteq 1..Acquire(i)
      BY <1>1, <1>7, <2>1
    <3> QED BY <3>1, <3>2 DEF Set
  <2>5. ASSUME NEW k \in Keys, n < k, Know(k, l, reader.seen), ~(log[i].value <= k) PROVE FALSE
    <3>1. PICK j \in 1..reader.seen : log[j].value = k /\ log[j].level = l
      BY <2>5 DEF Know
    <3>2. j \in 1..Len(log) /\ log[j].value < log[i].value
      BY <1>1, <2>3, <2>5, <3>1
    <3>3. PICK m \in i + 1..j : log[m].node = n /\ log[m].level = l
      BY <1>2, <2>1, <2>5, <3>1, <3>2 DEF Tight
    <3>4. m \in 1..Len(log) /\ m <= reader.seen /\ m > i
      BY <1>1, <2>1, <3>2
    <3>5. m \in F
      BY <1>1, <3>3, <3>4 DEF StoresTo
    <3>6. m <= f
      BY <1>4, <3>5
    <3> QED BY <1>5, <1>6, <2>1, <3>4, <3>6
  <2> QED BY <1>7, <2>2, <2>3, <2>4, <2>5
<1> QED BY <1>8, <1>9

(* The writer's steps leave the reader what it knows. *)
LEMMA WriterLeavesReader ==
  ASSUME SkipListAssumption, Types, ReaderInv, GreaterOrEqualIsRight, LessThanIsRight,
         reader' = reader, log' = log \/ \E s \in StoreType : log' = Append(log, s)
  PROVE  ReaderInv' /\ GreaterOrEqualIsRight' /\ LessThanIsRight'
<1>1. log \in Seq(StoreType) /\ reader.seen \in 0..Len(log)
  BY DEF Types
<1>2. ASSUME NEW n, NEW l
      PROVE  /\ Know(n, l, reader.seen) => Know(n, l, reader.seen)'
             /\ Set(n, l, reader.seen) => Set(n, l, reader.seen)'
  <2>1. PICK t \in 0..Len(log) : t = reader.seen /\ t = reader'.seen
    BY <1>1
  <2>2. (Know(n, l, t) => Know(n, l, t)') /\ (Set(n, l, t) => Set(n, l, t)')
    BY <1>1, SameLog, KnowStays
  <2> QED BY <2>1, <2>2 DEF Know, Set
<1>3. GreaterOrEqualIsRight' /\ LessThanIsRight'
  BY DEF GreaterOrEqualIsRight, LessThanIsRight
<1>4. PICK node, x, from : node = reader.node /\ x = reader.x /\ from = reader.from
  OBVIOUS
<1>5. reader'.node \in Keys => Set(reader.node, 0, reader.seen)'
  <2>1. node \in Keys => Set(node, 0, reader.seen)'
    BY <1>2, <1>4 DEF ReaderInv
  <2> QED BY <1>4, <2>1 DEF Set
<1>6. \A k \in from : Know(k, 0, reader.seen)'
  BY <1>2, <1>4 DEF ReaderInv
<1>7. reader.op \in {"searching_ge", "searching_lt"} => \A l \in 0..reader.level : Safe(reader.x, l)'
  <2>1. reader.op \in {"searching_ge", "searching_lt"} =>
          \A l \in 0..reader.level : x = Head_ \/ Set(x, l, reader.seen)'
    BY <1>2, <1>4 DEF ReaderInv, Safe
  <2> QED BY <1>4, <2>1 DEF Safe, Set
<1>8. reader.op = "stepping" => Set(reader.x, 0, reader.seen)'
  <2>1. reader.op = "stepping" => Set(x, 0, reader.seen)'
    BY <1>2, <1>4 DEF ReaderInv
  <2> QED BY <1>4, <2>1 DEF Set
<1>9. ReaderInv'
  BY <1>4, <1>5, <1>6, <1>7, <1>8 DEF ReaderInv
<1> QED BY <1>3, <1>9

(* The reader's steps leave the list. *)
LEMMA ReaderLeavesList ==
  ASSUME ListInv, UNCHANGED <<log, max_height_, writer, inserted>>
  PROVE  ListInv'
<1>1. Sorted' /\ Initialised' /\ Tight' /\ HeadTight'
  BY DEF ListInv, Sorted, Initialised, Tight, HeadTight, Know, Set
<1>2. Published' /\ KeysKnown'
  BY DEF ListInv, Published, KeysKnown, Linking, Know
<1>3. WriterInv'
  BY DEF ListInv, WriterInv, PrevIsRight, Know, Set, Link, ValueAt, StoresTo
<1> QED BY <1>1, <1>2, <1>3 DEF ListInv

(* The operations of an iterator, as Begin gets them. *)
Starts(op, target, x, level) ==
  \/ /\ op \in {"searching_ge", "searching_lt"} /\ x = Head_
     /\ target \in 1..Nil /\ level \in Levels
  \/ /\ op = "stepping" /\ x = reader.node /\ reader.node \in Keys /\ target = x + 1 /\ level = 0

(* A search begins at head_, a step at the iterator's node: both are ready. *)
LEMMA BeginKeeps ==
  ASSUME SkipListAssumption, MemInv, NEW op, NEW target, NEW x, NEW level, NEW mutex \in BOOLEAN,
         Starts(op, target, x, level), Begin(op, target, x, level, mutex)
  PROVE  MemInv'
<1>1. /\ MaxKey \in Nat /\ Nil = MaxKey + 1 /\ Head_ = 0 /\ Keys = 1..MaxKey
      /\ 0 \in Levels /\ Levels \subseteq Nat
  BY DEF SkipListAssumption, Nil, Head_, Keys, Levels
<1>2. Types /\ ListInv /\ ReaderInv
  BY DEF MemInv
<1>3. UNCHANGED <<log, max_height_, writer, inserted>>
  BY DEF Begin
<1>4. log \in Seq(StoreType) /\ Len(log) \in Nat
      /\ reader.seen \in 0..Len(log) /\ reader.node \in 1..Nil
      /\ reader \in [node : 1..Nil, op : Ops, target : 0..Nil, x : 0..MaxKey, level : Levels,
                     seen : Nat, from : SUBSET Keys]
  BY <1>2 DEF Types
<1> DEFINE seen == IF mutex THEN Len(log) ELSE reader.seen
<1>5. seen \in 0..Len(log) /\ reader.seen <= seen
  BY <1>4
<1>6. reader' = [reader EXCEPT !.op = op, !.target = target, !.x = x, !.level = level,
                               !.seen = seen, !.from = KnownAt(seen)]
  BY DEF Begin
<1> HIDE DEF seen
<1>7. /\ reader'.node = reader.node /\ reader'.op = op /\ reader'.target = target
      /\ reader'.x = x /\ reader'.level = level /\ reader'.seen = seen
      /\ reader'.from = KnownAt(seen)
  BY <1>4, <1>6
<1>8. KnownAt(seen) \subseteq Keys /\ \A k \in KnownAt(seen) : Know(k, 0, seen)
  BY DEF KnownAt, Know
<1>9. Types'
  <2>1. op \in Ops /\ target \in 0..Nil /\ x \in 0..MaxKey /\ level \in Levels
    BY <1>1 DEF Starts, Ops
  <2>2. reader' \in [node : 1..Nil, op : Ops, target : 0..Nil, x : 0..MaxKey, level : Levels,
                     seen : Nat, from : SUBSET Keys]
    <3>1. PICK from \in SUBSET Keys : from = KnownAt(seen)
      BY <1>8
    <3>2. PICK t \in Nat : t = seen
      BY <1>4, <1>5
    <3>3. reader' = [reader EXCEPT !.op = op, !.target = target, !.x = x, !.level = level,
                                   !.seen = t, !.from = from]
      BY <1>6, <3>1, <3>2
    <3> QED BY <1>4, <2>1, <3>3
  <2>3. reader'.seen <= Len(log')
    BY <1>3, <1>5, <1>7
  <2> QED BY <1>2, <1>3, <2>2, <2>3 DEF Types
<1>10. ASSUME NEW n, Set(n, 0, reader.seen) PROVE Set(n, 0, seen)
  <2>1. 1..reader.seen \subseteq 1..seen
    BY <1>4, <1>5
  <2> QED BY <1>10, <2>1 DEF Set
<1>11. ReaderInv'
  <2>1. reader'.node \in Keys => Set(reader.node, 0, reader.seen)'
    <3>1. reader.node \in Keys => Set(reader.node, 0, seen)
      BY <1>2, <1>10 DEF ReaderInv
    <3> QED BY <1>3, <1>7, <3>1 DEF Set
  <2>2. \A k \in KnownAt(seen) : Know(k, 0, reader.seen)'
    BY <1>3, <1>7, <1>8 DEF Know
  <2>3. op \in {"searching_ge", "searching_lt"} =>
          x < target /\ \A l \in 0..level : Safe(reader.x, l)'
    BY <1>1, <1>7 DEF Starts, Safe
  <2>4. op = "stepping" => x \in Keys /\ target = x + 1 /\ Set(reader.x, 0, reader.seen)'
    <3>1. op = "stepping" => x \in Keys /\ target = x + 1 /\ x = reader.node
      BY DEF Starts
    <3>2. op = "stepping" => Set(x, 0, seen)
      BY <1>2, <1>10, <3>1 DEF ReaderInv
    <3> QED BY <1>3, <1>7, <3>1, <3>2 DEF Set
  <2> QED BY <1>7, <2>1, <2>2, <2>3, <2>4 DEF ReaderInv
<1>12. op # "ge" /\ op # "lt"
  BY DEF Starts
<1>13. GreaterOrEqualIsRight' /\ LessThanIsRight'
  BY <1>7, <1>12 DEF GreaterOrEqualIsRight, LessThanIsRight
<1>14. ListInv'
  BY <1>2, <1>3, ReaderLeavesList
<1> QED BY <1>9, <1>11, <1>13, <1>14 DEF MemInv

(* One load takes a search on, down or to its end. *)
LEMMA SearchStepKeeps ==
  ASSUME SkipListAssumption, MemInv, SearchStep
  PROVE  MemInv'
<1>1. /\ MaxKey \in Nat /\ Nil = MaxKey + 1 /\ Head_ = 0 /\ Keys = 1..MaxKey
      /\ Garbage = -1 /\ kMaxHeight \in Nat /\ Levels = 0..kMaxHeight - 1
  BY DEF SkipListAssumption, Nil, Head_, Keys, Levels, Garbage
<1>2. Types /\ ListInv /\ ReaderInv
  BY DEF MemInv
<1>3. UNCHANGED <<log, max_height_, writer, inserted>>
      /\ reader.op \in {"searching_ge", "searching_lt"}
  BY DEF SearchStep
<1>4. /\ log \in Seq(StoreType) /\ Len(log) \in Nat
      /\ reader.seen \in 0..Len(log) /\ reader.node \in 1..Nil
      /\ reader.x \in 0..MaxKey /\ reader.level \in Levels /\ reader.target \in 0..Nil
      /\ reader.from \subseteq Keys
      /\ reader \in [node : 1..Nil, op : Ops, target : 0..Nil, x : 0..MaxKey, level : Levels,
                     seen : Nat, from : SUBSET Keys]
  BY <1>2 DEF Types
<1>5. /\ reader.node \in Keys => Set(reader.node, 0, reader.seen)
      /\ \A k \in reader.from : Know(k, 0, reader.seen)
      /\ reader.x < reader.target /\ \A l \in 0..reader.level : Safe(reader.x, l)
  BY <1>2, <1>3 DEF ReaderInv
<1>6. PICK i, next, seen, r :
        /\ i \in Readable(reader.x, reader.level)
        /\ next = ValueAt(reader.x, reader.level, i) /\ seen = Acquire(i)
        /\ r = [reader EXCEPT !.seen = seen]
        /\ reader' =
            IF next = Garbage THEN [r EXCEPT !.op = "garbage"]
            ELSE IF KeyIsAfterNode(reader.target, next) THEN [r EXCEPT !.x = next]
            ELSE IF reader.level > 0 THEN [r EXCEPT !.level = @ - 1]
            ELSE IF reader.op = "searching_ge" THEN [r EXCEPT !.op = "ge", !.node = next]
            ELSE [r EXCEPT !.op = "lt", !.node = Before(r.x)]
  BY DEF SearchStep
<1>7. reader.level \in 0..reader.level /\ 0 \in 0..reader.level
  BY <1>1, <1>4
<1>8. /\ seen \in reader.seen..Len(log)
      /\ next \in reader.x + 1..Nil
      /\ next \in Keys => \A m \in 0..reader.level : Set(next, m, seen)
      /\ \A k \in Keys :
           reader.x < k /\ Know(k, reader.level, reader.seen) => next <= k
  BY <1>2, <1>4, <1>5, <1>6, <1>7, ReadLeads
<1>9. /\ next # Garbage /\ next \in 1..Nil /\ seen \in 0..Len(log)
      /\ 1..reader.seen \subseteq 1..seen
  BY <1>1, <1>4, <1>8
<1>10. /\ \A n, l : Set(n, l, reader.seen) => Set(n, l, seen)
       /\ \A n, l : Know(n, l, reader.seen) => Know(n, l, seen)
  BY <1>9 DEF Set, Know
<1>11. /\ r.node = reader.node /\ r.op = reader.op /\ r.target = reader.target /\ r.x = reader.x
       /\ r.level = reader.level /\ r.from = reader.from /\ r.seen = seen
       /\ r \in [node : 1..Nil, op : Ops, target : 0..Nil, x : 0..MaxKey, level : Levels,
                 seen : Nat, from : SUBSET Keys]
  BY <1>4, <1>6, <1>9
<1>12. /\ KeyIsAfterNode(reader.target, next) <=> next # Nil /\ next < reader.target
       /\ Before(r.x) = IF r.x = 0 THEN Nil ELSE r.x
  BY <1>1 DEF KeyIsAfterNode, Before
<1>13. ListInv'
  BY <1>2, <1>3, ReaderLeavesList
<1>14. ASSUME reader' \in [node : 1..Nil, op : Ops, target : 0..Nil, x : 0..MaxKey,
                           level : Levels, seen : Nat, from : SUBSET Keys],
              reader'.seen = seen, reader'.from = reader.from, reader'.target = reader.target,
              reader'.node \in Keys => Set(reader'.node, 0, seen),
              reader'.op \in {"searching_ge", "searching_lt"} =>
                 /\ reader'.x < reader.target
                 /\ \A l \in 0..reader'.level : reader'.x = Head_ \/ Set(reader'.x, l, seen),
              reader'.op # "stepping",
              GreaterOrEqualIsRight', LessThanIsRight'
       PROVE  MemInv'
  <2>1. Types'
    BY <1>2, <1>3, <1>9, <1>14 DEF Types
  <2>2. ReaderInv'
    <3>1. \A k \in reader.from : Know(k, 0, seen)
      BY <1>5, <1>10
    <3>2. \A k \in reader.from : Know(k, 0, reader.seen)'
      BY <1>3, <1>14, <3>1 DEF Know
    <3>3. reader'.node \in Keys => Set(reader.node, 0, reader.seen)'
      BY <1>3, <1>14 DEF Set
    <3>4. reader'.op \in {"searching_ge", "searching_lt"} =>
            \A l \in 0..reader'.level : Safe(reader.x, l)'
      BY <1>3, <1>14 DEF Safe, Set
    <3> QED BY <1>14, <3>2, <3>3, <3>4 DEF ReaderInv
  <2> QED BY <1>13, <1>14, <2>1, <2>2 DEF MemInv
<1>15. \A l \in 0..reader.level : reader.x = Head_ \/ Set(reader.x, l, seen)
  BY <1>5, <1>10 DEF Safe
<1>16. CASE next # Nil /\ next < reader.target
  <2>1. reader' = [r EXCEPT !.x = next] /\ next \in Keys /\ next \in 0..MaxKey
    BY <1>1, <1>6, <1>9, <1>12, <1>16
  <2>2. /\ reader' \in [node : 1..Nil, op : Ops, target : 0..Nil, x : 0..MaxKey,
                        level : Levels, seen : Nat, from : SUBSET Keys]
        /\ reader'.seen = seen /\ reader'.from = reader.from /\ reader'.target = reader.target
        /\ reader'.node = reader.node /\ reader'.op = reader.op /\ reader'.level = reader.level
        /\ reader'.x = next
    BY <1>11, <2>1
  <2>3. GreaterOrEqualIsRight' /\ LessThanIsRight' /\ reader'.op # "stepping"
    BY <1>3, <2>2 DEF GreaterOrEqualIsRight, LessThanIsRight
  <2> QED BY <1>5, <1>8, <1>10, <1>14, <1>16, <2>1, <2>2, <2>3
<1>17. CASE ~(next # Nil /\ next < reader.target) /\ reader.level > 0
  <2>1. reader' = [r EXCEPT !.level = r.level - 1]
    BY <1>6, <1>9, <1>12, <1>17
  <2>2. r.level - 1 \in Levels /\ r.level - 1 = reader.level - 1
        /\ 0..reader.level - 1 \subseteq 0..reader.level
    BY <1>1, <1>4, <1>11, <1>17
  <2>3. /\ reader' \in [node : 1..Nil, op : Ops, target : 0..Nil, x : 0..MaxKey,
                        level : Levels, seen : Nat, from : SUBSET Keys]
        /\ reader'.seen = seen /\ reader'.from = reader.from /\ reader'.target = reader.target
        /\ reader'.node = reader.node /\ reader'.op = reader.op /\ reader'.x = reader.x
        /\ reader'.level = reader.level - 1
    BY <1>11, <2>1, <2>2
  <2>4. GreaterOrEqualIsRight' /\ LessThanIsRight' /\ reader'.op # "stepping"
    BY <1>3, <2>3 DEF GreaterOrEqualIsRight, LessThanIsRight
  <2> QED BY <1>5, <1>10, <1>14, <1>15, <2>2, <2>3, <2>4
<1>18. ASSUME ~(next # Nil /\ next < reader.target), ~(reader.level > 0)
       PROVE  /\ reader.level = 0 /\ next >= reader.target
              /\ \A k \in reader.from : reader.x < k => next <= k
  <2>1. reader.level = 0
    BY <1>1, <1>4, <1>18
  <2>2. next >= reader.target
    BY <1>1, <1>4, <1>9, <1>18
  <2>3. \A k \in reader.from : reader.x < k => next <= k
    BY <1>4, <1>5, <1>8, <2>1
  <2> QED BY <2>1, <2>2, <2>3
<1>19. CASE /\ ~(next # Nil /\ next < reader.target) /\ ~(reader.level > 0)
            /\ reader.op = "searching_ge"
  <2>1. reader' = [r EXCEPT !.op = "ge", !.node = next] /\ "ge" \in Ops
    BY <1>6, <1>9, <1>12, <1>19 DEF Ops
  <2>2. /\ reader' \in [node : 1..Nil, op : Ops, target : 0..Nil, x : 0..MaxKey,
                        level : Levels, seen : Nat, from : SUBSET Keys]
        /\ reader'.seen = seen /\ reader'.from = reader.from /\ reader'.target = reader.target
        /\ reader'.node = next /\ reader'.op = "ge"
    BY <1>9, <1>11, <2>1
  <2>3. \A k \in reader.from : k >= reader.target => next <= k
    <3>1. ASSUME NEW k \in reader.from, k >= reader.target PROVE reader.x < k
      BY <1>1, <1>4, <1>5, <3>1
    <3> QED BY <1>18, <1>19, <3>1
  <2>4. GreaterOrEqualIsRight' /\ LessThanIsRight'
    BY <1>18, <1>19, <2>2, <2>3 DEF GreaterOrEqualIsRight, LessThanIsRight
  <2> QED BY <1>7, <1>8, <1>14, <2>2, <2>4
<1>20. CASE /\ ~(next # Nil /\ next < reader.target) /\ ~(reader.level > 0)
            /\ reader.op # "searching_ge"
  <2>1. reader' = [r EXCEPT !.op = "lt", !.node = Before(r.x)] /\ "lt" \in Ops
    BY <1>6, <1>9, <1>12, <1>20 DEF Ops
  <2>2. Before(r.x) = (IF reader.x = 0 THEN Nil ELSE reader.x) /\ Before(r.x) \in 1..Nil
    BY <1>1, <1>4, <1>11, <1>12
  <2>3. /\ reader' \in [node : 1..Nil, op : Ops, target : 0..Nil, x : 0..MaxKey,
                        level : Levels, seen : Nat, from : SUBSET Keys]
        /\ reader'.seen = seen /\ reader'.from = reader.from /\ reader'.target = reader.target
        /\ reader'.node = Before(r.x) /\ reader'.op = "lt"
    BY <1>11, <2>1, <2>2
  <2>4. ASSUME NEW k \in reader.from, k < reader.target PROVE k <= reader.x
    BY <1>1, <1>4, <1>9, <1>18, <1>20, <2>4
  <2>5. (IF reader'.node = Nil THEN Head_ ELSE reader'.node) = reader.x /\ reader'.node # Head_
    BY <1>1, <1>4, <2>2, <2>3
  <2>6. GreaterOrEqualIsRight' /\ LessThanIsRight'
    BY <1>5, <2>3, <2>4, <2>5 DEF GreaterOrEqualIsRight, LessThanIsRight
  <2>7. reader'.node \in Keys => Set(reader'.node, 0, seen)
    BY <1>1, <1>4, <1>7, <1>15, <2>2, <2>3
  <2> QED BY <1>14, <2>3, <2>6, <2>7
<1> QED BY <1>16, <1>17, <1>19, <1>20

(* Iterator::Next is one load on level 0. *)
LEMMA StepNextKeeps ==
  ASSUME SkipListAssumption, MemInv, StepNext
  PROVE  MemInv'
<1>1. /\ MaxKey \in Nat /\ Nil = MaxKey + 1 /\ Head_ = 0 /\ Keys = 1..MaxKey
      /\ Garbage = -1 /\ 0 \in Levels
  BY DEF SkipListAssumption, Nil, Head_, Keys, Levels, Garbage
<1>2. Types /\ ListInv /\ ReaderInv
  BY DEF MemInv
<1>3. UNCHANGED <<log, max_height_, writer, inserted>> /\ reader.op = "stepping"
  BY DEF StepNext
<1>4. /\ log \in Seq(StoreType) /\ Len(log) \in Nat
      /\ reader.seen \in 0..Len(log) /\ reader.x \in 0..MaxKey /\ reader.from \subseteq Keys
      /\ reader \in [node : 1..Nil, op : Ops, target : 0..Nil, x : 0..MaxKey, level : Levels,
                     seen : Nat, from : SUBSET Keys]
  BY <1>2 DEF Types
<1>5. /\ \A k \in reader.from : Know(k, 0, reader.seen)
      /\ reader.x \in Keys /\ reader.target = reader.x + 1 /\ Safe(reader.x, 0)
  BY <1>2, <1>3 DEF ReaderInv, Safe
<1>6. PICK i, next, seen :
        /\ i \in Readable(reader.x, 0)
        /\ next = ValueAt(reader.x, 0, i) /\ seen = Acquire(i)
        /\ reader' = [reader EXCEPT !.seen = seen, !.node = next,
                                    !.op = IF next = Garbage THEN "garbage" ELSE "ge"]
  BY DEF StepNext
<1>7. /\ seen \in reader.seen..Len(log) /\ next \in reader.x + 1..Nil
      /\ next \in Keys => \A m \in 0..0 : Set(next, m, seen)
      /\ \A k \in Keys : reader.x < k /\ Know(k, 0, reader.seen) => next <= k
  BY <1>1, <1>2, <1>4, <1>5, <1>6, ReadLeads
<1>8. /\ next # Garbage /\ next \in 1..Nil /\ seen \in 0..Len(log) /\ seen \in Nat
      /\ 1..reader.seen \subseteq 1..seen /\ 0 \in 0..0
  BY <1>1, <1>4, <1>7
<1>9. reader' = [reader EXCEPT !.seen = seen, !.node = next, !.op = "ge"] /\ "ge" \in Ops
  BY <1>6, <1>8 DEF Ops
<1>10. /\ reader' \in [node : 1..Nil, op : Ops, target : 0..Nil, x : 0..MaxKey,
                       level : Levels, seen : Nat, from : SUBSET Keys]
       /\ reader'.seen = seen /\ reader'.from = reader.from /\ reader'.target = reader.target
       /\ reader'.node = next /\ reader'.op = "ge"
  BY <1>4, <1>8, <1>9
<1>11. Types'
  BY <1>2, <1>3, <1>8, <1>10 DEF Types
<1>12. ListInv'
  BY <1>2, <1>3, ReaderLeavesList
<1>13. ReaderInv'
  <2>1. \A k \in reader.from : Know(k, 0, seen)
    BY <1>5, <1>8 DEF Know
  <2>2. \A k \in reader.from : Know(k, 0, reader.seen)'
    BY <1>3, <1>10, <2>1 DEF Know
  <2>3. next \in Keys => Set(reader.node, 0, reader.seen)'
    <3>1. next \in Keys => Set(next, 0, seen)
      BY <1>7, <1>8
    <3> QED BY <1>3, <1>10, <3>1 DEF Set
  <2> QED BY <1>10, <2>2, <2>3 DEF ReaderInv
<1>14. GreaterOrEqualIsRight' /\ LessThanIsRight'
  <2>1. next >= reader.target
    BY <1>1, <1>4, <1>5, <1>7
  <2>2. ASSUME NEW k \in reader.from, k >= reader.target PROVE next <= k
    <3>1. k \in Keys /\ reader.x < k
      BY <1>1, <1>4, <1>5, <2>2
    <3> QED BY <1>5, <1>7, <3>1
  <2> QED BY <1>10, <2>1, <2>2 DEF GreaterOrEqualIsRight, LessThanIsRight
<1> QED BY <1>11, <1>12, <1>13, <1>14 DEF MemInv

-------------------------------------------------------------------------------
(* An empty list. *)
LEMMA InitMem ==
  ASSUME SkipListAssumption, Init
  PROVE  MemInv
<1>1. /\ MaxKey \in Nat /\ Nil = MaxKey + 1 /\ Head_ = 0 /\ Keys = 1..MaxKey
      /\ 0 \in Levels /\ kMaxHeight \in Nat \ {0}
  BY DEF SkipListAssumption, Nil, Head_, Keys, Levels
<1>2. /\ log = <<>> /\ max_height_ = 1 /\ writer = None /\ inserted = {}
      /\ reader = [node |-> Nil, op |-> "idle", target |-> 0, x |-> Head_, level |-> 0,
                   seen |-> 0, from |-> {}]
  BY DEF Init
<1>3. Len(log) = 0 /\ 1..Len(log) = {} /\ log \in Seq(StoreType)
  BY <1>2
<1>4. reader \in [node : 1..Nil, op : Ops, target : 0..Nil, x : 0..MaxKey, level : Levels,
                  seen : Nat, from : SUBSET Keys]
  BY <1>1, <1>2 DEF Ops
<1>5. Types
  <2>1. reader.seen = 0
    BY <1>2
  <2>2. max_height_ \in 1..kMaxHeight
    BY <1>1, <1>2
  <2> QED BY <1>2, <1>3, <1>4, <2>1, <2>2 DEF Types
<1>6. ListInv
  <2>1. Sorted /\ Initialised /\ Tight /\ HeadTight /\ Published
    BY <1>3 DEF Sorted, Initialised, Tight, HeadTight, Published
  <2>2. KeysKnown /\ WriterInv
    BY <1>2, <1>3 DEF KeysKnown, WriterInv
  <2> QED BY <2>1, <2>2 DEF ListInv
<1>7. ReaderInv /\ GreaterOrEqualIsRight /\ LessThanIsRight
  <2>1. Nil \notin Keys
    BY <1>1
  <2> QED BY <1>2, <2>1 DEF ReaderInv, GreaterOrEqualIsRight, LessThanIsRight
<1> QED BY <1>5, <1>6, <1>7 DEF MemInv

(* The invariant of the skip list and of a reader beside the writer is
   inductive. *)
THEOREM MemInvHolds ==
  ASSUME SkipListAssumption
  PROVE  Spec => []MemInv
<1>1. Init => MemInv
  BY InitMem
<1>2. MemInv /\ [Next]_vars => MemInv'
  <2> SUFFICES ASSUME MemInv, [Next]_vars PROVE MemInv'
    OBVIOUS
  <2>1. Types /\ ListInv /\ ReaderInv /\ GreaterOrEqualIsRight /\ LessThanIsRight
    BY DEF MemInv
  <2>2. /\ MaxKey \in Nat /\ Nil = MaxKey + 1 /\ Head_ = 0 /\ Keys = 1..MaxKey
        /\ kMaxHeight \in Nat \ {0} /\ Levels = 0..kMaxHeight - 1 /\ max_height_ \in 1..kMaxHeight
    BY <2>1 DEF SkipListAssumption, Nil, Head_, Keys, Levels, Types
  <2>3. ASSUME NEW key \in Keys, NEW height \in 1..kMaxHeight, BeginInsert(key, height)
        PROVE  MemInv'
    <3>1. reader' = reader /\ log' = log
      BY <2>3 DEF BeginInsert
    <3> QED BY <2>1, <2>3, <3>1, BeginInsertKeeps, WriterLeavesReader DEF MemInv
  <2>4. CASE SetOwnLink \/ Publish
    <3>1. Types' /\ ListInv'
      BY <2>1, <2>4, SetOwnLinkKeeps, PublishKeeps
    <3>2. reader' = reader
      BY <2>4 DEF SetOwnLink, Publish
    <3>3. \E s \in StoreType : log' = Append(log, s)
      <4>1. PICK s : log' = Append(log, s)
        BY <2>4 DEF SetOwnLink, Publish, Store
      <4>2. /\ log \in Seq(StoreType) /\ log' \in Seq(StoreType) /\ Len(log') = Len(log) + 1
            /\ log'[Len(log) + 1] = s /\ Len(log) \in Nat
        BY <2>1, <3>1, <4>1 DEF Types
      <4>3. Len(log) + 1 \in 1..Len(log')
        BY <4>2
      <4>4. s \in StoreType
        BY <4>2, <4>3
      <4> QED BY <4>1, <4>4
    <3> QED BY <2>1, <3>1, <3>2, <3>3, WriterLeavesReader DEF MemInv
  <2>5. \A h \in Heights : h - 1 \in Levels
    BY <2>2 DEF Heights
  <2>6. ASSUME NEW target \in Keys, NEW mutex \in BOOLEAN, Seek(target, mutex) PROVE MemInv'
    <3>1. PICK h \in Heights : Begin("searching_ge", target, Head_, h - 1, mutex)
      BY <2>6 DEF Seek
    <3>2. Starts("searching_ge", target, Head_, h - 1)
      BY <2>2, <2>5 DEF Starts
    <3> QED BY <3>1, <3>2, BeginKeeps
  <2>7. ASSUME NEW mutex \in BOOLEAN, SeekToFirst(mutex) PROVE MemInv'
    <3>1. Starts("searching_ge", 1, Head_, 0)
      BY <2>2 DEF Starts
    <3> QED BY <2>7, <3>1, BeginKeeps DEF SeekToFirst
  <2>8. ASSUME NEW mutex \in BOOLEAN, SeekToLast(mutex) PROVE MemInv'
    <3>1. PICK h \in Heights : Begin("searching_lt", Nil, Head_, h - 1, mutex)
      BY <2>8 DEF SeekToLast
    <3>2. Starts("searching_lt", Nil, Head_, h - 1)
      BY <2>2, <2>5 DEF Starts
    <3> QED BY <3>1, <3>2, BeginKeeps
  <2>9. CASE NextEntry
    <3>1. /\ reader.node \in Keys
          /\ Begin("stepping", reader.node + 1, reader.node, 0, FALSE)
      BY <2>9 DEF NextEntry
    <3>2. Starts("stepping", reader.node + 1, reader.node, 0)
      BY <3>1 DEF Starts
    <3>3. PICK target, x : target = reader.node + 1 /\ x = reader.node
      OBVIOUS
    <3>4. Starts("stepping", target, x, 0) /\ Begin("stepping", target, x, 0, FALSE)
      BY <3>1, <3>2, <3>3
    <3> QED BY <3>4, BeginKeeps
  <2>10. CASE PrevEntry
    <3>1. PICK h, target :
            /\ h \in Heights
            /\ target = reader.node /\ target \in Keys
            /\ Begin("searching_lt", target, Head_, h - 1, FALSE)
      BY <2>10 DEF PrevEntry
    <3>2. Starts("searching_lt", target, Head_, h - 1)
      BY <2>2, <2>5, <3>1 DEF Starts
    <3> QED BY <3>1, <3>2, BeginKeeps
  <2>11. CASE UNCHANGED vars
    <3>1. UNCHANGED <<log, max_height_, writer, inserted, reader>>
      BY <2>11 DEF vars
    <3>2. Types' /\ ListInv'
      BY <2>1, <3>1, ReaderLeavesList DEF Types
    <3> QED BY <2>1, <3>1, <3>2, WriterLeavesReader DEF MemInv
  <2> QED BY <2>3, <2>4, <2>6, <2>7, <2>8, <2>9, <2>10, <2>11, SearchStepKeeps, StepNextKeeps
          DEF Next
<1> QED BY <1>1, <1>2, PTL DEF Spec

(* No reader follows an uninitialised link: a node is published on a level
   after its links there and below are set, and a load that sees the node
   sees them too. *)
THEOREM NoGarbageIsRead ==
  ASSUME SkipListAssumption
  PROVE  Spec => []NoGarbage
<1>1. MemInv => NoGarbage
  <2>1. Types => reader.op \in Ops
    BY DEF Types
  <2> QED BY <2>1 DEF MemInv, Ops, NoGarbage
<1> QED BY <1>1, MemInvHolds, PTL

(* Between inserts level 0 has all keys that were inserted, in order, and what
   is on a level is on the one below. *)
THEOREM ListIsWellLinked ==
  ASSUME SkipListAssumption
  PROVE  Spec => []WellLinked
<1>1. MemInv => WellLinked
  <2> SUFFICES ASSUME MemInv, writer = None
               PROVE  /\ OnLevel(0) = inserted
                      /\ \A l \in Levels \ {0} : OnLevel(l) \subseteq OnLevel(l - 1)
    BY DEF WellLinked
  <2>1. Types /\ ListInv /\ Initialised /\ KeysKnown /\ inserted \subseteq Keys
    BY DEF MemInv, ListInv, Types
  <2>2. \A l \in Levels : OnLevel(l) = {k \in Keys : Know(k, l, Len(log))}
    BY <2>1, LevelIs
  <2>3. 0 \in Levels /\ \A l \in Levels \ {0} : l > 0 /\ l - 1 \in Levels
    BY DEF Levels, SkipListAssumption
  <2>4. {k \in Keys : Know(k, 0, Len(log))} = inserted
    <3>1. ASSUME NEW k \in Keys, Know(k, 0, Len(log)) PROVE k \in inserted
      <4>1. PICK j \in 1..Len(log) : log[j].value = k /\ log[j].level = 0
        BY <3>1 DEF Know
      <4> QED BY <2>1, <4>1 DEF KeysKnown
    <3>2. ASSUME NEW k \in inserted PROVE k \in Keys /\ Know(k, 0, Len(log))
      BY <2>1 DEF KeysKnown
    <3> QED BY <3>1, <3>2
  <2>5. ASSUME NEW l \in Levels \ {0}, NEW k \in Keys, Know(k, l, Len(log))
        PROVE  Know(k, l - 1, Len(log))
    <3>1. PICK j \in 1..Len(log) : log[j].value = k /\ log[j].level = l
      BY <2>5 DEF Know
    <3> QED BY <2>1, <2>3, <3>1 DEF Initialised
  <2> QED BY <2>2, <2>3, <2>4, <2>5
<1> QED BY <1>1, MemInvHolds, PTL

(* Searches forwards and backwards find the right key, and pass over none
   that the reader knew of when it began. *)
THEOREM SearchesAreRight ==
  ASSUME SkipListAssumption
  PROVE  Spec => [](GreaterOrEqualIsRight /\ LessThanIsRight)
<1>1. MemInv => GreaterOrEqualIsRight /\ LessThanIsRight
  BY DEF MemInv
<1> QED BY <1>1, MemInvHolds, PTL

(* Readers are safe beside the writer (ReadersAreSafe), for any keys, heights
   and operations. *)
THEOREM ReadersStaySafe ==
  ASSUME SkipListAssumption
  PROVE  Spec => []ReadersAreSafe
<1>1. NoGarbage /\ (GreaterOrEqualIsRight /\ LessThanIsRight) /\ WellLinked => ReadersAreSafe
  BY DEF ReadersAreSafe
<1> QED BY <1>1, NoGarbageIsRead, SearchesAreRight, ListIsWellLinked, PTL
===============================================================================
