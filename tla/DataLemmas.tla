------------------------------ MODULE DataLemmas ------------------------------
(***************************************************************************)
(* Induction and recursion over the naturals, stated for a set instead of  *)
(* a predicate, so that the provers can use them: every nonempty set of     *)
(* naturals has a least element, a set that has 0 and is closed under       *)
(* successors has them all, and a function that is defined by recursion on  *)
(* an interval exists.  The models use such functions where the code runs   *)
(* along a list.  Then a few facts about sequences.                         *)
(***************************************************************************)
EXTENDS Integers, Sequences, WellFoundedInduction, TLAPS

(* The naturals are well founded. *)
LEMMA LeastNatural ==
  ASSUME NEW T, T \subseteq Nat, T # {}
  PROVE  \E x \in T : \A y \in T : x <= y
<1> DEFINE Less == {p \in Nat \X Nat : p[1] < p[2]}
<1>1. IsWellFoundedOn(Less, Nat)
  BY NatLessThanWellFounded, Zenon DEF OpToRel
<1>2. PICK x \in T : \A y \in T : ~ (<<y, x>> \in Less)
  <2> HIDE DEF Less
  <2> QED BY <1>1, WFMin
<1>3. ASSUME NEW y \in T PROVE x <= y
  <2>1. x \in Nat /\ y \in Nat /\ <<y, x>> \notin Less
    BY <1>2
  <2>2. ~(y < x)
    BY <2>1
  <2> QED BY <2>1, <2>2
<1> QED BY <1>3

(* A set of naturals with an upper bound has a greatest element. *)
LEMMA GreatestNatural ==
  ASSUME NEW N \in Nat, NEW T, T \subseteq 0..N, T # {}
  PROVE  \E x \in T : \A y \in T : y <= x
<1> DEFINE D == {N - x : x \in T}
<1>1. D \subseteq Nat /\ D # {}
  <2>1. ASSUME NEW x \in T PROVE N - x \in Nat
    <3>1. x \in 0..N
      OBVIOUS
    <3> QED BY <3>1
  <2>2. D \subseteq Nat
    BY <2>1
  <2>3. D # {}
    <3>1. PICK x \in T : TRUE
      OBVIOUS
    <3>2. N - x \in D
      OBVIOUS
    <3> QED BY <3>2
  <2> QED BY <2>2, <2>3
<1>2. PICK d \in D : \A e \in D : d <= e
  BY <1>1, LeastNatural
<1>3. PICK x \in T : d = N - x
  BY <1>2
<1>4. ASSUME NEW y \in T PROVE y <= x
  <2>1. d <= N - y /\ x \in 0..N /\ y \in 0..N
    BY <1>2
  <2> QED BY <1>3, <2>1
<1> QED BY <1>4

(* Induction. *)
LEMMA InductionOnSets ==
  ASSUME NEW T, 0 \in T, \A n \in Nat : n \in T => n + 1 \in T
  PROVE  Nat \subseteq T
<1> SUFFICES ASSUME Nat \ T # {} PROVE FALSE
  OBVIOUS
<1>1. PICK x \in Nat \ T : \A y \in Nat \ T : x <= y
  BY LeastNatural
<1>2. x # 0 /\ x - 1 \in Nat /\ x - 1 \in T
  BY <1>1
<1> QED BY <1>1, <1>2

(* The first n steps of the recursion that starts with c and goes on with h. *)
Approximates(g, n, c, h) == g[0] = c /\ \A i \in 1..n : g[i] = h[<<g[i - 1], i>>]

(* There is a function for any number of steps. *)
LEMMA ApproximationsExist ==
  ASSUME NEW S, NEW c \in S, NEW h \in [S \X Nat -> S]
  PROVE  \A n \in Nat : \E g \in [0..n -> S] : Approximates(g, n, c, h)
<1> DEFINE T == {n \in Nat : \E g \in [0..n -> S] : Approximates(g, n, c, h)}
<1>1. 0 \in T
  <2>1. [i \in 0..0 |-> c] \in [0..0 -> S] /\ Approximates([i \in 0..0 |-> c], 0, c, h)
    BY DEF Approximates
  <2> QED BY <2>1
<1>2. ASSUME NEW n \in Nat, n \in T PROVE n + 1 \in T
  <2>1. PICK g \in [0..n -> S] : Approximates(g, n, c, h)
    BY <1>2
  <2> DEFINE e == [i \in 0..(n + 1) |-> IF i = n + 1 THEN h[<<g[n], n + 1>>] ELSE g[i]]
  <2>2. g[n] \in S /\ <<g[n], n + 1>> \in S \X Nat
    OBVIOUS
  <2>3. h[<<g[n], n + 1>>] \in S
    BY <2>2
  <2>4. e \in [0..(n + 1) -> S]
    BY <2>3
  <2>5. Approximates(e, n + 1, c, h)
    <3>1. e[0] = c
      BY <2>1 DEF Approximates
    <3>2. ASSUME NEW i \in 1..(n + 1) PROVE e[i] = h[<<e[i - 1], i>>]
      <4>1. CASE i = n + 1
        <5>1. e[i] = h[<<g[n], n + 1>>] /\ e[i - 1] = g[n]
          BY <4>1
        <5> QED BY <5>1, <4>1
      <4>2. CASE i # n + 1
        <5>1. i \in 1..n /\ i - 1 \in 0..n
          BY <4>2
        <5>2. e[i] = g[i] /\ e[i - 1] = g[i - 1]
          BY <5>1, <4>2
        <5>3. g[i] = h[<<g[i - 1], i>>]
          BY <5>1, <2>1 DEF Approximates
        <5> QED BY <5>2, <5>3
      <4> QED BY <4>1, <4>2
    <3> QED BY <3>1, <3>2 DEF Approximates
  <2> QED BY <2>4, <2>5
<1>3. Nat \subseteq T
  <2> HIDE DEF T
  <2> QED BY <1>1, <1>2, InductionOnSets
<1> QED BY <1>3

(* A function that is defined by recursion on 0..N exists. *)
LEMMA RecursionExists ==
  ASSUME NEW S, NEW c \in S, NEW N \in Nat, NEW h \in [S \X (1..N) -> S]
  PROVE  \E f \in [0..N -> S] : Approximates(f, N, c, h)
<1> DEFINE k == [x \in S \X Nat |-> IF x[2] \in 1..N THEN h[x] ELSE c]
<1>1. k \in [S \X Nat -> S]
  <2>1. ASSUME NEW x \in S \X Nat, x[2] \in 1..N PROVE h[x] \in S
    <3>1. x \in S \X (1..N)
      BY <2>1
    <3> QED BY <3>1
  <2> QED BY <2>1
<1>2. PICK f \in [0..N -> S] : Approximates(f, N, c, k)
  <2> HIDE DEF k
  <2> QED BY <1>1, ApproximationsExist
<1>3. ASSUME NEW i \in 1..N PROVE f[i] = h[<<f[i - 1], i>>]
  <2>1. f[i - 1] \in S
    OBVIOUS
  <2>2. f[i] = k[<<f[i - 1], i>>]
    BY <1>2 DEF Approximates
  <2>3. <<f[i - 1], i>> \in S \X Nat /\ <<f[i - 1], i>>[2] = i
    BY <2>1
  <2>4. k[<<f[i - 1], i>>] = h[<<f[i - 1], i>>]
    BY <2>3
  <2> QED BY <2>2, <2>4
<1> QED BY <1>2, <1>3 DEF Approximates

-------------------------------------------------------------------------------
(* Sequences. *)

(* The empty sequence is one of any elements. *)
LEMMA EmptyIsSeq ==
  ASSUME NEW S
  PROVE  <<>> \in Seq(S)
  OBVIOUS

(* Append keeps the elements' set. *)
LEMMA AppendIsSeq ==
  ASSUME NEW S, NEW s \in Seq(S), NEW x \in S
  PROVE  Append(s, x) \in Seq(S)
  OBVIOUS

(* A function on 1..n is a sequence. *)
LEMMA FunctionIsSeq ==
  ASSUME NEW S, NEW n \in Nat, NEW f \in [1..n -> S]
  PROVE  f \in Seq(S)
  OBVIOUS

(* The length and the elements of a concatenation. *)
LEMMA ConcatIs ==
  ASSUME NEW S, NEW s \in Seq(S), NEW t \in Seq(S)
  PROVE  /\ s \o t \in Seq(S) /\ Len(s \o t) = Len(s) + Len(t)
         /\ \A i \in 1..Len(s) : (s \o t)[i] = s[i]
         /\ \A i \in 1..Len(t) : (s \o t)[Len(s) + i] = t[i]
<1>1. s \o t \in Seq(S) /\ Len(s \o t) = Len(s) + Len(t)
  OBVIOUS
<1>2. \A i \in 1..Len(s) : (s \o t)[i] = s[i]
  OBVIOUS
<1>3. ASSUME NEW i \in 1..Len(t) PROVE (s \o t)[Len(s) + i] = t[i]
  <2>1. Len(s) + i \in 1..(Len(s) + Len(t)) /\ ~(Len(s) + i <= Len(s)) /\ (Len(s) + i) - Len(s) = i
    OBVIOUS
  <2> QED BY <2>1
<1> QED BY <1>1, <1>2, <1>3

(* The first elements of a sequence, and of those. *)
LEMMA FirstElements ==
  ASSUME NEW S, NEW s \in Seq(S), NEW n \in 0..Len(s)
  PROVE  /\ SubSeq(s, 1, n) \in Seq(S) /\ Len(SubSeq(s, 1, n)) = n
         /\ \A i \in 1..n : SubSeq(s, 1, n)[i] = s[i]
         /\ \A k \in 0..n : SubSeq(SubSeq(s, 1, n), 1, k) = SubSeq(s, 1, k)
<1>1. SubSeq(s, 1, n) \in Seq(S) /\ Len(SubSeq(s, 1, n)) = n
  OBVIOUS
<1>2. \A i \in 1..n : SubSeq(s, 1, n)[i] = s[i]
  OBVIOUS
<1>3. ASSUME NEW k \in 0..n PROVE SubSeq(SubSeq(s, 1, n), 1, k) = SubSeq(s, 1, k)
  <2> DEFINE a == SubSeq(SubSeq(s, 1, n), 1, k)
             b == SubSeq(s, 1, k)
  <2>1. a \in Seq(S) /\ Len(a) = k /\ \A i \in 1..k : a[i] = s[i]
    <3> DEFINE w == SubSeq(s, 1, n)
    <3>1. w \in Seq(S) /\ Len(w) = n /\ \A i \in 1..n : w[i] = s[i]
      BY <1>1, <1>2
    <3> HIDE DEF w
    <3>2. /\ SubSeq(w, 1, k) \in Seq(S) /\ Len(SubSeq(w, 1, k)) = k
          /\ \A i \in 1..k : SubSeq(w, 1, k)[i] = w[i]
      BY <3>1
    <3>3. \A i \in 1..k : i \in 1..n
      OBVIOUS
    <3> QED BY <3>1, <3>2, <3>3 DEF w
  <2>2. b \in Seq(S) /\ Len(b) = k /\ \A i \in 1..k : b[i] = s[i]
    OBVIOUS
  <2> HIDE DEF a, b
  <2>3. a = b
    BY <2>1, <2>2
  <2> QED BY <2>3 DEF a, b
<1> QED BY <1>1, <1>2, <1>3

(* All elements of a sequence are the sequence. *)
LEMMA WholePrefix ==
  ASSUME NEW S, NEW s \in Seq(S)
  PROVE  SubSeq(s, 1, Len(s)) = s
  OBVIOUS

(* What is appended does not change the elements before it. *)
LEMMA PrefixOfAppended ==
  ASSUME NEW S, NEW s \in Seq(S), NEW e \in S, NEW k \in 0..Len(s)
  PROVE  SubSeq(s \o <<e>>, 1, k) = SubSeq(s, 1, k)
<1> DEFINE a == SubSeq(s \o <<e>>, 1, k)
           b == SubSeq(s, 1, k)
<1>1. s \o <<e>> \in Seq(S) /\ Len(s \o <<e>>) = Len(s) + 1
  OBVIOUS
<1>2. a \in Seq(S) /\ Len(a) = k /\ \A i \in 1..k : a[i] = s[i]
  BY <1>1
<1>3. b \in Seq(S) /\ Len(b) = k /\ \A i \in 1..k : b[i] = s[i]
  OBVIOUS
<1> HIDE DEF a, b
<1>4. a = b
  BY <1>2, <1>3
<1> QED BY <1>4 DEF a, b

(* A sequence of two. *)
LEMMA PairIs ==
  ASSUME NEW S, NEW d \in S, NEW e \in S
  PROVE  <<d>> \in Seq(S) /\ <<d>> \o <<e>> = <<d, e>> /\ <<d, e>> \in Seq(S)
<1>1. <<d>> \in Seq(S) /\ <<d, e>> \in Seq(S)
  OBVIOUS
<1>2. <<d>> \o <<e>> = <<d, e>>
  <2> DEFINE a == <<d>> \o <<e>>
             b == <<d, e>>
  <2>1. a \in Seq(S) /\ Len(a) = 2 /\ a[1] = d /\ a[2] = e
    OBVIOUS
  <2>2. b \in Seq(S) /\ Len(b) = 2 /\ b[1] = d /\ b[2] = e
    OBVIOUS
  <2> HIDE DEF a, b
  <2>3. a = b
    BY <2>1, <2>2
  <2> QED BY <2>3 DEF a, b
<1> QED BY <1>1, <1>2

(* Products grow with a factor. *)
LEMMA ProductsGrow ==
  ASSUME NEW x \in Nat, NEW y \in Nat, NEW w \in Nat, x <= y
  PROVE  x * w <= y * w
<1>1. y - x \in Nat /\ (y - x) * w \in Nat
  OBVIOUS
<1>2. y * w = x * w + (y - x) * w
  OBVIOUS
<1> QED BY <1>1, <1>2

(* Quotients grow with what is divided. *)
LEMMA QuotientsGrow ==
  ASSUME NEW a \in Nat, NEW b \in Nat, a <= b, NEW w \in Nat \ {0}
  PROVE  a \div w \in Nat /\ b \div w \in Nat /\ a \div w <= b \div w
<1> DEFINE p == a \div w
           q == b \div w
<1>1. p \in Nat /\ p * w <= a
  OBVIOUS
<1>2. q \in Nat /\ b < (q + 1) * w
  OBVIOUS
<1> HIDE DEF p, q
<1>3. ASSUME p > q PROVE FALSE
  <2>1. q + 1 \in Nat /\ q + 1 <= p
    BY <1>1, <1>2, <1>3
  <2>2. (q + 1) * w <= p * w
    BY <1>1, <2>1, ProductsGrow
  <2>3. (q + 1) * w \in Nat /\ p * w \in Nat
    BY <1>1, <2>1
  <2> QED BY <1>1, <1>2, <2>2, <2>3
<1>4. p <= q
  BY <1>1, <1>2, <1>3
<1> QED BY <1>1, <1>2, <1>4 DEF p, q
===============================================================================
