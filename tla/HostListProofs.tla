--------------------------- MODULE HostListProofs ---------------------------
(***************************************************************************)
(* The two list calls: their types, and that on a fleet that stands still  *)
(* a list without an error is exact and any list is in order.              *)
(*                                                                         *)
(* Foreman's pages are slices of one list, cut at the ends of the pages;   *)
(* the lemmas about slices say what joining them gives when some are       *)
(* missing.  The invariant then follows a call from its first response to  *)
(* its return.                                                             *)
(***************************************************************************)
EXTENDS HostList, FiniteSetTheorems, SequenceTheorems,
        WellFoundedInduction, TLAPS

(* A set of numbers has a least one: the induction of this module is a search
   for the least counterexample. *)
LEMMA LeastNumber ==
    ASSUME NEW T \in SUBSET Nat, T # {}
    PROVE  \E n \in T : \A m \in T : n <= m
<1>1. PICK n \in T : \A m \in T : ~(<<m, n>> \in OpToRel(<, Nat))
  BY NatLessThanWellFounded, WFMin
<1>2. \A m \in T : ~(m < n)
  BY <1>1 DEF OpToRel
<1> QED BY <1>2

-----------------------------------------------------------------------------
(* Foreman's order. *)

(* A finite set of numbers can be listed in order. *)
LEMMA CanBeListed ==
    ASSUME NEW S \in SUBSET Nat, IsFiniteSet(S)
    PROVE  \E list \in [1..Cardinality(S) -> S] : Ordered(list)
<1> DEFINE Bad(n) == \E T \in SUBSET Nat :
                        /\ IsFiniteSet(T) /\ Cardinality(T) = n
                        /\ ~ \E list \in [1..n -> T] : Ordered(list)
           B == {n \in Nat : Bad(n)}
<1> SUFFICES ASSUME B # {} PROVE FALSE
  <2>1. Cardinality(S) \in Nat
    BY FS_CardinalityType
  <2> QED BY <2>1
<1>1. PICK n \in B : \A m \in B : n <= m
  <2>1. B \in SUBSET Nat
    OBVIOUS
  <2> HIDE DEF B
  <2> QED BY <2>1, LeastNumber
<1>2. PICK T \in SUBSET Nat : /\ IsFiniteSet(T) /\ Cardinality(T) = n
                              /\ ~ \E list \in [1..n -> T] : Ordered(list)
  BY <1>1
<1>3. n \in Nat
  BY <1>1
<1>4. T # {}
  <2> SUFFICES ASSUME T = {} PROVE FALSE
    OBVIOUS
  <2>1. n = 0
    BY <1>2, FS_EmptySet
  <2>2. [x \in 1..0 |-> 0] \in [1..n -> T]
    BY <2>1
  <2>3. Ordered([x \in 1..0 |-> 0])
    BY DEF Ordered
  <2> QED BY <1>2, <2>2, <2>3
<1>5. PICK m \in T : \A x \in T : m <= x
  BY <1>4, LeastNumber
<1>6. /\ IsFiniteSet(T \ {m}) /\ Cardinality(T \ {m}) = n - 1
  BY <1>2, FS_RemoveElement
<1>7. n - 1 \in Nat
  BY <1>6, FS_CardinalityType
<1>8. ~Bad(n - 1)
  BY <1>1, <1>3, <1>7
<1>9. PICK rest \in [1..(n - 1) -> T \ {m}] : Ordered(rest)
  BY <1>6, <1>8
<1> DEFINE all == [i \in 1..n |-> IF i = 1 THEN m ELSE rest[i - 1]]
<1>10. all \in [1..n -> T]
  BY <1>3, <1>9
<1>11. Ordered(all)
  <2> SUFFICES ASSUME NEW i \in 1..n, NEW j \in 1..n, i < j
               PROVE  all[i] < all[j]
    BY DEF Ordered
  <2>1. j - 1 \in 1..(n - 1) /\ rest[j - 1] \in T /\ rest[j - 1] # m
    BY <1>3, <1>9
  <2>2. all[j] = rest[j - 1]
    BY <1>3
  <2>3. CASE i = 1
    <3>1. all[i] = m /\ m \in Nat /\ rest[j - 1] \in Nat
      BY <1>2, <1>3, <1>5, <2>1, <2>3
    <3> HIDE DEF all
    <3> QED BY <1>5, <2>1, <2>2, <3>1
  <2>4. CASE i # 1
    <3>1. i - 1 \in 1..(n - 1) /\ i - 1 < j - 1 /\ all[i] = rest[i - 1]
      BY <1>3, <2>4
    <3> QED BY <1>9, <2>1, <2>2, <3>1 DEF Ordered
  <2> QED BY <2>3, <2>4
<1> QED BY <1>2, <1>10, <1>11

(* A function that is injective on a finite set keeps its size. *)
LEMMA ImageSize ==
    ASSUME NEW S, NEW f, S \subseteq DOMAIN f, IsFiniteSet(S),
           \A x, y \in S : f[x] = f[y] => x = y
    PROVE  Cardinality({f[x] : x \in S}) = Cardinality(S)
<1> DEFINE T == {f[x] : x \in S}
           g == [x \in S |-> f[x]]
<1>1. g \in Surjection(S, T)
  BY DEF Surjection
<1>2. g \in Injection(S, T)
  BY DEF Injection, IsInjective
<1> HIDE DEF T, g
<1> QED BY <1>1, <1>2, FS_Surjection DEF T

(* What Foreman's order is: each host of the set once. *)
LEMMA Listing ==
    ASSUME NEW S \in SUBSET Hosts
    PROVE  /\ IsFiniteSet(S) /\ Cardinality(S) \in Nat
           /\ ListOf[S] \in [1..Cardinality(S) -> S]
           /\ ListOf[S] \in Seq(Hosts) /\ Len(ListOf[S]) = Cardinality(S)
           /\ DOMAIN ListOf[S] = 1..Cardinality(S)
           /\ Ordered(ListOf[S])
           /\ ToSet(ListOf[S]) = S
<1>1. IsFiniteSet(S) /\ Cardinality(S) \in Nat /\ S \in SUBSET Nat
  BY HostListAssumption, FS_Subset, FS_CardinalityType
<1>2. ListOf[S] = CHOOSE list \in [1..Cardinality(S) -> S] : Ordered(list)
  BY DEF ListOf
<1>3. ListOf[S] \in [1..Cardinality(S) -> S] /\ Ordered(ListOf[S])
  BY <1>1, <1>2, CanBeListed
<1> DEFINE l == ListOf[S]
           n == Cardinality(S)
<1>4. l \in [1..n -> S] /\ Ordered(l) /\ n \in Nat
  BY <1>1, <1>3
<1> HIDE DEF l, n
<1>5. l \in Seq(Hosts) /\ Len(l) = n /\ DOMAIN l = 1..n
  BY <1>4
<1>6. \A x, y \in 1..n : l[x] = l[y] => x = y
  <2> SUFFICES ASSUME NEW x \in 1..n, NEW y \in 1..n, l[x] = l[y], x # y
               PROVE  FALSE
    OBVIOUS
  <2>1. l[x] \in Nat /\ l[y] \in Nat
    BY <1>1, <1>4
  <2>2. (x < y => l[x] < l[y]) /\ (y < x => l[y] < l[x])
    BY <1>4 DEF Ordered
  <2> QED BY <2>1, <2>2
<1>7. IsFiniteSet(1..n) /\ Cardinality(1..n) = n
  <2>1. IsFiniteSet(1..n) /\ Cardinality(1..n) = IF 1 > n THEN 0 ELSE n - 1 + 1
    BY <1>4, FS_Interval
  <2> QED BY <1>4, <2>1
<1>8. Cardinality({l[x] : x \in 1..n}) = n
  BY <1>5, <1>6, <1>7, ImageSize
<1>9. {l[x] : x \in 1..n} \in SUBSET S
  BY <1>4
<1>10. {l[x] : x \in 1..n} = S
  BY <1>1, <1>8, <1>9, FS_Subset DEF n
<1>11. ToSet(l) = S
  BY <1>5, <1>10 DEF ToSet
<1> QED BY <1>1, <1>4, <1>5, <1>11 DEF l, n

-----------------------------------------------------------------------------
(* Joining the pages. *)

\* f[i] is what the first i of n sequences give.
Partials(f, r, n) ==
    /\ f[1] = r[1]
    /\ \A i \in 2..n : f[i] = f[i - 1] \o r[i]
    /\ FlattenSeq(r) = f[n]

(* How FlattenSeq builds its result. *)
LEMMA Flattening ==
    ASSUME NEW S, NEW n \in Nat, n > 0, NEW r \in [1..n -> Seq(S)]
    PROVE  \E f \in [1..n -> Seq(S)] : Partials(f, r, n)
<1> DEFINE Builds(f, m) == /\ f[1] = r[1]
                           /\ \A i \in 2..m : f[i] = f[i - 1] \o r[i]
           B == {m \in 1..n : ~ \E f \in [1..m -> Seq(S)] : Builds(f, m)}
<1> HIDE DEF Builds
<1>1. B = {}
  <2> SUFFICES ASSUME B # {} PROVE FALSE
    OBVIOUS
  <2>1. PICK m \in B : \A k \in B : m <= k
    <3>1. B \in SUBSET Nat
      OBVIOUS
    <3> HIDE DEF B
    <3> QED BY <3>1, LeastNumber
  <2>2. m \in 1..n /\ ~ \E f \in [1..m -> Seq(S)] : Builds(f, m)
    BY <2>1
  <2>3. m # 1
    <3> SUFFICES ASSUME m = 1 PROVE FALSE
      OBVIOUS
    <3>1. [i \in 1..1 |-> r[1]] \in [1..m -> Seq(S)]
      OBVIOUS
    <3>2. Builds([i \in 1..1 |-> r[1]], m)
      BY DEF Builds
    <3> QED BY <2>2, <3>1, <3>2
  <2>4. m - 1 \in 1..n /\ m - 1 \notin B
    <3>1. m \in Nat /\ m - 1 \in 1..n
      BY <2>2, <2>3
    <3>2. ~(m <= m - 1)
      BY <3>1
    <3> HIDE DEF B
    <3> QED BY <2>1, <3>1, <3>2
  <2>5. PICK f \in [1..(m - 1) -> Seq(S)] : Builds(f, m - 1)
    BY <2>4
  <2> DEFINE g == [i \in 1..m |-> IF i = m THEN f[m - 1] \o r[m] ELSE f[i]]
  <2>6. f[m - 1] \o r[m] \in Seq(S)
    <3>1. f[m - 1] \in Seq(S) /\ r[m] \in Seq(S)
      BY <2>2, <2>3, <2>5
    <3> QED BY <3>1
  <2>7. g \in [1..m -> Seq(S)]
    BY <2>2, <2>5, <2>6
  <2>8. g[1] = r[1]
    BY <2>2, <2>3, <2>5 DEF Builds
  <2>9. ASSUME NEW i \in 2..m PROVE g[i] = g[i - 1] \o r[i]
    <3>1. g[i - 1] = f[i - 1] /\ g[i] = IF i = m THEN f[m - 1] \o r[m] ELSE f[i]
      BY <2>2
    <3> HIDE DEF g
    <3>2. CASE i = m
      BY <3>1, <3>2
    <3>3. CASE i # m
      <4>1. i \in 2..(m - 1)
        BY <2>2, <3>3
      <4>2. f[i] = f[i - 1] \o r[i]
        BY <2>5, <4>1 DEF Builds
      <4> QED BY <3>1, <3>3, <4>2
    <3> QED BY <3>2, <3>3
  <2> HIDE DEF g
  <2>10. Builds(g, m)
    BY <2>8, <2>9 DEF Builds
  <2> QED BY <2>2, <2>7, <2>10
<1>2. PICK f \in [1..n -> Seq(S)] : Builds(f, n)
  <2>1. n \in 1..n
    OBVIOUS
  <2> QED BY <1>1, <2>1
<1> DEFINE flatten[i \in 1..n] ==
               IF i = 1 THEN r[i] ELSE flatten[i - 1] \o r[i]
<1>3. f = [i \in 1..n |-> IF i = 1 THEN r[i] ELSE f[i - 1] \o r[i]]
  <2>1. ASSUME NEW i \in 1..n
        PROVE  f[i] = IF i = 1 THEN r[i] ELSE f[i - 1] \o r[i]
    <3>1. CASE i = 1
      BY <1>2, <3>1 DEF Builds
    <3>2. CASE i # 1
      <4>1. i \in 2..n
        BY <3>2
      <4> QED BY <1>2, <3>2, <4>1 DEF Builds
    <3> QED BY <3>1, <3>2
  <2> QED BY <1>2, <2>1
<1>4. flatten = [i \in 1..n |-> IF i = 1 THEN r[i] ELSE flatten[i - 1] \o r[i]]
  BY <1>3
<1>5. Len(r) = n
  OBVIOUS
<1>6. FlattenSeq(r) = flatten[n]
  BY <1>5 DEF FlattenSeq
<1> HIDE DEF flatten
<1> DEFINE D == {i \in 1..n : flatten[i] # f[i]}
<1>7. D = {}
  <2> SUFFICES ASSUME D # {} PROVE FALSE
    OBVIOUS
  <2>1. PICK i \in D : \A k \in D : i <= k
    <3>1. D \in SUBSET Nat
      OBVIOUS
    <3> HIDE DEF D
    <3> QED BY <3>1, LeastNumber
  <2>2. i \in 1..n /\ flatten[i] # f[i]
    BY <2>1
  <2>3. flatten[i] = IF i = 1 THEN r[i] ELSE flatten[i - 1] \o r[i]
    BY <1>4, <2>2
  <2>4. f[i] = IF i = 1 THEN r[i] ELSE f[i - 1] \o r[i]
    BY <1>3, <2>2
  <2>5. i # 1 => flatten[i - 1] = f[i - 1]
    <3> SUFFICES ASSUME i # 1 PROVE flatten[i - 1] = f[i - 1]
      OBVIOUS
    <3>1. i - 1 \in 1..n /\ ~(i <= i - 1)
      BY <2>2
    <3> QED BY <2>1, <3>1
  <2> QED BY <2>2, <2>3, <2>4, <2>5
<1>8. FlattenSeq(r) = f[n]
  <2>1. n \in 1..n
    OBVIOUS
  <2>2. flatten[n] = f[n]
    BY <1>7, <2>1
  <2> QED BY <1>6, <2>2
<1>9. Partials(f, r, n)
  BY <1>2, <1>8 DEF Builds, Partials
<1> QED BY <1>2, <1>9

(* A slice of a list. *)
LEMMA SliceOf ==
    ASSUME NEW S, NEW L \in Seq(S), NEW a \in Nat, NEW b \in Nat,
           a <= b, b <= Len(L)
    PROVE  /\ SubSeq(L, a + 1, b) \in Seq(S)
           /\ Len(SubSeq(L, a + 1, b)) = b - a
           /\ DOMAIN SubSeq(L, a + 1, b) = 1..(b - a)
           /\ \A x \in 1..(b - a) : SubSeq(L, a + 1, b)[x] = L[a + x]
OBVIOUS

\* s is in order and taken from the places a + 1 to b of L.
Within(s, L, a, b) ==
    /\ Ordered(s)
    /\ \A x \in DOMAIN s : \E y \in (a + 1)..b : s[x] = L[y]

(* A slice is in order, and so is a part followed by a later slice. *)
LEMMA SliceWithin ==
    ASSUME NEW S \in SUBSET Nat, NEW L \in Seq(S), Ordered(L),
           NEW a \in Nat, NEW b \in Nat, a <= b, b <= Len(L)
    PROVE  Within(SubSeq(L, a + 1, b), L, a, b)
<1> DEFINE s == SubSeq(L, a + 1, b)
<1>1. /\ DOMAIN s = 1..(b - a) /\ \A x \in 1..(b - a) : s[x] = L[a + x]
      /\ DOMAIN L = 1..Len(L) /\ Len(L) \in Nat
  BY SliceOf
<1> HIDE DEF s
<1>2. \A x \in 1..(b - a) : a + x \in DOMAIN L /\ a + x \in (a + 1)..b
  BY <1>1
<1>3. ASSUME NEW i \in DOMAIN s, NEW j \in DOMAIN s, i < j
      PROVE  s[i] < s[j]
  <2>1. a + i < a + j
    BY <1>1, <1>3
  <2> QED BY <1>1, <1>2, <1>3, <2>1 DEF Ordered
<1>4. Ordered(s)
  BY <1>3 DEF Ordered
<1> QED BY <1>1, <1>2, <1>4 DEF Within, s

(* What lies within two slices that meet lies, joined, within both. *)
LEMMA WithinJoined ==
    ASSUME NEW S \in SUBSET Nat, NEW L \in Seq(S), Ordered(L),
           NEW a \in Nat, NEW b \in Nat, NEW c \in Nat,
           a <= b, b <= c, c <= Len(L),
           NEW s \in Seq(S), Within(s, L, a, b),
           NEW t \in Seq(S), Within(t, L, b, c)
    PROVE  Within(s \o t, L, a, c)
<1>1. /\ Len(s) \in Nat /\ DOMAIN s = 1..Len(s)
      /\ Len(t) \in Nat /\ DOMAIN t = 1..Len(t)
      /\ Len(L) \in Nat /\ DOMAIN L = 1..Len(L)
  OBVIOUS
<1> DEFINE u == s \o t
           m == Len(s)
           n == Len(t)
<1>2. /\ DOMAIN u = 1..(m + n)
      /\ \A x \in 1..m : u[x] = s[x]
      /\ \A x \in (m + 1)..(m + n) : x - m \in 1..n /\ u[x] = t[x - m]
  <2>1. /\ u \in Seq(S) /\ Len(u) = m + n
        /\ \A i \in 1..(m + n) : u[i] = IF i <= m THEN s[i] ELSE t[i - m]
    <3>1. s \in Seq(S) /\ t \in Seq(S)
      OBVIOUS
    <3> QED BY ONLY <3>1, ConcatProperties
  <2>2. DOMAIN u = 1..(m + n) /\ m \in Nat /\ n \in Nat
    BY <1>1, <2>1
  <2> HIDE DEF u, m, n
  <2> QED BY <2>1, <2>2
<1>3. /\ m \in Nat /\ n \in Nat /\ DOMAIN s = 1..m /\ DOMAIN t = 1..n
  BY <1>1
<1> HIDE DEF u, m, n
<1>4. \A x \in 1..m : \E y \in (a + 1)..b : u[x] = L[y]
  <2>1. \A x \in 1..m : \E y \in (a + 1)..b : s[x] = L[y]
    BY <1>3, Zenon DEF Within
  <2> QED BY <1>2, <2>1, Zenon
<1>5. \A x \in (m + 1)..(m + n) : \E y \in (b + 1)..c : u[x] = L[y]
  <2> SUFFICES ASSUME NEW x \in (m + 1)..(m + n)
               PROVE  \E y \in (b + 1)..c : u[x] = L[y]
    OBVIOUS
  <2>1. x - m \in DOMAIN t /\ u[x] = t[x - m]
    BY <1>2, <1>3
  <2>2. \E y \in (b + 1)..c : t[x - m] = L[y]
    BY <2>1 DEF Within
  <2> QED BY <2>1, <2>2
<1>6. ASSUME NEW x \in DOMAIN u PROVE \E y \in (a + 1)..c : u[x] = L[y]
  <2>1. (a + 1)..b \subseteq (a + 1)..c /\ (b + 1)..c \subseteq (a + 1)..c
    OBVIOUS
  <2>2. x \in 1..m \/ x \in (m + 1)..(m + n)
    BY <1>2, <1>3
  <2> QED BY <1>4, <1>5, <2>1, <2>2
<1>7. ASSUME NEW i \in DOMAIN u, NEW j \in DOMAIN u, i < j
      PROVE  u[i] < u[j]
  <2>1. i \in 1..(m + n) /\ j \in 1..(m + n)
    BY <1>2
  <2>2. CASE j \in 1..m
    <3>1. i \in 1..m
      BY <1>3, <1>7, <2>1, <2>2
    <3> QED BY <1>2, <1>3, <1>7, <2>2, <3>1 DEF Within, Ordered
  <2>3. CASE i \in (m + 1)..(m + n)
    <3>1. j \in (m + 1)..(m + n) /\ i - m < j - m
      BY <1>3, <1>7, <2>1, <2>3
    <3>2. /\ i - m \in DOMAIN t /\ u[i] = t[i - m]
          /\ j - m \in DOMAIN t /\ u[j] = t[j - m]
      BY <1>2, <1>3, <2>3, <3>1
    <3>3. t[i - m] < t[j - m]
      BY <3>1, <3>2 DEF Within, Ordered
    <3> QED BY <3>2, <3>3
  <2>4. CASE i \in 1..m /\ j \in (m + 1)..(m + n)
    <3>1. PICK y \in (a + 1)..b : u[i] = L[y]
      BY <1>4, <2>4
    <3>2. PICK z \in (b + 1)..c : u[j] = L[z]
      BY <1>5, <2>4
    <3>3. y \in DOMAIN L /\ z \in DOMAIN L /\ y < z
      BY <1>1, <3>1, <3>2
    <3> QED BY <3>1, <3>2, <3>3 DEF Ordered
  <2>5. j \in 1..m \/ i \in (m + 1)..(m + n)
            \/ (i \in 1..m /\ j \in (m + 1)..(m + n))
    BY <1>3, <1>7, <2>1
  <2> QED BY <2>2, <2>3, <2>4, <2>5
<1> QED BY <1>6, <1>7 DEF Within, Ordered, u

(* Two slices that meet are one. *)
LEMMA SlicesJoined ==
    ASSUME NEW S, NEW L \in Seq(S),
           NEW a \in Nat, NEW b \in Nat, NEW c \in Nat,
           a <= b, b <= c, c <= Len(L)
    PROVE  SubSeq(L, a + 1, b) \o SubSeq(L, b + 1, c) = SubSeq(L, a + 1, c)
<1>1. Len(L) \in Nat
  OBVIOUS
<1>2. /\ a + 1 \in 1..(Len(L) + 1)
      /\ b \in ((a + 1) - 1)..Len(L)
      /\ c \in b..Len(L)
  BY <1>1
<1> QED BY ONLY <1>2, L \in Seq(S), ConcatAdjacentSubSeq


\* r is n slices of L; the i-th one ends at e[i], where the next one begins.
Rising(e, n) == \A i \in 1..n : e[i - 1] <= e[i]
Slices(r, L, e, n) ==
    \A i \in 1..n : r[i] = SubSeq(L, e[i - 1] + 1, e[i])

\* Some of them are missing.
SomeSlices(r, L, e, n) ==
    \A i \in 1..n : r[i] = <<>> \/ r[i] = SubSeq(L, e[i - 1] + 1, e[i])

(* What joining slices gives. *)
LEMMA Joining ==
    ASSUME NEW S \in SUBSET Nat, NEW L \in Seq(S), Ordered(L), NEW n \in Nat,
           NEW e \in [0..n -> 0..Len(L)], Rising(e, n),
           NEW r \in [1..n -> Seq(S)], SomeSlices(r, L, e, n)
    PROVE  /\ FlattenSeq(r) \in Seq(S)
           /\ Ordered(FlattenSeq(r))
           /\ Slices(r, L, e, n) =>
                 FlattenSeq(r) = SubSeq(L, e[0] + 1, e[n])
<1> DEFINE Slice(i) == SubSeq(L, e[i - 1] + 1, e[i])
<1>r. \A i \in 1..n : e[i - 1] <= e[i] /\ (r[i] = <<>> \/ r[i] = Slice(i))
  BY DEF Rising, SomeSlices
<1>0. Len(L) \in Nat /\ \A i \in 0..n : e[i] \in Nat /\ e[i] <= Len(L)
  OBVIOUS
<1>1. CASE n = 0
  <2>1. r = <<>> /\ Len(r) = 0
    BY <1>1
  <2>2. FlattenSeq(r) = <<>>
    BY <2>1 DEF FlattenSeq
  <2>3. SubSeq(L, e[0] + 1, e[0]) = <<>>
    <3>1. 0 \in 0..n
      OBVIOUS
    <3>2. /\ SubSeq(L, e[0] + 1, e[0]) \in Seq(S)
          /\ Len(SubSeq(L, e[0] + 1, e[0])) = 0
      BY <1>0, <3>1, SliceOf
    <3> QED BY <3>2
  <2>4. Ordered(<<>>)
    BY DEF Ordered
  <2> QED BY <1>1, <2>2, <2>3, <2>4
<1>2. CASE n > 0
  <2>0. PICK f \in [1..n -> Seq(S)] : Partials(f, r, n)
    BY <1>2, Flattening
  <2>1. /\ f[1] = r[1]
        /\ \A i \in 2..n : f[i] = f[i - 1] \o r[i]
        /\ FlattenSeq(r) = f[n]
    BY <2>0 DEF Partials
  <2> DEFINE Good(k) ==
                /\ Within(f[k], L, e[0], e[k])
                /\ e[0] <= e[k]
                /\ (\A i \in 1..n : r[i] = Slice(i)) =>
                      f[k] = SubSeq(L, e[0] + 1, e[k])
             B == {k \in 1..n : ~Good(k)}
  <2>2. ASSUME NEW i \in 1..n
        PROVE  /\ i \in 0..n /\ i - 1 \in 0..n
               /\ e[i - 1] \in Nat /\ e[i] \in Nat
               /\ e[i - 1] <= e[i] /\ e[i] <= Len(L)
               /\ r[i] \in Seq(S) /\ Within(r[i], L, e[i - 1], e[i])
    <3>1. i \in 0..n /\ i - 1 \in 0..n
      OBVIOUS
    <3>2. /\ e[i - 1] \in Nat /\ e[i] \in Nat
          /\ e[i - 1] <= e[i] /\ e[i] <= Len(L)
      BY <1>0, <1>r, <3>1
    <3>3. Within(<<>>, L, e[i - 1], e[i])
      BY DEF Within, Ordered
    <3>4. Within(Slice(i), L, e[i - 1], e[i])
      BY <3>2, SliceWithin
    <3> QED BY <1>r, <3>1, <3>2, <3>3, <3>4
  <2> HIDE DEF Slice
  <2>3. Good(1)
    <3>1. 1 \in 1..n /\ 1 - 1 = 0
      BY <1>2
    <3>2. Within(r[1], L, e[0], e[1]) /\ e[0] <= e[1]
      BY <2>2, <3>1
    <3>3. Slice(1) = SubSeq(L, e[0] + 1, e[1])
      BY <3>1 DEF Slice
    <3> QED BY <2>1, <3>1, <3>2, <3>3
  <2>4. ASSUME NEW k \in 2..n, Good(k - 1) PROVE Good(k)
    <3>1. k \in 1..n /\ k - 1 \in 1..n /\ 0 \in 0..n
      OBVIOUS
    <3>2. /\ e[0] \in Nat /\ e[k - 1] \in Nat /\ e[k] \in Nat
          /\ e[0] <= e[k - 1] /\ e[k - 1] <= e[k] /\ e[k] <= Len(L)
          /\ f[k - 1] \in Seq(S) /\ r[k] \in Seq(S)
      BY <1>0, <2>1, <2>2, <2>4, <3>1
    <3>3. f[k] = f[k - 1] \o r[k]
      BY <2>1
    <3>4. Within(f[k], L, e[0], e[k])
      <4>1. /\ Within(f[k - 1], L, e[0], e[k - 1])
            /\ Within(r[k], L, e[k - 1], e[k])
        BY <2>2, <2>4, <3>1
      <4>2. S \in SUBSET Nat /\ L \in Seq(S) /\ Ordered(L)
        OBVIOUS
      <4> QED BY ONLY <3>2, <3>3, <4>1, <4>2, WithinJoined
    <3>5. ASSUME \A i \in 1..n : r[i] = Slice(i)
          PROVE  f[k] = SubSeq(L, e[0] + 1, e[k])
      <4>1. /\ f[k - 1] = SubSeq(L, e[0] + 1, e[k - 1])
            /\ r[k] = SubSeq(L, e[k - 1] + 1, e[k])
        BY <2>4, <3>1, <3>5 DEF Slice
      <4>2. SubSeq(L, e[0] + 1, e[k - 1]) \o SubSeq(L, e[k - 1] + 1, e[k])
              = SubSeq(L, e[0] + 1, e[k])
        BY <3>2, SlicesJoined
      <4> QED BY <3>3, <4>1, <4>2, Zenon
    <3>6. e[0] <= e[k]
      BY <3>2
    <3> QED BY <3>4, <3>5, <3>6, Zenon
  <2> HIDE DEF Good
  <2>5. B = {}
    <3> SUFFICES ASSUME B # {} PROVE FALSE
      OBVIOUS
    <3>1. PICK k \in B : \A j \in B : k <= j
      <4>1. B \in SUBSET Nat
        OBVIOUS
      <4> HIDE DEF B
      <4> QED BY <4>1, LeastNumber
    <3>2. k \in 1..n /\ ~Good(k) /\ k # 1
      BY <2>3, <3>1
    <3>3. k \in 2..n /\ k - 1 \in 1..n /\ ~(k <= k - 1)
      BY <3>2
    <3> QED BY <2>4, <3>1, <3>2, <3>3
  <2>6. Good(n)
    <3>1. n \in 1..n
      BY <1>2
    <3> QED BY <2>5, <3>1
  <2>7. f[n] \in Seq(S)
    BY <1>2, <2>1
  <2>8. /\ Ordered(f[n])
        /\ (\A i \in 1..n : r[i] = Slice(i)) =>
              f[n] = SubSeq(L, e[0] + 1, e[n])
    BY <2>6, Zenon DEF Good, Within
  <2> QED BY <2>1, <2>7, <2>8, Zenon DEF Slice, Slices
<1>3. n = 0 \/ n > 0
  OBVIOUS
<1> QED BY <1>1, <1>2, <1>3, Zenon

-----------------------------------------------------------------------------
(* The invariant of a call. *)

\* The page size Foreman applies, and where page p ends in its list.
Size == Lesser(AskedPerPage, conf.serverMax)
Ends(p) == Lesser(p * Size, Len(Listed))

PageRows(p) == SubSeq(Listed, Ends(p - 1) + 1, Ends(p))

Answers == {Failed} \cup Seq(Hosts)

\* Results arrive once, from the goroutines that have delivered.
FanInv ==
    /\ Len(worker) \in Nat
    /\ worker \in [1..Len(worker) -> [pc: Fan!Phases, resp: Answers]]
    /\ Len(arrived) = Cardinality({i \in DOMAIN worker :
                                      worker[i].pc \in {"releasing", "done"}})

HasAnswer(i) == worker[i].pc \notin {"queued", "fetching"}

\* The pages are on their way: whatever came back is the page asked for, and
\* for the facts the pages reach far enough.
ListInv ==
    /\ expected >= Len(Listed)
    /\ \A i \in DOMAIN worker :
          HasAnswer(i) => worker[i].resp \in {Failed, PageRows(PageOf(i))}
    /\ conf.call = "facts" =>
          /\ hosts = PageRows(1)
          /\ SizeKnown => Ends(Len(worker) + 1) >= Capped(Len(Listed))

FactsOf(h) == IF h \in Silent THEN <<>> ELSE <<h>>

\* The facts are on their way, of the hosts up to some place in the list.
FactsInv ==
    /\ \E k \in 0..Len(Listed) :
          /\ hosts = SubSeq(Listed, 1, k)
          /\ SizeKnown => k >= Capped(Len(Listed))
    /\ \A i \in DOMAIN worker :
          HasAnswer(i) => worker[i].resp \in {Failed, FactsOf(hosts[i])}

ShapeInv ==
    /\ TypeOK /\ FanInv
    /\ pc = "facts" => conf.call = "facts" /\ Len(worker) = Len(hosts)

CallInv ==
    /\ ShapeInv
    /\ calm => /\ pc = "list" => ListInv
               /\ pc = "facts" => FactsInv
               /\ pc = "idle" => PartialInOrder /\ ExactWhenSteady

(* The settings of a call and Foreman's list. *)
LEMMA CallNumbers ==
    ASSUME TypeOK
    PROVE  /\ conf \in Config
           /\ AskedPerPage \in Nat /\ AskedPerPage >= 1
           /\ Size \in Nat /\ Size >= 1
           /\ conf.serverMax \in Nat /\ conf.others \in Nat
           /\ \A n \in Nat : Capped(n) \in Nat /\ Capped(n) <= n
           /\ \A m, n \in Nat : m <= n => Capped(m) <= Capped(n)
           /\ Listed \in Seq(Hosts) /\ Len(Listed) = Cardinality(fleet)
           /\ Len(Listed) \in Nat /\ DOMAIN Listed = 1..Len(Listed)
           /\ Ordered(Listed) /\ ToSet(Listed) = fleet
<1>1. conf \in Config
  BY HostListAssumption DEF TypeOK
<1>2. /\ conf.perPage \in Nat /\ conf.perPage # 0
      /\ conf.serverMax \in Nat /\ conf.serverMax # 0
      /\ conf.others \in Nat /\ conf.limit \in Nat
  BY <1>1 DEF Config
<1>3. \A n \in Nat : Capped(n) \in Nat /\ Capped(n) <= n
  BY <1>2 DEF Capped
<1>4. \A m, n \in Nat : m <= n => Capped(m) <= Capped(n)
  BY <1>2 DEF Capped
<1>5. AskedPerPage \in Nat /\ AskedPerPage >= 1
  BY <1>2 DEF AskedPerPage, Capped
<1>6. Size \in Nat /\ Size >= 1
  BY <1>2, <1>5 DEF Size, Lesser
<1>7. fleet \in SUBSET Hosts
  BY DEF TypeOK
<1>8. /\ Listed \in Seq(Hosts) /\ Len(Listed) = Cardinality(fleet)
      /\ Len(Listed) \in Nat /\ DOMAIN Listed = 1..Len(Listed)
      /\ Ordered(Listed) /\ ToSet(Listed) = fleet
  BY <1>7, Listing DEF Listed
<1> QED BY <1>1, <1>2, <1>3, <1>4, <1>5, <1>6, <1>8

(* Pages are slices that meet, the ones beyond the end empty. *)
LEMMA Pages ==
    ASSUME TypeOK, NEW p \in Nat, p >= 1
    PROVE  /\ Ends(p - 1) \in Nat /\ Ends(p) \in Nat /\ Ends(0) = 0
           /\ Ends(p - 1) <= Ends(p) /\ Ends(p) <= Len(Listed)
           /\ PageRows(p) \in Seq(Hosts)
           /\ GetHosts(p, AskedPerPage).results = PageRows(p)
<1> DEFINE N == Len(Listed)
<1>1. /\ Size \in Nat /\ Size >= 1 /\ N \in Nat /\ Listed \in Seq(Hosts)
  BY CallNumbers
<1>2. /\ (p - 1) * Size \in Nat /\ p * Size \in Nat
      /\ p * Size = (p - 1) * Size + Size /\ 0 * Size = 0
  BY <1>1
<1> DEFINE a == (p - 1) * Size
           b == p * Size
<1>3. /\ a \in Nat /\ b \in Nat /\ a < b
  BY <1>1, <1>2
<1>4. /\ Ends(p - 1) = IF a < N THEN a ELSE N
      /\ Ends(p) = IF b < N THEN b ELSE N
      /\ Ends(0) = 0
  BY <1>1, <1>2 DEF Ends, Lesser
<1>5. GetHosts(p, AskedPerPage).results
        = SubSeq(Listed, a + 1, IF b < N THEN b ELSE N)
  BY DEF GetHosts, Size, Lesser
<1> HIDE DEF a, b, N
<1>6. /\ Ends(p - 1) \in Nat /\ Ends(p) \in Nat
      /\ Ends(p - 1) <= Ends(p) /\ Ends(p) <= N
  BY <1>1, <1>3, <1>4
<1>7. PageRows(p) \in Seq(Hosts)
  BY <1>1, <1>6, SliceOf DEF PageRows, N
<1>8. GetHosts(p, AskedPerPage).results = PageRows(p)
  <2>1. CASE a < N
    BY <1>4, <1>5, <2>1 DEF PageRows
  <2>2. CASE ~(a < N)
    <3>1. GetHosts(p, AskedPerPage).results = SubSeq(Listed, a + 1, N)
      BY <1>1, <1>3, <1>5, <2>2
    <3>2. PageRows(p) = SubSeq(Listed, N + 1, N)
      BY <1>1, <1>3, <1>4, <2>2 DEF PageRows
    <3>3. N < a + 1 /\ N < N + 1
      BY <1>1, <1>3, <2>2
    <3>4. SubSeq(Listed, a + 1, N) = <<>> /\ SubSeq(Listed, N + 1, N) = <<>>
      BY <1>1, <1>3, <3>3
    <3> QED BY <3>1, <3>2, <3>4
  <2> QED BY <2>1, <2>2
<1> QED BY <1>4, <1>6, <1>7, <1>8 DEF N

(* Rounding up covers. *)
LEMMA RoundedUp ==
    ASSUME NEW n \in Nat, NEW s \in Nat, s >= 1
    PROVE  /\ (n + s - 1) \div s \in Nat
           /\ ((n + s - 1) \div s) * s >= n
           /\ n > 0 => (n + s - 1) \div s >= 1
OBVIOUS


-----------------------------------------------------------------------------
(* The fan-out. *)

Delivered == {i \in DOMAIN worker : worker[i].pc \in {"releasing", "done"}}

Worker == [pc: Fan!Phases, resp: Answers]

(* A fan-out begins with no result and nobody done. *)
LEMMA FanStarts ==
    ASSUME NEW n \in Nat, Fan!Start(n)
    PROVE  /\ FanInv' /\ Len(worker') = n /\ DOMAIN worker' = 1..n
           /\ arrived' \in Seq(DOMAIN worker')
           /\ \A i \in DOMAIN worker' : ~HasAnswer(i)'
<1> DEFINE first == [pc |-> "queued", resp |-> Failed]
<1>1. worker' = [i \in 1..n |-> first] /\ arrived' = <<>>
  BY DEF Fan!Start
<1>2. first \in Worker /\ first.pc = "queued"
  BY DEF Worker, Fan!Phases, Answers
<1> HIDE DEF first
<1>3. /\ worker' \in [1..n -> Worker] /\ DOMAIN worker' = 1..n
      /\ Len(worker') = n
  BY <1>1, <1>2
<1>4. \A i \in DOMAIN worker' : worker'[i].pc = "queued"
  BY <1>1, <1>2
<1>5. Delivered' = {}
  BY <1>4 DEF Delivered
<1>6. Len(arrived') = Cardinality(Delivered')
  BY <1>1, <1>5, FS_EmptySet
<1> QED BY <1>1, <1>3, <1>4, <1>6 DEF FanInv, Delivered, HasAnswer, Worker

(* The set of goroutines is finite. *)
LEMMA FanFinite ==
    ASSUME FanInv
    PROVE  /\ DOMAIN worker = 1..Len(worker) /\ Len(worker) \in Nat
           /\ IsFiniteSet(DOMAIN worker)
           /\ Cardinality(DOMAIN worker) = Len(worker)
           /\ IsFiniteSet(Delivered)
<1> DEFINE n == Len(worker)
<1>1. DOMAIN worker = 1..n /\ n \in Nat
  BY DEF FanInv
<1> HIDE DEF n
<1>2. IsFiniteSet(1..n) /\ Cardinality(1..n) = IF 1 > n THEN 0 ELSE n - 1 + 1
  BY <1>1, FS_Interval
<1>3. Cardinality(1..n) = n
  BY <1>1, <1>2
<1>4. IsFiniteSet(Delivered)
  BY <1>1, <1>2, FS_Subset DEF Delivered
<1> QED BY <1>1, <1>2, <1>3, <1>4 DEF n

(* Once as many results arrived as there are goroutines, each has its answer. *)
LEMMA AllAnswered ==
    ASSUME FanInv, Fan!AllArrived
    PROVE  \A i \in DOMAIN worker : HasAnswer(i)
<1>1. Len(arrived) = Cardinality(Delivered) /\ Len(arrived) = Len(worker)
  BY DEF FanInv, Delivered, Fan!AllArrived
<1>2. Delivered \in SUBSET DOMAIN worker
  BY DEF Delivered
<1>3. Delivered = DOMAIN worker
  BY <1>1, <1>2, FanFinite, FS_Subset
<1> QED BY <1>3 DEF Delivered, HasAnswer

(* A request returns. *)
LEMMA FanFetches ==
    ASSUME FanInv, NEW i \in DOMAIN worker, NEW resp \in Answers,
           Fan!Fetched(i, resp)
    PROVE  /\ FanInv' /\ Len(worker') = Len(worker)
           /\ DOMAIN worker' = DOMAIN worker /\ arrived' = arrived
           /\ worker'[i].resp = resp
           /\ \A j \in DOMAIN worker : j # i => worker'[j] = worker[j]
<1> DEFINE new == [pc |-> "sending", resp |-> resp]
<1>1. /\ worker[i].pc = "fetching" /\ arrived' = arrived
      /\ worker' = [worker EXCEPT ![i] = new]
  BY DEF Fan!Fetched
<1>2. new \in Worker /\ new.pc = "sending" /\ new.resp = resp
  BY DEF Worker, Fan!Phases
<1> HIDE DEF new
<1>3. worker \in [1..Len(worker) -> Worker] /\ Len(worker) \in Nat
  BY DEF FanInv, Worker
<1>4. /\ worker' \in [1..Len(worker) -> Worker]
      /\ DOMAIN worker' = 1..Len(worker) /\ DOMAIN worker = 1..Len(worker)
      /\ Len(worker') = Len(worker)
      /\ worker'[i] = new
      /\ \A j \in DOMAIN worker : j # i => worker'[j] = worker[j]
  BY <1>1, <1>2, <1>3
<1>5. Delivered' = Delivered
  BY <1>1, <1>2, <1>4 DEF Delivered
<1>6. Len(arrived') = Cardinality(Delivered')
  BY <1>1, <1>5 DEF FanInv, Delivered
<1> QED BY <1>1, <1>2, <1>3, <1>4, <1>6 DEF FanInv, Delivered, Worker

(* A goroutine takes its place, delivers or leaves. *)
LEMMA FanWorks ==
    ASSUME FanInv, NEW i \in DOMAIN worker, Fan!RunWorker(i),
           arrived \in Seq(DOMAIN worker)
    PROVE  /\ FanInv' /\ Len(worker') = Len(worker)
           /\ DOMAIN worker' = DOMAIN worker
           /\ arrived' \in Seq(DOMAIN worker')
           /\ \A j \in DOMAIN worker : /\ worker'[j].resp = worker[j].resp
                                       /\ HasAnswer(j)' => HasAnswer(j)
<1>1. PICK to \in Fan!Phases :
            /\ worker' = [worker EXCEPT ![i] = [worker[i] EXCEPT !.pc = to]]
            /\ \/ /\ worker[i].pc = "queued" /\ to = "fetching"
                  /\ arrived' = arrived
               \/ /\ worker[i].pc = "sending" /\ to = "releasing"
                  /\ arrived' = Append(arrived, i)
               \/ /\ worker[i].pc = "releasing" /\ to = "done"
                  /\ arrived' = arrived
  BY DEF Fan!RunWorker, Fan!Acquire, Fan!Deliver, Fan!Release, Fan!Phases
<1> DEFINE new == [worker[i] EXCEPT !.pc = to]
<1>2. worker \in [1..Len(worker) -> Worker] /\ Len(worker) \in Nat
  BY DEF FanInv, Worker
<1>3. new \in Worker /\ new.pc = to /\ new.resp = worker[i].resp
  BY <1>2 DEF Worker
<1>4. worker' = [worker EXCEPT ![i] = new]
  BY <1>1
<1> HIDE DEF new
<1>5. /\ worker' \in [1..Len(worker) -> Worker]
      /\ DOMAIN worker' = 1..Len(worker) /\ DOMAIN worker = 1..Len(worker)
      /\ Len(worker') = Len(worker)
      /\ worker'[i] = new
      /\ \A j \in DOMAIN worker : j # i => worker'[j] = worker[j]
  BY <1>2, <1>3, <1>4
<1>6. /\ Len(arrived') = Cardinality(Delivered')
      /\ arrived' \in Seq(DOMAIN worker)
  <2>0. Len(arrived) = Cardinality(Delivered) /\ IsFiniteSet(Delivered)
    BY FanFinite DEF FanInv, Delivered
  <2>1. CASE worker[i].pc = "sending" /\ to = "releasing"
    <3>1. Delivered' = Delivered \cup {i} /\ i \notin Delivered
      BY <1>3, <1>5, <2>1 DEF Delivered
    <3>2. Cardinality(Delivered') = Cardinality(Delivered) + 1
      BY <2>0, <3>1, FS_AddElement
    <3>3. arrived' = Append(arrived, i)
      BY <1>1, <2>1
    <3> QED BY <2>0, <3>2, <3>3
  <2>2. CASE worker[i].pc = "queued" /\ to = "fetching"
    <3>1. Delivered' = Delivered
      BY <1>3, <1>5, <2>2 DEF Delivered
    <3> QED BY <1>1, <2>0, <2>2, <3>1
  <2>3. CASE worker[i].pc = "releasing" /\ to = "done"
    <3>1. Delivered' = Delivered
      BY <1>3, <1>5, <2>3 DEF Delivered
    <3> QED BY <1>1, <2>0, <2>3, <3>1
  <2> QED BY <1>1, <2>1, <2>2, <2>3
<1>7. ASSUME NEW j \in DOMAIN worker
      PROVE  worker'[j].resp = worker[j].resp /\ (HasAnswer(j)' => HasAnswer(j))
  BY <1>1, <1>3, <1>5 DEF HasAnswer
<1> QED BY <1>2, <1>5, <1>6, <1>7 DEF FanInv, Delivered, Worker


(* Whatever came back, what is joined is a list of hosts. *)
LEMMA JoinedType ==
    ASSUME FanInv
    PROVE  /\ \A i \in DOMAIN worker : Part(i) \in Seq(Hosts)
           /\ Joined \in Seq(Hosts)
<1> DEFINE n == Len(worker)
           r == [i \in DOMAIN worker |-> Part(i)]
<1>1. DOMAIN worker = 1..n /\ n \in Nat
  BY FanFinite
<1>2. \A i \in DOMAIN worker : Part(i) \in Seq(Hosts)
  BY DEF FanInv, Part, Fan!Results, Answers
<1>3. r \in [1..n -> Seq(Hosts)]
  BY <1>1, <1>2
<1>4. Joined = FlattenSeq(r)
  BY DEF Joined
<1> HIDE DEF n, r
<1>5. CASE n = 0
  <2>1. r = <<>> /\ Len(r) = 0
    BY <1>3, <1>5
  <2> QED BY <1>2, <1>4, <2>1 DEF FlattenSeq
<1>6. CASE n > 0
  <2>1. PICK f \in [1..n -> Seq(Hosts)] : Partials(f, r, n)
    BY <1>1, <1>3, <1>6, Flattening
  <2>2. FlattenSeq(r) = f[n] /\ f[n] \in Seq(Hosts)
    BY <1>1, <1>6, <2>1 DEF Partials
  <2> QED BY <1>2, <1>4, <2>2
<1> QED BY <1>1, <1>5, <1>6

(* The keys of the facts, in order. *)
Keys == UNION {ToSet(Part(i)) : i \in DOMAIN worker}

(* The keys of the map of facts are hosts. *)
LEMMA KeysType ==
    ASSUME FanInv
    PROVE  Keys \in SUBSET Hosts /\ ListOf[Keys] \in Seq(Hosts)
<1>1. \A i \in DOMAIN worker : ToSet(Part(i)) \subseteq Hosts
  BY JoinedType DEF ToSet
<1>2. Keys \in SUBSET Hosts
  BY <1>1 DEF Keys
<1> QED BY <1>2, Listing

(* The first response of a call. *)
LEMMA FirstResponse ==
    ASSUME TypeOK, NEW size \in Nat, size >= 1
    PROVE  LET resp == GetHosts(1, size)
           IN /\ expectedHosts(resp) \in Nat
              /\ expectedHosts(resp) >= Len(Listed)
              /\ pageCount(expectedHosts(resp), AskedPerPage) \in Nat
              /\ EffPerPage(resp) \in Nat /\ EffPerPage(resp) >= 1
              /\ pageCount(expectedHosts(resp), EffPerPage(resp)) \in Nat
<1> DEFINE resp == GetHosts(1, size)
           N == Len(Listed)
           s == Lesser(size, conf.serverMax)
<1>1. /\ N \in Nat /\ N = Cardinality(fleet) /\ conf \in Config
      /\ AskedPerPage \in Nat /\ AskedPerPage >= 1
      /\ \A n \in Nat : Capped(n) \in Nat
  BY CallNumbers
<1>2. s \in Nat /\ s >= 1
  BY <1>1 DEF Lesser, Config
<1>3. /\ resp.subtotal = (IF conf.subtotal THEN N ELSE -1)
      /\ resp.total = N + conf.others
      /\ resp.perPage = (IF conf.echoes THEN s ELSE 0)
  BY <1>1 DEF GetHosts
<1> HIDE DEF resp, N, s
<1>4. conf.others \in Nat
  BY <1>1 DEF Config
<1>5. expectedHosts(resp) \in Nat /\ expectedHosts(resp) >= N
  BY <1>1, <1>3, <1>4 DEF expectedHosts
<1>6. EffPerPage(resp) \in Nat /\ EffPerPage(resp) >= 1
  BY <1>1, <1>2, <1>3 DEF EffPerPage
<1>7. ASSUME NEW n \in Nat, NEW k \in Nat, k >= 1 PROVE pageCount(n, k) \in Nat
  <2>1. (Capped(n) + k - 1) \div k \in Nat
    BY <1>1, <1>7, RoundedUp
  <2> QED BY <2>1 DEF pageCount
<1>8. /\ pageCount(expectedHosts(resp), AskedPerPage) \in Nat
      /\ pageCount(expectedHosts(resp), EffPerPage(resp)) \in Nat
  BY <1>1, <1>5, <1>6, <1>7
<1> QED BY <1>5, <1>6, <1>8 DEF resp, N

-----------------------------------------------------------------------------
(* The types of a call. *)

(* Every step keeps the shape. *)
LEMMA ShapeStep ==
    ASSUME ShapeInv, [Next]_vars
    PROVE  ShapeInv'
<1>t. /\ TypeOK /\ FanInv
      /\ pc = "facts" => conf.call = "facts" /\ Len(worker) = Len(hosts)
  BY DEF ShapeInv
<1>f. ASSUME UNCHANGED fanVars
      PROVE  FanInv' /\ Len(worker') = Len(worker) /\ worker' = worker
             /\ arrived' = arrived
  BY <1>t, <1>f DEF fanVars, FanInv, Fan!Phases, Answers
<1>w. ASSUME FanInv'
      PROVE  \A i \in DOMAIN worker' :
                /\ worker'[i].pc \in Fan!Phases
                /\ worker'[i].resp = Failed \/ worker'[i].resp \in Seq(Hosts)
  BY <1>w DEF FanInv, Answers
<1>1. CASE UNCHANGED vars
  <2>1. UNCHANGED <<conf, foreman, callVars, fanVars>>
    BY <1>1 DEF vars
  <2> QED BY <1>t, <1>f, <1>w, <2>1 DEF ShapeInv, TypeOK, foreman, callVars
<1>2. CASE Begin
  <2>1. FanInv' /\ worker' = worker /\ arrived' = arrived
    BY <1>f, <1>2 DEF Begin
  <2>2. <<>> \in Seq(Hosts)
    OBVIOUS
  <2> QED BY <1>t, <1>w, <1>2, <2>1, <2>2 DEF Begin, ShapeInv, TypeOK
<1>3. CASE FirstFails
  <2>1. FanInv' /\ worker' = worker /\ arrived' = arrived
    BY <1>f, <1>3 DEF FirstFails
  <2>2. <<>> \in Seq(Hosts)
    OBVIOUS
  <2> QED BY <1>t, <1>w, <1>3, <2>1, <2>2
          DEF FirstFails, Return, ShapeInv, TypeOK, foreman
<1>4. CASE Probe
  <2> DEFINE resp == GetHosts(1, 1)
             pages == pageCount(expectedHosts(resp), AskedPerPage)
  <2>1. expectedHosts(resp) \in Nat /\ pages \in Nat
    BY <1>t, FirstResponse
  <2>2. /\ UNCHANGED <<conf, foreman, hosts>>
        /\ expected' = expectedHosts(resp)
        /\ \/ Return(<<>>, FALSE) /\ UNCHANGED fanVars
           \/ pc' = "list" /\ Fan!Start(pages) /\ UNCHANGED out
    BY <1>4 DEF Probe
  <2> HIDE DEF resp, pages
  <2>3. <<>> \in Seq(Hosts)
    OBVIOUS
  <2>4. CASE Return(<<>>, FALSE) /\ UNCHANGED fanVars
    BY <1>t, <1>f, <1>w, <2>1, <2>2, <2>3, <2>4
    DEF Return, ShapeInv, TypeOK, foreman
  <2>5. CASE pc' = "list" /\ Fan!Start(pages) /\ UNCHANGED out
    <3>1. FanInv' /\ arrived' \in Seq(DOMAIN worker')
      BY <2>1, <2>5, FanStarts
    <3> QED BY <1>t, <1>w, <2>1, <2>2, <2>5, <3>1
            DEF ShapeInv, TypeOK, foreman
  <2> QED BY <2>2, <2>4, <2>5
<1>5. CASE FirstPage
  <2> DEFINE resp == GetHosts(1, AskedPerPage)
             pages == pageCount(expectedHosts(resp), EffPerPage(resp))
  <2>0. AskedPerPage \in Nat /\ AskedPerPage >= 1
    BY <1>t, CallNumbers
  <2>1. expectedHosts(resp) \in Nat /\ pages \in Nat
    BY <1>t, <2>0, FirstResponse
  <2>2. resp.results \in Seq(Hosts) /\ Len(resp.results) \in Nat
    BY <1>t, Pages
  <2>3. /\ UNCHANGED <<conf, foreman, out>> /\ conf.call = "facts"
        /\ expected' = expectedHosts(resp) /\ hosts' = resp.results
        /\ \/ pages > 1 /\ pc' = "list" /\ Fan!Start(pages - 1)
           \/ pc' = "facts" /\ Fan!Start(Len(resp.results))
    BY <1>5 DEF FirstPage
  <2> HIDE DEF resp, pages
  <2>4. /\ FanInv' /\ arrived' \in Seq(DOMAIN worker')
        /\ pc' \in {"list", "facts"}
        /\ pc' = "facts" => Len(worker') = Len(hosts')
    <3>1. CASE pages > 1 /\ pc' = "list" /\ Fan!Start(pages - 1)
      <4>1. pages - 1 \in Nat
        BY <2>1, <3>1
      <4> QED BY <3>1, <4>1, FanStarts
    <3>2. CASE pc' = "facts" /\ Fan!Start(Len(resp.results))
      BY <2>2, <2>3, <3>2, FanStarts
    <3> QED BY <2>3, <3>1, <3>2
  <2> QED BY <1>t, <1>w, <2>1, <2>2, <2>3, <2>4 DEF ShapeInv, TypeOK, foreman
<1>6. CASE ReturnHosts
  <2>1. FanInv' /\ worker' = worker /\ arrived' = arrived
    BY <1>f, <1>6 DEF ReturnHosts
  <2>2. Joined \in Seq(Hosts)
    BY <1>t, JoinedType
  <2>3. (AnyFailed \/ ShortRead(Len(Joined))) \in BOOLEAN
    OBVIOUS
  <2> QED BY <1>t, <1>w, <1>6, <2>1, <2>2, <2>3
          DEF ReturnHosts, Return, ShapeInv, TypeOK, foreman
<1>7. CASE PagesFailed
  <2>1. FanInv' /\ worker' = worker /\ arrived' = arrived
    BY <1>f, <1>7 DEF PagesFailed
  <2>2. <<>> \in Seq(Hosts)
    OBVIOUS
  <2> QED BY <1>t, <1>w, <1>7, <2>1, <2>2
          DEF PagesFailed, Return, ShapeInv, TypeOK, foreman
<1>8. CASE StartFacts
  <2>1. hosts \o Joined \in Seq(Hosts) /\ Len(hosts \o Joined) \in Nat
    <3>1. Joined \in Seq(Hosts) /\ hosts \in Seq(Hosts)
      BY <1>t, JoinedType DEF TypeOK
    <3> QED BY <3>1
  <2>2. FanInv' /\ arrived' \in Seq(DOMAIN worker') /\ Len(worker') = Len(hosts')
    BY <1>8, <2>1, FanStarts DEF StartFacts
  <2> QED BY <1>t, <1>w, <1>8, <2>1, <2>2
          DEF StartFacts, ShapeInv, TypeOK, foreman
<1>9. CASE ReturnFacts
  <2>1. FanInv' /\ worker' = worker /\ arrived' = arrived
    BY <1>f, <1>9 DEF ReturnFacts
  <2>2. ListOf[Keys] \in Seq(Hosts) /\ AnyFailed \in BOOLEAN
    BY <1>t, KeysType DEF AnyFailed
  <2> QED BY <1>t, <1>w, <1>9, <2>1, <2>2
          DEF ReturnFacts, Return, Keys, ShapeInv, TypeOK, foreman
<1>10. ASSUME NEW i \in DOMAIN worker, Goroutine(i) PROVE ShapeInv'
  <2>1. UNCHANGED <<conf, foreman, callVars>>
    BY <1>10 DEF Goroutine, FetchPage, FetchFacts, Work
  <2>2. FanInv' /\ Len(worker') = Len(worker) /\ arrived' \in Seq(DOMAIN worker')
    <3>1. CASE Work(i)
      BY <1>t, <3>1, FanWorks DEF Work, TypeOK
    <3>2. ASSUME NEW resp \in Answers, Fan!Fetched(i, resp)
          PROVE  /\ FanInv' /\ Len(worker') = Len(worker)
                 /\ arrived' \in Seq(DOMAIN worker')
      BY <1>t, <3>2, FanFetches DEF TypeOK
    <3>3. Failed \in Answers
      BY DEF Answers
    <3>4. CASE FetchPage(i)
      <4>1. PageOf(i) \in Nat /\ PageOf(i) >= 1
        BY <1>t, FanFinite DEF PageOf
      <4>2. GetHosts(PageOf(i), AskedPerPage).results \in Answers
        BY <1>t, <4>1, Pages DEF Answers
      <4> QED BY <3>2, <3>3, <3>4, <4>2 DEF FetchPage
    <3>5. CASE FetchFacts(i)
      <4>1. i \in DOMAIN hosts /\ hosts[i] \in Hosts
        <5>1. pc = "facts" /\ hosts \in Seq(Hosts)
          BY <1>t, <3>5 DEF FetchFacts, TypeOK
        <5>2. DOMAIN worker = 1..Len(hosts)
          BY <1>t, <5>1, FanFinite
        <5> QED BY <5>1, <5>2
      <4>2. (IF hosts[i] \in Silent THEN <<>> ELSE <<hosts[i]>>) \in Answers
        BY <4>1 DEF Answers
      <4> QED BY <3>2, <3>3, <3>5, <4>2 DEF FetchFacts
    <3> QED BY <1>10, <3>1, <3>4, <3>5 DEF Goroutine
  <2> QED BY <1>t, <1>w, <2>1, <2>2 DEF ShapeInv, TypeOK, foreman, callVars
<1>11. CASE Churn
  <2>1. PICK f \in SUBSET Hosts : Change(f)
    BY <1>t, <1>11 DEF Churn, TypeOK
  <2>2. changes' \in 0..MaxChanges
    BY <1>t, <2>1, HostListAssumption DEF Change, TypeOK
  <2>3. FanInv' /\ worker' = worker /\ arrived' = arrived
    BY <1>f, <2>1 DEF Change
  <2> QED BY <1>t, <1>w, <2>1, <2>2, <2>3 DEF Change, ShapeInv, TypeOK, callVars
<1> QED BY <1>1, <1>2, <1>3, <1>4, <1>5, <1>6, <1>7, <1>8, <1>9, <1>10, <1>11
        DEF Next, Client

(* The first state is well typed. *)
LEMMA ShapeStart ==
    ASSUME Init
    PROVE  ShapeInv
<1>1. worker = <<>> /\ arrived = <<>> /\ pc = "idle"
  BY DEF Init, Fan!FanInit
<1>2. /\ DOMAIN worker = {} /\ Len(worker) = 0 /\ Len(arrived) = 0
      /\ worker \in [1..0 -> [pc: Fan!Phases, resp: Answers]]
      /\ arrived \in Seq(DOMAIN worker)
  BY <1>1
<1>3. FanInv
  <2>1. {i \in DOMAIN worker : worker[i].pc \in {"releasing", "done"}} = {}
    BY <1>2
  <2> QED BY <1>2, <2>1, FS_EmptySet DEF FanInv
<1>4. TypeOK
  <2>1. /\ conf \in Configs /\ fleet \in InitialFleets /\ changes = 0
        /\ steady = fleet /\ calm = FALSE /\ expected = 0 /\ hosts = <<>>
        /\ out = [hosts |-> <<>>, err |-> TRUE]
    BY DEF Init
  <2>2. fleet \subseteq Hosts /\ steady \subseteq fleet
        /\ changes \in 0..MaxChanges
    BY <2>1, HostListAssumption
  <2>3. hosts \in Seq(Hosts) /\ out \in [hosts : Seq(Hosts), err : BOOLEAN]
    BY <2>1
  <2> QED BY <1>1, <1>2, <2>1, <2>2, <2>3 DEF TypeOK
<1> QED BY <1>1, <1>3, <1>4 DEF ShapeInv

(* The types of both calls: a call only ever holds lists of hosts, whatever
   Foreman's fleet does meanwhile, and each goroutine delivers at most once
   (GetHostsFiltered, GetHostsFactsFiltered and their fan-outs). *)
THEOREM ListTypeCorrect == Spec => []TypeOK
<1>1. Init => ShapeInv
  BY ShapeStart
<1>2. ShapeInv /\ [Next]_vars => ShapeInv'
  BY ShapeStep
<1>3. ShapeInv => TypeOK
  BY DEF ShapeInv
<1> QED BY <1>1, <1>2, <1>3, PTL DEF Spec


-----------------------------------------------------------------------------
(* Calls on a fleet that stands still. *)

(* All pages joined, when those of GetHostsFiltered begin with the first and
   those of GetHostsFactsFiltered with the second. *)
LEMMA JoinedPages ==
    ASSUME ShapeInv, ListInv, Fan!AllArrived, NEW o \in 0..1,
           o = IF conf.call = "hosts" THEN 0 ELSE 1
    PROVE  /\ Ordered(Joined)
           /\ ~AnyFailed =>
                 Joined = SubSeq(Listed, Ends(o) + 1, Ends(Len(worker) + o))
<1> DEFINE n == Len(worker)
           r == [i \in DOMAIN worker |-> Part(i)]
           e == [i \in 0..n |-> Ends(i + o)]
<1>0. /\ TypeOK /\ FanInv /\ DOMAIN worker = 1..n /\ n \in Nat /\ o \in Nat
  BY FanFinite DEF ShapeInv
<1>1. /\ Hosts \in SUBSET Nat /\ Listed \in Seq(Hosts) /\ Ordered(Listed)
      /\ Len(Listed) \in Nat
  BY <1>0, CallNumbers, HostListAssumption
<1>2. ASSUME NEW i \in 0..n PROVE Ends(i + o) \in 0..Len(Listed)
  <2>1. i + o \in Nat /\ i + o + 1 \in Nat /\ i + o + 1 >= 1
        /\ (i + o + 1) - 1 = i + o
    BY <1>0
  <2>2. /\ Ends((i + o + 1) - 1) \in Nat
        /\ Ends((i + o + 1) - 1) <= Ends(i + o + 1)
        /\ Ends(i + o + 1) <= Len(Listed) /\ Ends(i + o + 1) \in Nat
    BY <1>0, <2>1, Pages
  <2>3. Ends(i + o) \in Nat /\ Ends(i + o) <= Ends(i + o + 1)
    BY <2>1, <2>2
  <2> QED BY <1>1, <2>2, <2>3
<1>3. e \in [0..n -> 0..Len(Listed)]
  BY <1>2
<1>4. ASSUME NEW i \in 1..n
      PROVE  /\ e[i - 1] = Ends((i + o) - 1) /\ e[i] = Ends(i + o)
             /\ e[i - 1] <= e[i]
             /\ PageRows(PageOf(i)) = SubSeq(Listed, e[i - 1] + 1, e[i])
             /\ i \in DOMAIN worker
             /\ worker[i].resp \in {Failed, PageRows(PageOf(i))}
  <2>1. /\ i - 1 \in 0..n /\ i \in 0..n /\ (i - 1) + o = (i + o) - 1
        /\ i + o \in Nat /\ i + o >= 1 /\ i \in DOMAIN worker
    BY <1>0
  <2>2. e[i - 1] = Ends((i + o) - 1) /\ e[i] = Ends(i + o)
    BY <2>1
  <2>3. Ends((i + o) - 1) <= Ends(i + o)
    BY <1>0, <2>1, Pages
  <2>4. PageOf(i) = i + o
    BY <1>0, <2>1 DEF PageOf
  <2>5. HasAnswer(i)
    BY <1>0, <2>1, AllAnswered
  <2> HIDE DEF e
  <2> QED BY <2>1, <2>2, <2>3, <2>4, <2>5 DEF PageRows, ListInv
<1>5. r \in [1..n -> Seq(Hosts)] /\ Joined = FlattenSeq(r)
  BY <1>0, JoinedType DEF Joined
<1>6. ASSUME NEW i \in 1..n
      PROVE  /\ r[i] = <<>> \/ r[i] = SubSeq(Listed, e[i - 1] + 1, e[i])
             /\ ~AnyFailed => r[i] = SubSeq(Listed, e[i - 1] + 1, e[i])
  <2>1. r[i] = IF worker[i].resp = Failed THEN <<>> ELSE worker[i].resp
    BY <1>0, <1>4 DEF Part, Fan!Results
  <2>2. ~AnyFailed => worker[i].resp # Failed
    BY <1>0, <1>4 DEF AnyFailed, Fan!Results
  <2> HIDE DEF e, r
  <2> QED BY <1>4, <2>1, <2>2
<1>7. e[0] = Ends(o) /\ e[n] = Ends(n + o)
  BY <1>0
<1> HIDE DEF e, r, n
<1>8. /\ Ordered(FlattenSeq(r))
      /\ Slices(r, Listed, e, n) =>
            FlattenSeq(r) = SubSeq(Listed, e[0] + 1, e[n])
  <2>1. Rising(e, n) /\ SomeSlices(r, Listed, e, n)
    BY <1>4, <1>6 DEF Rising, SomeSlices
  <2>2. /\ Hosts \in SUBSET Nat /\ Listed \in Seq(Hosts) /\ Ordered(Listed)
        /\ n \in Nat /\ e \in [0..n -> 0..Len(Listed)]
        /\ r \in [1..n -> Seq(Hosts)]
    BY <1>0, <1>1, <1>3, <1>5
  <2> QED BY ONLY <2>1, <2>2, Joining
<1>9. ~AnyFailed => FlattenSeq(r) = SubSeq(Listed, e[0] + 1, e[n])
  BY <1>6, <1>8 DEF Slices
<1> QED BY <1>5, <1>7, <1>8, <1>9 DEF n

(* The hosts up to place k of Foreman's list. *)
LEMMA FirstHosts ==
    ASSUME TypeOK, NEW k \in 0..Len(Listed)
    PROVE  LET first == SubSeq(Listed, 1, k)
           IN /\ first \in Seq(Hosts) /\ Len(first) = k
              /\ Ordered(first)
              /\ ToSet(first) = {Listed[x] : x \in 1..k}
              /\ ToSet(first) \subseteq fleet
              /\ \A h \in fleet, g \in ToSet(first) : h < g => h \in ToSet(first)
<1> DEFINE first == SubSeq(Listed, 1, k)
<1>1. /\ Hosts \in SUBSET Nat /\ Listed \in Seq(Hosts) /\ Ordered(Listed)
      /\ Len(Listed) \in Nat /\ DOMAIN Listed = 1..Len(Listed)
      /\ ToSet(Listed) = fleet
  BY CallNumbers, HostListAssumption
<1>2. k \in Nat /\ k <= Len(Listed) /\ 0 + 1 = 1 /\ k - 0 = k
  BY <1>1
<1>3. /\ first \in Seq(Hosts) /\ Len(first) = k /\ DOMAIN first = 1..k
      /\ \A x \in 1..k : first[x] = Listed[x]
  BY <1>1, <1>2
<1> HIDE DEF first
<1>4. ToSet(first) = {Listed[x] : x \in 1..k}
  BY <1>3 DEF ToSet
<1>5. 1..k \subseteq DOMAIN Listed
  BY <1>1, <1>2
<1>6. Ordered(first)
  BY <1>3, <1>5, <1>1 DEF Ordered
<1>7. ToSet(first) \subseteq fleet
  BY <1>1, <1>4, <1>5 DEF ToSet
<1>8. ASSUME NEW h \in fleet, NEW g \in ToSet(first), h < g
      PROVE  h \in ToSet(first)
  <2>1. PICK y \in 1..k : g = Listed[y]
    BY <1>4
  <2>2. PICK x \in DOMAIN Listed : h = Listed[x]
    BY <1>1 DEF ToSet
  <2>3. h \in Nat /\ g \in Nat /\ y \in DOMAIN Listed
    <3>1. y \in DOMAIN Listed /\ Listed[y] \in Hosts /\ Listed[x] \in Hosts
      BY <1>1, <1>5
    <3> QED BY <1>1, <2>1, <2>2, <3>1
  <2>4. ~(y < x) /\ y # x => x \in 1..k
    BY <1>1, <1>2, <2>1, <2>2
  <2>5. ~(y < x)
    BY <1>1, <1>8, <2>1, <2>2, <2>3 DEF Ordered
  <2>6. y # x
    BY <1>8, <2>1, <2>2, <2>3
  <2> QED BY <1>4, <2>2, <2>4, <2>5, <2>6
<1> QED BY <1>3, <1>4, <1>6, <1>7, <1>8 DEF first

\* What Exact says of a list.
ExactList(list) ==
    /\ Ordered(list)
    /\ Due \subseteq ToSet(list) /\ ToSet(list) \subseteq Wanted
    /\ \A h \in Wanted, g \in ToSet(list) : h < g => h \in ToSet(list)

(* A list in order that names the wanted hosts up to a place beyond the limit
   is exact. *)
LEMMA NamesFirst ==
    ASSUME TypeOK, NEW k \in 0..Len(Listed), k >= Capped(Len(Listed)),
           NEW list, Ordered(list),
           ToSet(list) = Wanted \cap ToSet(SubSeq(Listed, 1, k))
    PROVE  ExactList(list)
<1> DEFINE P == ToSet(SubSeq(Listed, 1, k))
           c == Capped(Len(Listed))
<1>1. c \in 0..Len(Listed) /\ k \in Nat /\ c \in Nat /\ c <= k
  BY CallNumbers
<1>2. /\ P = {Listed[x] : x \in 1..k}
      /\ \A h \in fleet, g \in P : h < g => h \in P
  BY FirstHosts
<1>3. ToSet(SubSeq(Listed, 1, c)) = {Listed[x] : x \in 1..c}
  BY <1>1, FirstHosts
<1>4. 1..c \subseteq 1..k
  BY <1>1
<1>5. ToSet(SubSeq(Listed, 1, c)) \subseteq P
  BY <1>2, <1>3, <1>4
<1>6. Wanted \subseteq fleet
  BY DEF Wanted
<1> HIDE DEF P, c
<1>7. Due = Wanted \cap ToSet(SubSeq(Listed, 1, c))
  BY DEF Due, c
<1>8. ToSet(list) = Wanted \cap P
  BY DEF P
<1> QED BY <1>2, <1>5, <1>6, <1>7, <1>8 DEF ExactList


(* What depends on the fleet and the settings alone. *)
LEMMA FleetKept ==
    ASSUME UNCHANGED <<conf, fleet>>
    PROVE  /\ Listed' = Listed /\ Wanted' = Wanted /\ Due' = Due
           /\ (SizeKnown' <=> SizeKnown)
           /\ \A n : Capped(n)' = Capped(n)
           /\ \A p : Ends(p)' = Ends(p) /\ PageRows(p)' = PageRows(p)
           /\ \A i : PageOf(i)' = PageOf(i)
<1>1. Listed' = Listed /\ Wanted' = Wanted
  BY DEF Listed, Wanted
<1>2. (\A n : Capped(n)' = Capped(n)) /\ AskedPerPage' = AskedPerPage
  BY DEF Capped, AskedPerPage
<1>3. Due' = Due
  BY <1>1, <1>2 DEF Due
<1>4. SizeKnown' <=> SizeKnown
  BY <1>2 DEF SizeKnown
<1>5. \A p : Ends(p)' = Ends(p)
  BY <1>1, <1>2 DEF Ends, Size, Lesser
<1>6. \A p : PageRows(p)' = PageRows(p)
  BY <1>1, <1>5 DEF PageRows
<1>7. \A i : PageOf(i)' = PageOf(i)
  BY DEF PageOf
<1> QED BY <1>1, <1>2, <1>3, <1>4, <1>5, <1>6, <1>7

(* What a call returns is what the invariant wants of an idle client. *)
LEMMA Returning ==
    ASSUME NEW list, NEW err \in BOOLEAN, Return(list, err),
           UNCHANGED <<conf, fleet>>,
           Ordered(list), ~err /\ SizeKnown => ExactList(list)
    PROVE  PartialInOrder' /\ ExactWhenSteady'
<1>1. out'.hosts = list /\ out'.err = err
  BY DEF Return
<1>2. PartialInOrder'
  BY <1>1 DEF PartialInOrder, Ordered
<1>3. ASSUME ~out'.err, SizeKnown' PROVE Exact'
  <2>1. ExactList(list)
    BY <1>1, <1>3, FleetKept
  <2> QED BY <1>1, <2>1, FleetKept DEF ExactList, Exact, Ordered, ToSet
<1> QED BY <1>2, <1>3 DEF ExactWhenSteady

(* The pages GetHostsFactsFiltered asks for reach as far as the limit. *)
LEMMA PagesReach ==
    ASSUME TypeOK, SizeKnown, conf.call = "facts", NEW pages,
           LET resp == GetHosts(1, AskedPerPage)
           IN pages = pageCount(expectedHosts(resp), EffPerPage(resp))
    PROVE  /\ pages \in Nat
           /\ pages > 1 => Ends(pages) >= Capped(Len(Listed))
           /\ ~(pages > 1) => Ends(1) >= Capped(Len(Listed))
<1> DEFINE resp == GetHosts(1, AskedPerPage)
           n == expectedHosts(resp)
           N == Len(Listed)
<1>1. /\ AskedPerPage \in Nat /\ AskedPerPage >= 1
      /\ Size \in Nat /\ Size >= 1 /\ N \in Nat /\ conf.serverMax \in Nat
      /\ conf \in Config
  BY CallNumbers
<1>2. n \in Nat /\ n >= N
  BY <1>1, FirstResponse
<1>3. /\ Capped(n) \in Nat /\ Capped(N) \in Nat
      /\ Capped(N) <= Capped(n) /\ Capped(N) <= N /\ Capped(n) <= n
  BY <1>1, <1>2, CallNumbers
<1>4. EffPerPage(resp) = Size
  <2>1. resp.perPage = IF conf.echoes THEN Size ELSE 0
    BY DEF GetHosts, Size
  <2>2. CASE conf.echoes
    BY <1>1, <2>1, <2>2 DEF EffPerPage
  <2>3. CASE ~conf.echoes
    <3>1. AskedPerPage <= conf.serverMax
      BY <2>3 DEF SizeKnown
    <3>2. Size = AskedPerPage
      BY <1>1, <3>1 DEF Size, Lesser
    <3> QED BY <2>1, <2>3, <3>2 DEF EffPerPage
  <2> QED BY <2>2, <2>3
<1>5. pages = pageCount(n, Size)
  BY <1>4
<1> HIDE DEF resp, n, N
<1>6. CASE n = 0
  <2>1. pages = 0 /\ N = 0 /\ Capped(N) = 0
    BY <1>1, <1>2, <1>3, <1>5, <1>6 DEF pageCount
  <2>2. Ends(1) \in Nat
    BY Pages
  <2> QED BY <2>1, <2>2 DEF N
<1>7. CASE n > 0
  <2>1. pages = (Capped(n) + Size - 1) \div Size
    BY <1>1, <1>2, <1>5, <1>7 DEF pageCount
  <2>2. pages \in Nat /\ pages * Size >= Capped(n)
    BY <1>1, <1>3, <2>1, RoundedUp
  <2>3. CASE pages > 1
    <3>1. Ends(pages) = IF pages * Size < N THEN pages * Size ELSE N
      BY DEF Ends, Lesser, N
    <3>2. pages * Size \in Nat
      BY <1>1, <2>2
    <3>3. Ends(pages) >= Capped(N)
      BY <1>1, <1>3, <2>2, <3>1, <3>2
    <3> QED BY <2>2, <2>3, <3>3 DEF N
  <2>4. CASE ~(pages > 1)
    <3>1. Ends(1) = IF Size < N THEN Size ELSE N
      BY <1>1 DEF Ends, Lesser, N
    <3>2. pages = 0 \/ pages = 1
      BY <2>2, <2>4
    <3>3. Size >= Capped(n)
      BY <1>1, <1>3, <2>2, <3>2
    <3>4. Ends(1) >= Capped(N)
      BY <1>1, <1>3, <3>1, <3>3
    <3> QED BY <2>2, <2>4, <3>4 DEF N
  <2> QED BY <2>3, <2>4
<1> QED BY <1>2, <1>6, <1>7

(* The keys of a complete set of facts. *)
LEMMA FactKeys ==
    ASSUME ShapeInv, pc = "facts", FactsInv, Fan!AllArrived, ~AnyFailed
    PROVE  Keys = ToSet(hosts) \ Silent
<1>1. DOMAIN worker = DOMAIN hosts
  <2>1. DOMAIN worker = 1..Len(hosts) /\ hosts \in Seq(Hosts)
    BY FanFinite DEF ShapeInv, TypeOK
  <2> QED BY <2>1
<1>2. ASSUME NEW i \in DOMAIN worker PROVE Part(i) = FactsOf(hosts[i])
  <2>1. HasAnswer(i)
    BY AllAnswered DEF ShapeInv
  <2>2. worker[i].resp # Failed
    BY DEF AnyFailed, Fan!Results
  <2> QED BY <2>1, <2>2 DEF FactsInv, Part, Fan!Results
<1>3. \A i \in DOMAIN worker :
          ToSet(Part(i)) = IF hosts[i] \in Silent THEN {} ELSE {hosts[i]}
  <2>1. ToSet(<<>>) = {} /\ \A h : ToSet(<<h>>) = {h}
    BY DEF ToSet
  <2> QED BY <1>2, <2>1 DEF FactsOf
<1> QED BY <1>1, <1>3 DEF Keys, ToSet

(* Every step keeps the invariant. *)
LEMMA CallStep ==
    ASSUME CallInv, [Next]_vars
    PROVE  CallInv'
<1>t. /\ ShapeInv /\ TypeOK /\ FanInv
      /\ calm => /\ pc = "list" => ListInv
                 /\ pc = "facts" => FactsInv
                 /\ pc = "idle" => PartialInOrder /\ ExactWhenSteady
  BY DEF CallInv, ShapeInv
<1>s. ShapeInv'
  BY <1>t, ShapeStep
<1>q. ASSUME pc' = "idle", PartialInOrder', ExactWhenSteady' PROVE CallInv'
  BY <1>s, <1>q DEF CallInv
<1>l. ASSUME pc' = "list", calm' => ListInv' PROVE CallInv'
  BY <1>s, <1>l DEF CallInv
<1>f. ASSUME pc' = "facts", calm' => FactsInv' PROVE CallInv'
  BY <1>s, <1>f DEF CallInv
<1>e. Ordered(<<>>)
  BY DEF Ordered
<1>1. CASE UNCHANGED vars
  <2>1. UNCHANGED <<conf, fleet, calm, pc, expected, hosts, out, worker>>
    BY <1>1 DEF vars, foreman, callVars, fanVars
  <2>2. ListInv => ListInv'
    BY <2>1, FleetKept DEF ListInv, HasAnswer
  <2>3. FactsInv => FactsInv'
    BY <2>1, FleetKept DEF FactsInv, HasAnswer, FactsOf
  <2>4. PartialInOrder => PartialInOrder'
    BY <2>1 DEF PartialInOrder, Ordered
  <2>5. ExactWhenSteady => ExactWhenSteady'
    BY <2>1, FleetKept DEF ExactWhenSteady, Exact, Ordered, ToSet
  <2> QED BY <1>t, <1>s, <2>1, <2>2, <2>3, <2>4, <2>5 DEF CallInv
<1>2. CASE Begin
  BY <1>s, <1>2 DEF Begin, CallInv
<1>3. CASE FirstFails
  <2>1. Return(<<>>, TRUE) /\ UNCHANGED <<conf, fleet>>
    BY <1>3 DEF FirstFails, foreman
  <2>2. PartialInOrder' /\ ExactWhenSteady'
    BY <1>e, <2>1, Returning
  <2> QED BY <1>q, <2>1, <2>2 DEF Return
<1>4. CASE Probe
  <2> DEFINE resp == GetHosts(1, 1)
             n == expectedHosts(resp)
             pages == pageCount(n, AskedPerPage)
  <2>1. n \in Nat /\ n >= Len(Listed) /\ pages \in Nat
    BY <1>t, FirstResponse
  <2>2. /\ UNCHANGED <<conf, fleet, hosts>> /\ conf.call = "hosts"
        /\ expected' = n
        /\ IF pages = 0
           THEN Return(<<>>, FALSE) /\ UNCHANGED fanVars
           ELSE pc' = "list" /\ Fan!Start(pages) /\ UNCHANGED out
    BY <1>4 DEF Probe, foreman
  <2>3. pages = 0 => n = 0
    <3> SUFFICES ASSUME n > 0 PROVE pages >= 1
      BY <2>1
    <3>1. AskedPerPage \in Nat /\ AskedPerPage >= 1 /\ Capped(n) \in Nat
      BY <1>t, <2>1, CallNumbers
    <3>2. Capped(n) > 0
      BY <1>t, <2>1, CallNumbers DEF Capped, Config
    <3>3. (Capped(n) + AskedPerPage - 1) \div AskedPerPage >= 1
      BY <3>1, <3>2, RoundedUp
    <3> HIDE DEF n
    <3> QED BY <2>1, <3>1, <3>3 DEF pageCount
  <2> HIDE DEF n, pages, resp
  <2>4. CASE pages = 0
    <3>1. Len(Listed) = 0 /\ 0 \in 0..Len(Listed) /\ Capped(Len(Listed)) <= 0
      BY <1>t, <2>1, <2>3, <2>4, CallNumbers
    <3>2. ToSet(<<>>) = {} /\ ToSet(SubSeq(Listed, 1, 0)) = {}
      BY DEF ToSet
    <3>3. ExactList(<<>>)
      <4>1. /\ Capped(Len(Listed)) \in Nat
            /\ ToSet(<<>>) = Wanted \cap ToSet(SubSeq(Listed, 1, 0))
        BY <1>t, <3>1, <3>2, CallNumbers
      <4> QED BY <1>t, <1>e, <3>1, <4>1, NamesFirst
    <3>4. PartialInOrder' /\ ExactWhenSteady'
      BY <1>e, <2>2, <2>4, <3>3, Returning
    <3> QED BY <1>q, <2>2, <2>4, <3>4 DEF Return
  <2>5. CASE pages # 0
    <3>1. pc' = "list" /\ \A i \in DOMAIN worker' : ~HasAnswer(i)'
      BY <2>1, <2>2, <2>5, FanStarts
    <3>2. ListInv'
      BY <2>1, <2>2, <3>1, FleetKept DEF ListInv
    <3> QED BY <1>l, <3>1, <3>2
  <2> QED BY <2>4, <2>5
<1>5. CASE FirstPage
  <2> DEFINE resp == GetHosts(1, AskedPerPage)
             n == expectedHosts(resp)
             pages == pageCount(n, EffPerPage(resp))
  <2>0. AskedPerPage \in Nat /\ AskedPerPage >= 1
    BY <1>t, CallNumbers
  <2>1. n \in Nat /\ n >= Len(Listed) /\ pages \in Nat
    BY <1>t, <2>0, FirstResponse
  <2>2. /\ resp.results = PageRows(1) /\ PageRows(1) \in Seq(Hosts)
        /\ Ends(0) = 0 /\ Ends(1) \in Nat /\ Ends(1) <= Len(Listed)
    BY <1>t, Pages
  <2>3. /\ UNCHANGED <<conf, fleet>> /\ conf.call = "facts"
        /\ expected' = n /\ hosts' = resp.results
        /\ IF pages > 1
           THEN pc' = "list" /\ Fan!Start(pages - 1)
           ELSE pc' = "facts" /\ Fan!Start(Len(resp.results))
    BY <1>5 DEF FirstPage, foreman
  <2>4. SizeKnown => /\ pages > 1 => Ends(pages) >= Capped(Len(Listed))
                     /\ ~(pages > 1) => Ends(1) >= Capped(Len(Listed))
    BY <1>t, <2>3, PagesReach
  <2> HIDE DEF n, pages, resp
  <2>5. CASE pages > 1
    <3>1. pages - 1 \in Nat /\ (pages - 1) + 1 = pages
      BY <2>1, <2>5
    <3>2. /\ pc' = "list" /\ Len(worker') = pages - 1
          /\ \A i \in DOMAIN worker' : ~HasAnswer(i)'
      BY <2>3, <2>5, <3>1, FanStarts
    <3>3. expected' >= Len(Listed) /\ hosts' = PageRows(1)
      BY <2>1, <2>2, <2>3
    <3>4. /\ Listed' = Listed /\ PageRows(1)' = PageRows(1)
          /\ (SizeKnown' <=> SizeKnown)
          /\ Capped(Len(Listed))' = Capped(Len(Listed))
      BY <2>3, FleetKept DEF Capped
    <3>5. Ends(Len(worker) + 1)' = Ends(pages)
      <4>1. Len(worker') + 1 = pages
        BY <3>1, <3>2
      <4>2. Size' = Size
        BY <2>3 DEF Size, AskedPerPage, Capped, Lesser
      <4> QED BY <3>4, <4>1, <4>2 DEF Ends
    <3>6. ListInv'
      BY <2>4, <2>5, <3>2, <3>3, <3>4, <3>5 DEF ListInv
    <3> QED BY <1>l, <3>2, <3>6
  <2>6. CASE ~(pages > 1)
    <3>1. Len(resp.results) \in Nat
      BY <2>2
    <3>2. pc' = "facts" /\ \A i \in DOMAIN worker' : ~HasAnswer(i)'
      BY <2>3, <2>6, <3>1, FanStarts
    <3>3. hosts' = SubSeq(Listed, 1, Ends(1)) /\ Ends(1) \in 0..Len(Listed)
      <4>1. PageRows(1) = SubSeq(Listed, Ends(1 - 1) + 1, Ends(1))
        BY DEF PageRows
      <4>2. Ends(1 - 1) + 1 = 1
        BY <2>2
      <4>3. Len(Listed) \in Nat
        BY <1>t, CallNumbers
      <4> QED BY <2>2, <2>3, <4>1, <4>2, <4>3
    <3>4. FactsInv'
      BY <2>3, <2>4, <2>6, <3>2, <3>3, FleetKept DEF FactsInv
    <3> QED BY <1>f, <3>2, <3>4
  <2> QED BY <2>5, <2>6
<1>6. CASE ReturnHosts
  <2> DEFINE err == AnyFailed \/ ShortRead(Len(Joined))
  <2>1. /\ Return(Joined, err) /\ UNCHANGED <<conf, fleet, calm>>
        /\ conf.call = "hosts" /\ pc = "list" /\ Fan!AllArrived
    BY <1>6 DEF ReturnHosts, foreman
  <2>2. CASE calm
    <3>1. ListInv
      BY <1>t, <2>1, <2>2
    <3>2. /\ Ordered(Joined)
          /\ ~AnyFailed =>
                Joined = SubSeq(Listed, Ends(0) + 1, Ends(Len(worker) + 0))
      BY <1>t, <2>1, <3>1, JoinedPages
    <3>3. ASSUME ~err PROVE ExactList(Joined)
      <4> DEFINE k == Ends(Len(worker) + 0)
      <4>1. Joined = SubSeq(Listed, 1, k) /\ k \in 0..Len(Listed)
        <5>1. Len(worker) \in Nat /\ Len(Listed) \in Nat
          BY <1>t, FanFinite, CallNumbers
        <5>2. /\ Len(worker) + 1 \in Nat /\ Len(worker) + 1 >= 1
              /\ (Len(worker) + 1) - 1 = Len(worker) + 0
          BY <5>1
        <5>3. /\ Ends(0) = 0 /\ Ends((Len(worker) + 1) - 1) \in Nat
              /\ Ends((Len(worker) + 1) - 1) <= Ends(Len(worker) + 1)
              /\ Ends(Len(worker) + 1) <= Len(Listed)
              /\ Ends(Len(worker) + 1) \in Nat
          BY <1>t, <5>2, Pages
        <5>4. k \in Nat /\ k <= Ends(Len(worker) + 1)
          BY <5>2, <5>3
        <5>5. k \in 0..Len(Listed)
          BY <5>1, <5>3, <5>4
        <5> HIDE DEF k
        <5>6. Joined = SubSeq(Listed, Ends(0) + 1, k)
          BY <3>2, <3>3 DEF k
        <5> QED BY <5>3, <5>5, <5>6
      <4> HIDE DEF k
      <4>2. Len(Joined) = k
        BY <1>t, <4>1, FirstHosts
      <4>3. k >= Capped(Len(Listed))
        <5>1. ~(k < Capped(expected))
          BY <3>3, <4>2 DEF ShortRead
        <5>2. expected \in Nat /\ expected >= Len(Listed)
          BY <1>t, <3>1 DEF TypeOK, ListInv
        <5>3. /\ Capped(expected) \in Nat /\ Capped(Len(Listed)) \in Nat
              /\ Capped(Len(Listed)) <= Capped(expected) /\ k \in Nat
          BY <1>t, <4>1, <5>2, CallNumbers
        <5> QED BY <5>1, <5>3
      <4>4. ToSet(Joined) = Wanted \cap ToSet(SubSeq(Listed, 1, k))
        BY <1>t, <2>1, <4>1, FirstHosts DEF Wanted
      <4> QED BY <1>t, <3>2, <4>1, <4>3, <4>4, NamesFirst
    <3>4. PartialInOrder' /\ ExactWhenSteady'
      <4>1. err \in BOOLEAN
        OBVIOUS
      <4> HIDE DEF err
      <4> QED BY <2>1, <3>2, <3>3, <4>1, Returning
    <3> QED BY <1>q, <2>1, <3>4 DEF Return
  <2>3. CASE ~calm
    BY <1>s, <2>1, <2>3 DEF Return, CallInv
  <2> QED BY <1>t, <2>2, <2>3 DEF TypeOK
<1>7. CASE PagesFailed
  <2>1. Return(<<>>, TRUE) /\ UNCHANGED <<conf, fleet>>
    BY <1>7 DEF PagesFailed, foreman
  <2>2. PartialInOrder' /\ ExactWhenSteady'
    BY <1>e, <2>1, Returning
  <2> QED BY <1>q, <2>1, <2>2 DEF Return
<1>8. CASE StartFacts
  <2>1. /\ UNCHANGED <<conf, fleet, calm>> /\ pc' = "facts"
        /\ conf.call = "facts" /\ pc = "list" /\ Fan!AllArrived /\ ~AnyFailed
        /\ hosts' = hosts \o Joined /\ Fan!Start(Len(hosts \o Joined))
    BY <1>8 DEF StartFacts, foreman
  <2>2. CASE calm
    <3> DEFINE k == Ends(Len(worker) + 1)
    <3>1. ListInv
      BY <1>t, <2>1, <2>2
    <3>2. Joined = SubSeq(Listed, Ends(1) + 1, k)
      BY <1>t, <2>1, <3>1, JoinedPages
    <3>3. hosts = SubSeq(Listed, Ends(0) + 1, Ends(1))
      <4>1. hosts = SubSeq(Listed, Ends(1 - 1) + 1, Ends(1))
        BY <2>1, <3>1 DEF ListInv, PageRows
      <4> QED BY <4>1
    <3>4. /\ Ends(0) = 0 /\ Ends(1) \in Nat /\ k \in Nat
          /\ Ends(1) <= k /\ k <= Len(Listed)
      <4>0. Len(worker) \in Nat
        BY <1>t, FanFinite
      <4>1. /\ Ends(0) = 0 /\ Ends(1) \in Nat /\ k \in Nat /\ k <= Len(Listed)
        BY <1>t, <4>0, Pages
      <4>2. Ends(1) <= k
        <5>1. /\ Size \in Nat /\ Size >= 1 /\ Len(Listed) \in Nat
          BY <1>t, CallNumbers
        <5>2. 1 * Size <= (Len(worker) + 1) * Size
              /\ (Len(worker) + 1) * Size \in Nat /\ 1 * Size \in Nat
          BY <4>0, <5>1
        <5> QED BY <5>1, <5>2 DEF Ends, Lesser
      <4> QED BY <4>1, <4>2
    <3>5. SizeKnown => k >= Capped(Len(Listed))
      BY <2>1, <3>1 DEF ListInv
    <3> HIDE DEF k
    <3>6. hosts' = SubSeq(Listed, 1, k) /\ k \in 0..Len(Listed)
      <4>1. Listed \in Seq(Hosts) /\ Len(Listed) \in Nat
        BY <1>t, CallNumbers
      <4>2. SubSeq(Listed, 0 + 1, Ends(1)) \o SubSeq(Listed, Ends(1) + 1, k)
              = SubSeq(Listed, 0 + 1, k)
        <5>1. 0 \in Nat /\ 0 <= Ends(1)
          BY <3>4
        <5>2. Ends(1) \in Nat /\ k \in Nat /\ Ends(1) <= k /\ k <= Len(Listed)
          BY <3>4
        <5> QED BY ONLY <4>1, <5>1, <5>2, SlicesJoined
      <4>3. 0 + 1 = 1 /\ Ends(0) + 1 = 1
        BY <3>4
      <4>4. hosts' = SubSeq(Listed, 1, k)
        BY <2>1, <3>2, <3>3, <4>2, <4>3
      <4> QED BY <3>4, <4>1, <4>4
    <3>7. \A i \in DOMAIN worker' : ~HasAnswer(i)'
      <4>1. Joined \in Seq(Hosts) /\ hosts \in Seq(Hosts)
        BY <1>t, JoinedType DEF TypeOK
      <4>2. Len(hosts \o Joined) \in Nat
        BY <4>1
      <4> QED BY <2>1, <4>2, FanStarts
    <3>8. FactsInv'
      BY <2>1, <3>5, <3>6, <3>7, FleetKept DEF FactsInv
    <3> QED BY <1>f, <2>1, <3>8
  <2>3. CASE ~calm
    BY <1>f, <2>1, <2>3
  <2> QED BY <1>t, <2>2, <2>3 DEF TypeOK
<1>9. CASE ReturnFacts
  <2>1. /\ Return(ListOf[Keys], AnyFailed) /\ UNCHANGED <<conf, fleet, calm>>
        /\ pc = "facts" /\ Fan!AllArrived
    BY <1>9 DEF ReturnFacts, foreman, Keys
  <2>2. CASE calm
    <3>1. FactsInv /\ conf.call = "facts"
      BY <1>t, <2>1, <2>2 DEF ShapeInv
    <3>2. Ordered(ListOf[Keys]) /\ ToSet(ListOf[Keys]) = Keys
      BY <1>t, KeysType, Listing
    <3>3. ASSUME ~AnyFailed, SizeKnown PROVE ExactList(ListOf[Keys])
      <4>1. PICK k \in 0..Len(Listed) : /\ hosts = SubSeq(Listed, 1, k)
                                        /\ k >= Capped(Len(Listed))
        BY <3>1, <3>3 DEF FactsInv
      <4>2. Keys = ToSet(hosts) \ Silent
        BY <1>t, <2>1, <3>1, <3>3, FactKeys
      <4>3. ToSet(hosts) \subseteq fleet
        BY <1>t, <4>1, FirstHosts
      <4>4. ToSet(ListOf[Keys]) = Wanted \cap ToSet(SubSeq(Listed, 1, k))
        BY <3>1, <3>2, <4>1, <4>2, <4>3 DEF Wanted
      <4> QED BY <1>t, <3>2, <4>1, <4>4, NamesFirst
    <3>4. PartialInOrder' /\ ExactWhenSteady'
      <4>1. AnyFailed \in BOOLEAN
        BY DEF AnyFailed
      <4> QED BY <2>1, <3>2, <3>3, <4>1, Returning
    <3> QED BY <1>q, <2>1, <3>4 DEF Return
  <2>3. CASE ~calm
    BY <1>s, <2>1, <2>3 DEF Return, CallInv
  <2> QED BY <1>t, <2>2, <2>3 DEF TypeOK
<1>10. ASSUME NEW i \in DOMAIN worker, Goroutine(i) PROVE CallInv'
  <2>1. UNCHANGED <<conf, foreman, callVars>>
    BY <1>10 DEF Goroutine, FetchPage, FetchFacts, Work
  <2>2. /\ UNCHANGED <<conf, fleet, calm, pc, expected, hosts, out>>
    BY <2>1 DEF foreman, callVars
  <2>i. PartialInOrder /\ ExactWhenSteady => PartialInOrder' /\ ExactWhenSteady'
    BY <2>2, FleetKept
    DEF PartialInOrder, ExactWhenSteady, Exact, Ordered, ToSet
  \* New answers are what was asked for.
  <2>3. ASSUME DOMAIN worker' = DOMAIN worker, Len(worker') = Len(worker),
               \A j \in DOMAIN worker :
                   HasAnswer(j)' =>
                      \/ HasAnswer(j) /\ worker'[j].resp = worker[j].resp
                      \/ worker'[j].resp = Failed
                      \/ pc = "list" /\ worker'[j].resp = PageRows(PageOf(j))
                      \/ pc = "facts" /\ worker'[j].resp = FactsOf(hosts[j])
        PROVE  CallInv'
    <3>1. pc = "list" /\ ListInv => ListInv'
      BY <2>2, <2>3, FleetKept DEF ListInv
    <3>2. pc = "facts" /\ FactsInv => FactsInv'
      <4>1. \A j : FactsOf(hosts[j])' = FactsOf(hosts[j])
        BY <2>2 DEF FactsOf
      <4> QED BY <2>2, <2>3, <4>1, FleetKept DEF FactsInv
    <3> QED BY <1>t, <1>s, <2>2, <2>i, <3>1, <3>2 DEF CallInv
  <2>4. CASE Work(i)
    <3>1. /\ DOMAIN worker' = DOMAIN worker /\ Len(worker') = Len(worker)
          /\ \A j \in DOMAIN worker : /\ worker'[j].resp = worker[j].resp
                                      /\ HasAnswer(j)' => HasAnswer(j)
      BY <1>t, <2>4, FanWorks DEF Work, TypeOK
    <3> QED BY <2>3, <3>1
  <2>5. ASSUME NEW resp \in Answers, Fan!Fetched(i, resp),
               \/ resp = Failed
               \/ pc = "list" /\ resp = PageRows(PageOf(i))
               \/ pc = "facts" /\ resp = FactsOf(hosts[i])
        PROVE  CallInv'
    <3>1. /\ DOMAIN worker' = DOMAIN worker /\ Len(worker') = Len(worker)
          /\ worker'[i].resp = resp
          /\ \A j \in DOMAIN worker : j # i => worker'[j] = worker[j]
      BY <1>t, <2>5, FanFetches
    <3>2. \A j \in DOMAIN worker :
              j # i => (HasAnswer(j)' => HasAnswer(j)
                                           /\ worker'[j].resp = worker[j].resp)
      BY <3>1 DEF HasAnswer
    <3> QED BY <2>3, <2>5, <3>1, <3>2
  <2>6. Failed \in Answers
    BY DEF Answers
  <2>7. CASE FetchPage(i)
    <3>1. PageOf(i) \in Nat /\ PageOf(i) >= 1
      BY <1>t, FanFinite DEF PageOf
    <3>2. /\ GetHosts(PageOf(i), AskedPerPage).results = PageRows(PageOf(i))
          /\ PageRows(PageOf(i)) \in Answers
      BY <1>t, <3>1, Pages DEF Answers
    <3> QED BY <2>5, <2>6, <2>7, <3>2 DEF FetchPage
  <2>8. CASE FetchFacts(i)
    <3>1. hosts[i] \in Hosts
      <4>1. pc = "facts" /\ hosts \in Seq(Hosts) /\ Len(worker) = Len(hosts)
        BY <1>t, <2>8 DEF FetchFacts, TypeOK, ShapeInv
      <4>2. DOMAIN worker = 1..Len(hosts)
        BY <1>t, <4>1, FanFinite
      <4> QED BY <4>1, <4>2
    <3>2. FactsOf(hosts[i]) \in Answers
      BY <3>1 DEF FactsOf, Answers
    <3> QED BY <2>5, <2>6, <2>8, <3>2 DEF FetchFacts, FactsOf
  <2> QED BY <1>10, <2>4, <2>7, <2>8 DEF Goroutine
<1>11. CASE Churn
  <2>1. calm' = FALSE
    BY <1>11 DEF Churn, Change
  <2> QED BY <1>s, <2>1 DEF CallInv
<1> QED BY <1>1, <1>2, <1>3, <1>4, <1>5, <1>6, <1>7, <1>8, <1>9, <1>10, <1>11
        DEF Next, Client

(* The invariant holds throughout. *)
THEOREM CallInvariant == Spec => []CallInv
<1>1. Init => CallInv
  BY ShapeStart DEF Init, CallInv
<1>2. CallInv /\ [Next]_vars => CallInv'
  BY CallStep
<1> QED BY <1>1, <1>2, PTL DEF Spec

(* For every fleet that stands still during a call, every page size, clamp,
   limit and order of answers, a list returned without an error is exact: no
   wanted host missing, none twice, in Foreman's order (GetHostsFiltered and
   GetHostsFactsFiltered). *)
THEOREM ListsExact == Spec => []ExactWhenSteady
<1>1. CallInv => ExactWhenSteady
  BY DEF CallInv, ExactWhenSteady
<1> QED BY <1>1, CallInvariant, PTL

(* Whatever pages or hosts fail, what is returned from a fleet that stands
   still is in order and names no host twice (the sort and the loops over the
   results in both calls). *)
THEOREM PartialListsOrdered == Spec => []PartialInOrder
<1>1. CallInv => PartialInOrder
  BY DEF CallInv, PartialInOrder
<1> QED BY <1>1, CallInvariant, PTL
-----------------------------------------------------------------------------
(* The collectors' view of a call. *)

(* While fleet and answer stay, so does what the collectors see of it. *)
LEMMA AnswerKept ==
    ASSUME UNCHANGED <<conf, fleet, out>>
    PROVE  Returned' = Returned
<1>1. Exact' <=> Exact
  BY FleetKept DEF Exact
<1> QED BY <1>1 DEF Returned

(* A call that returns from a fleet that stood still says truthfully whether
   its list is all there is. *)
LEMMA AnswerHonest ==
    ASSUME TypeOK', ExactWhenSteady', SizeKnown', pc' = "idle", calm'
    PROVE  Returned' \in Caller!Answers
<1>1. out'.err \in BOOLEAN
  BY DEF TypeOK
<1>2. CASE out'.err
  <2>1. \/ Returned' = [data |-> "none", err |-> TRUE]
        \/ Returned' = [data |-> "some", err |-> TRUE]
    BY <1>1, <1>2 DEF Returned
  <2> QED BY <2>1 DEF Caller!Answers
<1>3. CASE ~out'.err
  <2>1. Exact'
    BY <1>3 DEF ExactWhenSteady
  <2>2. \/ Returned' = [data |-> "none", err |-> FALSE]
        \/ Returned' = [data |-> "whole", err |-> FALSE]
    BY <1>1, <1>3, <2>1 DEF Returned
  <2> QED BY <2>2 DEF Caller!Answers
<1> QED BY <1>1, <1>2, <1>3

(* Every step of the client or of Foreman is one the collectors may see, or
   none at all. *)
LEMMA StepImplements ==
    ASSUME CallInv, CallInv', SizeKnown', [Next]_vars
    PROVE  [Caller!ClientNext]_(Caller!clientVars)
<1> USE DEF Caller!clientVars, Caller!Spoilt
<1>t. calm \in BOOLEAN /\ calm' \in BOOLEAN
  BY DEF CallInv, ShapeInv, TypeOK
<1>k. ASSUME UNCHANGED <<conf, foreman, callVars>>
      PROVE  UNCHANGED Caller!clientVars
  BY <1>k, AnswerKept DEF foreman, callVars
<1>r. ASSUME pc # "idle", pc' = "idle", UNCHANGED <<conf, fleet, calm>>
      PROVE  Caller!Return
  <2>1. CASE calm
    <3>1. Returned' \in Caller!Answers
      <4>1. TypeOK' /\ ExactWhenSteady' /\ calm'
        BY <1>r, <2>1 DEF CallInv, ShapeInv
      <4> QED BY <1>r, <4>1, AnswerHonest
    <3> QED BY <1>r, <2>1, <3>1 DEF Caller!Return
  <2>2. CASE ~calm
    BY <1>r, <2>2 DEF Caller!Return
  <2> QED BY <2>1, <2>2
<1>s. ASSUME pc # "idle", pc' # "idle", UNCHANGED calm
      PROVE  UNCHANGED Caller!clientVars
  BY <1>s
<1>1. CASE UNCHANGED vars
  BY <1>1, <1>k DEF vars
<1>2. CASE Begin
  BY <1>2, <1>t DEF Begin, Caller!Call, Caller!ClientNext
<1>3. CASE Client
  <2>1. UNCHANGED <<conf, fleet, calm>> /\ pc # "idle"
    BY <1>3 DEF Client, FirstFails, Probe, FirstPage, ReturnHosts, PagesFailed,
                StartFacts, ReturnFacts, foreman
  <2> QED BY <2>1, <1>r, <1>s DEF Caller!ClientNext
<1>4. CASE \E i \in DOMAIN worker : Goroutine(i)
  BY <1>4, <1>k DEF Goroutine, FetchPage, FetchFacts, Work
<1>5. CASE Churn
  <2>1. calm' = FALSE /\ UNCHANGED pc
    BY <1>5 DEF Churn, Change, callVars
  <2> QED BY <2>1 DEF Caller!Disturb, Caller!ClientNext
<1> QED BY <1>1, <1>2, <1>3, <1>4, <1>5 DEF Next

(* Both calls implement the safety of what the collectors rely on: when Foreman
   applies the page size it is asked for or says otherwise, an answer without an
   error from a fleet that stood still is all there is. *)
THEOREM ListsImplementClient == Spec /\ []SizeKnown => Caller!ClientSafety
<1>1. Init => Caller!ClientInit
  BY DEF Init, Caller!ClientInit, Caller!Spoilt
<1>2. CallInv /\ CallInv' /\ SizeKnown' /\ [Next]_vars
        => [Caller!ClientNext]_(Caller!clientVars)
  BY StepImplements
<1> QED BY <1>1, <1>2, CallInvariant, PTL DEF Spec, Caller!ClientSafety

=============================================================================
