-------------------------- MODULE FactValuesProofs --------------------------
(***************************************************************************)
(* getHostsFactsBulk runs splitHosts and touches none of its variables     *)
(* afterwards, so what is proved of splitHosts holds during the whole call.*)
(* Then the pages: FactInv says how far each goroutine has come in its     *)
(* rows.  Then the counters: AccountInv balances them against the hosts of *)
(* the batches merged so far.                                              *)
(***************************************************************************)
EXTENDS FactValues, SplitHostsProofs, FiniteSetTheorems

(* Every step of the call is a step of splitHosts or none of it. *)
LEMMA SplitSteps == [Next]_vars => [SplitNext]_splitVars
<1> SUFFICES ASSUME [Next]_vars PROVE [SplitNext]_splitVars
  OBVIOUS
<1>1. CASE Split
  BY <1>1 DEF Split
<1>2. CASE Start \/ Return
  BY <1>2 DEF Start, Return
<1>3. CASE \E b \in DOMAIN batch : Goroutine(b)
  <2>1. PICK b \in DOMAIN batch : Goroutine(b)
    BY <1>3
  <2>2. CASE Acquire(b) \/ PageFails(b) \/ PageArrives(b)
    BY <2>2 DEF Acquire, PageFails, PageArrives
  <2>3. CASE MergeOk(b) \/ MergeFailed(b) \/ MergeTruncated(b)
    BY <2>3 DEF MergeOk, MergeFailed, MergeTruncated, Done
  <2> QED
    BY <2>1, <2>2, <2>3 DEF Goroutine
<1>4. CASE UNCHANGED vars
  BY <1>4 DEF vars
<1> QED
  BY <1>1, <1>2, <1>3, <1>4 DEF Next, Caller

(* A call of getHostsFactsBulk is, as far as the batches go, an execution of
   splitHosts: the goroutines change none of its variables. *)
THEOREM CallSplits == Spec => SplitSpec
<1>1. Init => SplitInit
  BY DEF Init
<1> QED
  BY <1>1, SplitSteps, PTL DEF Spec, SplitSpec

(* Every host ends up in exactly one batch of the call, in order: no host is
   asked for twice and none is left out (splitHosts). *)
THEOREM CallAsksEveryHostOnce == Spec => []EveryHostOnce
<1> QED
  BY CallSplits, HostsPartitioned, PTL

(* Every batch the call sends respects the batch size and, unless it is a
   single host, the URL length (splitHosts). *)
THEOREM CallBatchesFit == Spec => []BatchFits
<1> QED
  BY CallSplits, BatchesFit, PTL

(* A batch of the call is shorter than it might be only because twice as many
   hosts did not fit (the halving in splitHosts). *)
THEOREM CallNotOverSplit == Spec => []NotOverSplit
<1> QED
  BY CallSplits, HalvedOnlyWhenNeeded, PTL

-----------------------------------------------------------------------------
(* Foreman's rows. *)

RowSet(S) == UNION {{[host |-> h, fact |-> f] : f \in Facts(h)} : h \in S}

(* The image of a finite set under a function is finite. *)
LEMMA FiniteImage ==
    ASSUME NEW S, NEW f, S \subseteq DOMAIN f, IsFiniteSet(S)
    PROVE  IsFiniteSet({f[x] : x \in S})
<1> DEFINE T == {f[x] : x \in S}
           g == [x \in S |-> f[x]]
<1>1. g \in Surjection(S, T)
  BY DEF Surjection
<1> HIDE DEF T
<1> QED BY <1>1, FS_Surjection DEF T

(* The rows about finitely many hosts are finitely many. *)
LEMMA RowsFinite ==
    ASSUME NEW S \in SUBSET Fleet, IsFiniteSet(S)
    PROVE  IsFiniteSet(RowSet(S))
<1> DEFINE About(h) == {[host |-> h, fact |-> f] : f \in Facts(h)}
           about == [h \in S |-> About(h)]
<1>1. ASSUME NEW h \in S PROVE IsFiniteSet(About(h))
  <2>1. FactCount[h] \in Nat
    BY FactAssumption
  <2>2. IsFiniteSet(1..FactCount[h])
    BY <2>1, FS_Interval
  <2> DEFINE row == [f \in 1..FactCount[h] |-> [host |-> h, fact |-> f]]
  <2>3. IsFiniteSet({row[f] : f \in 1..FactCount[h]})
    BY <2>2, FiniteImage
  <2>4. About(h) = {row[f] : f \in 1..FactCount[h]}
    BY DEF Facts
  <2> QED BY <2>3, <2>4
<1>2. IsFiniteSet({about[h] : h \in S})
  BY FiniteImage
<1>3. {about[h] : h \in S} = {About(h) : h \in S}
  OBVIOUS
<1>4. \A T \in {About(h) : h \in S} : IsFiniteSet(T)
  BY <1>1
<1>5. IsFiniteSet(UNION {About(h) : h \in S})
  BY <1>2, <1>3, <1>4, FS_UNION
<1> QED BY <1>5 DEF RowSet

(* Foreman lists each row of the hosts asked for. *)
LEMMA RowsListed ==
    ASSUME NEW S \in SUBSET Fleet, IsFiniteSet(S)
    PROVE  /\ RowsOf[S] \in Seq(RowSet(S))
           /\ Len(RowsOf[S]) \in Nat
           /\ DOMAIN RowsOf[S] = 1..Len(RowsOf[S])
           /\ ToSet(RowsOf[S]) = RowSet(S)
<1> DEFINE R == RowSet(S)
           n == Cardinality(R)
<1>1. RowsOf[S] = SetToSeq(R)
  BY DEF RowsOf, RowSet
<1>2. IsFiniteSet(R)
  BY RowsFinite
<1> HIDE DEF R
<1>3. n \in Nat /\ ExistsBijection(1..n, R)
  BY <1>2, FS_CardinalityType
<1>4. \E f \in [1..n -> R] : IsInjective(f)
  BY <1>3 DEF ExistsBijection, Bijection, Injection
<1> DEFINE s == SetToSeq(R)
<1>5. s \in [1..n -> R] /\ IsInjective(s)
  BY <1>4 DEF SetToSeq
<1> HIDE DEF s
<1>6. s \in Injection(1..n, R)
  BY <1>5 DEF Injection
<1>7. IsFiniteSet(1..n) /\ Cardinality(1..n) = n
  BY <1>3, FS_Interval
<1>8. s \in Surjection(1..n, R)
  BY <1>2, <1>6, <1>7, FS_Injection
<1>9. ToSet(s) = R
  BY <1>5, <1>8 DEF ToSet, Surjection
<1>10. s \in Seq(R) /\ Len(s) = n /\ DOMAIN s = 1..n
  BY <1>3, <1>5
<1> QED BY <1>1, <1>3, <1>9, <1>10 DEF s, R

-----------------------------------------------------------------------------
(* The batches of a call. *)

(* Any set of numbers has a least one. *)
LEMMA LeastNumber ==
    ASSUME NEW T \in SUBSET Nat, T # {}
    PROVE  \E x \in T : \A y \in T : x <= y
<1> DEFINE R == OpToRel(<, Nat)
<1>1. IsWellFoundedOn(R, Nat)
  BY NatLessThanWellFounded
<1>2. \A x, y \in Nat : x < y => <<x, y>> \in R
  BY DEF OpToRel
<1> HIDE DEF R
<1>3. PICK x \in T : \A y \in T : ~(<<y, x>> \in R)
  BY <1>1, WFMin
<1>4. \A y \in T : ~(y < x)
  BY <1>2, <1>3, Zenon
<1> QED BY <1>4

(* The bounds of a slice. *)
LEMMA SliceShape ==
    ASSUME SplitInv, NEW k \in DOMAIN slices
    PROVE  /\ k \in Nat /\ k >= 1 /\ k <= Len(slices)
           /\ slices[k].from \in Nat /\ slices[k].to \in Nat
           /\ slices[k].from < slices[k].to
           /\ IF k = 1 THEN slices[k].from = 0
              ELSE k - 1 \in DOMAIN slices /\ slices[k].from = slices[k - 1].to
<1>1. slices \in Seq(Slice) /\ Contiguous
  BY DEF SplitInv, SplitTypeOK
<1>2. slices[k] \in Slice /\ DOMAIN slices = 1..Len(slices)
  BY <1>1
<1> QED BY <1>1, <1>2 DEF Contiguous, Slice

(* A later slice begins where an earlier one has ended, or further on. *)
LEMMA SlicesOrdered ==
    ASSUME SplitInv, NEW k \in DOMAIN slices, NEW m \in DOMAIN slices, k < m
    PROVE  slices[k].to <= slices[m].from
<1> DEFINE T == {x \in DOMAIN slices : k < x /\ ~(slices[k].to <= slices[x].from)}
<1>1. SUFFICES ASSUME T # {} PROVE FALSE
  OBVIOUS
<1>2. T \in SUBSET Nat
  BY SliceShape
<1>3. PICK x \in T : \A y \in T : x <= y
  BY <1>1, <1>2, LeastNumber
<1>4. /\ x \in DOMAIN slices /\ x \in Nat /\ k \in Nat /\ k < x /\ k >= 1
      /\ x - 1 \in DOMAIN slices /\ slices[x].from = slices[x - 1].to
      /\ x - 1 \notin T
  BY <1>3, SliceShape
<1>5. CASE x - 1 = k
  BY <1>3, <1>4, <1>5, SliceShape
<1>6. CASE x - 1 # k
  <2>1. slices[k].to <= slices[x - 1].from
    BY <1>4, <1>6
  <2> QED BY <1>3, <1>4, <2>1, SliceShape
<1> QED BY <1>5, <1>6

(* No slice runs past the list. *)
LEMMA SliceInList ==
    ASSUME SplitInv, NEW k \in DOMAIN slices
    PROVE  slices[k].to <= Len(hosts)
<1>1. slices # <<>> /\ Len(slices) \in DOMAIN slices /\ Len(slices) \in Nat
  BY SliceShape DEF SplitInv, SplitTypeOK
<1>2. slices[Len(slices)].to <= Len(hosts) /\ Len(hosts) \in Nat
  BY <1>1 DEF SplitInv, SplitTypeOK, LoopInv, Covered
<1>3. CASE k = Len(slices)
  BY <1>2, <1>3
<1>4. CASE k # Len(slices)
  <2>1. k < Len(slices)
    BY <1>1, <1>4, SliceShape
  <2>2. slices[k].to <= slices[Len(slices)].from
    BY <1>1, <2>1, SlicesOrdered
  <2> QED BY <1>1, <1>2, <2>2, SliceShape
<1> QED BY <1>3, <1>4

(* Every place in the list is in a slice, once the list is split. *)
LEMMA SlicesCover ==
    ASSUME SplitInv, pc = "done", NEW x \in 1..Len(hosts)
    PROVE  \E k \in DOMAIN slices : x \in (slices[k].from + 1)..slices[k].to
<1> DEFINE T == {k \in DOMAIN slices : x <= slices[k].to}
<1>0. Len(hosts) \in Nat /\ x \in Nat /\ x >= 1
  BY DEF SplitInv, SplitTypeOK
<1>1. Len(hosts) = Covered
  BY DEF SplitInv, LoopInv
<1>2. slices # <<>> /\ Len(slices) \in DOMAIN slices
  BY <1>0, <1>1 DEF Covered, SplitInv, SplitTypeOK
<1>3. T # {} /\ T \in SUBSET Nat
  BY <1>1, <1>2, SliceShape DEF Covered
<1>4. PICK k \in T : \A y \in T : k <= y
  BY <1>3, LeastNumber
<1>5. slices[k].from < x
  <2>1. CASE k = 1
    BY <1>0, <1>4, <2>1, SliceShape
  <2>2. CASE k # 1
    <3>1. k - 1 \in DOMAIN slices /\ k - 1 \notin T /\ k \in Nat
          /\ slices[k].from = slices[k - 1].to
      BY <1>4, <2>2, SliceShape
    <3> QED BY <1>0, <1>4, <3>1, SliceShape
  <2> QED BY <2>1, <2>2
<1> QED BY <1>0, <1>4, <1>5, SliceShape

\* The places of batch b in the list, and the hosts there.
Places(b) == (slices[b].from + 1)..slices[b].to
Asked(b) == {hosts[x] : x \in Places(b)}

(* What a batch holds. *)
LEMMA BatchShape ==
    ASSUME SplitInv, hosts \in HostLists, NEW b \in DOMAIN slices
    PROVE  /\ Batch(b) \in Seq(Nat)
           /\ Len(Batch(b)) = slices[b].to - slices[b].from
           /\ DOMAIN Batch(b) = 1..Len(Batch(b))
           /\ \A n \in DOMAIN Batch(b) : Batch(b)[n] = hosts[slices[b].from + n]
           /\ ToSet(Batch(b)) = Asked(b)
           /\ Places(b) \subseteq 1..Len(hosts)
           /\ Asked(b) \subseteq ToSet(hosts)
           /\ Asked(b) \in SUBSET Fleet
           /\ IsFiniteSet(Asked(b))
<1> DEFINE from == slices[b].from
           to == slices[b].to
<1>1. /\ from \in Nat /\ to \in Nat /\ from < to /\ to <= Len(hosts)
      /\ hosts \in Seq(Nat) /\ Len(hosts) \in Nat
      /\ DOMAIN hosts = 1..Len(hosts)
  BY SliceShape, SliceInList DEF SplitInv, SplitTypeOK
<1> HIDE DEF from, to
<1>2. Batch(b) = SubSeq(hosts, from + 1, to)
  BY DEF Batch, from, to
<1>3. Places(b) = (from + 1)..to
  BY DEF Places, from, to
<1>4. /\ Batch(b) \in Seq(Nat) /\ Len(Batch(b)) = to - from
      /\ DOMAIN Batch(b) = 1..(to - from)
      /\ \A n \in 1..(to - from) : Batch(b)[n] = hosts[from + n]
  BY <1>1, <1>2
<1>5. Places(b) \subseteq 1..Len(hosts)
  BY <1>1, <1>3
<1>6. ToSet(Batch(b)) = Asked(b)
  <2>1. \A n \in 1..(to - from) : from + n \in Places(b)
    BY <1>1, <1>3
  <2>2. \A x \in Places(b) : x - from \in 1..(to - from) /\ x = from + (x - from)
    BY <1>1, <1>3
  <2> QED BY <1>4, <2>1, <2>2 DEF ToSet, Asked
<1>7. Asked(b) \subseteq ToSet(hosts)
  BY <1>1, <1>5 DEF Asked, ToSet
<1>8. ToSet(hosts) \subseteq Fleet
  BY DEF Fleet
<1>9. IsFiniteSet(Places(b))
  BY <1>1, <1>3, FS_Interval
<1>10. IsFiniteSet(Asked(b))
  BY <1>1, <1>5, <1>9, FiniteImage DEF Asked
<1> QED BY <1>4, <1>5, <1>6, <1>7, <1>8, <1>10 DEF from, to

(* What Foreman has to say about a batch. *)
LEMMA BatchRows ==
    ASSUME SplitInv, hosts \in HostLists, NEW b \in DOMAIN slices
    PROVE  /\ Rows(b) \in Seq(RowSet(Asked(b)))
           /\ Len(Rows(b)) \in Nat
           /\ DOMAIN Rows(b) = 1..Len(Rows(b))
           /\ ToSet(Rows(b)) = RowSet(Asked(b))
BY BatchShape, RowsListed DEF Rows

-----------------------------------------------------------------------------
(* One call: the goroutines and their pages. *)

Goroutines ==
    [pc: Phases, page: Nat, got: SUBSET RowSet(Fleet)]

CallInv ==
    /\ SplitInv /\ hosts \in HostLists
    /\ conf \in Configs
    /\ out \in {"splitting", "running", "nil", "err"}
    /\ out # "splitting" => pc = "done"
    /\ batch \in [IF out = "splitting" THEN {} ELSE DOMAIN slices -> Goroutines]
    /\ {failed, truncated, lostHosts, noFacts} \subseteq Nat

\* How far batch b has come: while it is paging, every page before the current
\* one was full and was taken whole.
Paged(b) ==
    /\ batch[b].page \in 1..(FactMaxPages + 1)
    /\ batch[b].got \subseteq ToSet(Rows(b))
    /\ batch[b].pc \in {"queued", "paging"} =>
          LET seen == (batch[b].page - 1) * PageSize
          IN /\ batch[b].page <= FactMaxPages
             /\ seen <= Len(Rows(b))
             /\ batch[b].got = {Rows(b)[x] : x \in 1..seen}
    /\ batch[b].pc = "truncated" => Len(Rows(b)) >= RowLimit
    /\ batch[b].pc = "ok" => /\ Len(Rows(b)) < RowLimit
                             /\ batch[b].got = ToSet(Rows(b))

PagesInv == \A b \in DOMAIN batch : Paged(b)

Exported ==
    /\ hostsFacts = [h \in DOMAIN hostsFacts |-> Facts(h) \ Filtered]
    /\ DOMAIN hostsFacts \subseteq ToSet(hosts)

FactInv == CallInv /\ PagesInv /\ Exported

(* The sizes of a page and of a batch that is given up. *)
LEMMA PageNumbers ==
    ASSUME conf \in Configs
    PROVE  /\ PageSize \in Nat /\ PageSize >= 1
           /\ FactMaxPages \in Nat /\ FactMaxPages >= 1
           /\ RowLimit \in Nat
<1>1. /\ conf.perPage \in Nat \ {0} /\ conf.serverMax \in Nat \ {0}
      /\ FactMaxPages \in Nat \ {0}
  BY FactAssumption DEF Config
<1>2. PageSize \in Nat /\ PageSize >= 1
  BY <1>1 DEF PageSize
<1> QED BY <1>1, <1>2 DEF RowLimit

(* The client goes by the page size Foreman applied, echoed or not. *)
LEMMA SizeApplied ==
    ASSUME conf \in Configs, NEW rows
    PROVE  EffPerPage([rows |-> rows,
                       perPage |-> IF conf.echoes THEN PageSize ELSE 0])
             = PageSize
<1>1. /\ conf.perPage \in Nat \ {0} /\ conf.serverMax \in Nat \ {0}
      /\ conf.echoes \in BOOLEAN
      /\ conf.echoes \/ conf.perPage <= conf.serverMax
  BY FactAssumption DEF Config, SizeKnown
<1>2. CASE conf.echoes
  BY <1>2, PageNumbers DEF EffPerPage
<1>3. CASE ~conf.echoes
  BY <1>1, <1>3 DEF EffPerPage, PageSize
<1> QED BY <1>2, <1>3

(* The end of page p, and what it has before the last one. *)
LEMMA PageEnds ==
    ASSUME conf \in Configs, NEW p \in Nat, p >= 1
    PROVE  /\ (p - 1) * PageSize \in Nat /\ p * PageSize \in Nat
           /\ p * PageSize = (p - 1) * PageSize + PageSize
           /\ p <= FactMaxPages => p * PageSize <= RowLimit
           /\ p >= FactMaxPages => p * PageSize >= RowLimit
<1>1. /\ PageSize \in Nat /\ FactMaxPages \in Nat /\ p - 1 \in Nat
  BY PageNumbers
<1>2. \A x, y \in Nat : x * y \in Nat
  OBVIOUS
<1>3. \A x, y, z \in Nat : x <= y => x * z <= y * z
  OBVIOUS
<1>4. \A x, z \in Nat : (x + 1) * z = x * z + z
  OBVIOUS
<1>5. (p - 1) + 1 = p
  OBVIOUS
<1>6. p * PageSize = (p - 1) * PageSize + PageSize
  BY <1>1, <1>4, <1>5
<1>7. (p - 1) * PageSize \in Nat /\ p * PageSize \in Nat
  BY <1>1, <1>2
<1>8. /\ p <= FactMaxPages => p * PageSize <= FactMaxPages * PageSize
      /\ FactMaxPages <= p => FactMaxPages * PageSize <= p * PageSize
  BY <1>1, <1>3
<1> QED BY <1>6, <1>7, <1>8, <1>1 DEF RowLimit

(* The rows depend on the list and its slices alone, the pages on the flags. *)
LEMMA RowsKept ==
    ASSUME UNCHANGED <<hosts, slices, conf>>
    PROVE  /\ \A b : Batch(b)' = Batch(b) /\ Rows(b)' = Rows(b)
           /\ PageSize' = PageSize /\ RowLimit' = RowLimit
BY DEF Batch, Rows, PageSize, RowLimit

(* A page that arrives: the batch goes on after a full one, and is either
   complete or given up otherwise. *)
LEMMA PageStep ==
    ASSUME FactInv, NEW b \in DOMAIN batch, PageArrives(b)
    PROVE  /\ Paged(b)'
           /\ batch'[b] \in Goroutines
<1> DEFINE R == Rows(b)
           n == Len(R)
           p == batch[b].page
           seen == (p - 1) * PageSize
           last == IF p * PageSize < n THEN p * PageSize ELSE n
           rows == SubSeq(R, seen + 1, last)
<1>0. /\ b \in DOMAIN slices /\ SplitInv /\ hosts \in HostLists
      /\ batch \in [DOMAIN batch -> Goroutines] /\ conf \in Configs
  BY DEF FactInv, CallInv
<1>1. /\ R \in Seq(RowSet(Asked(b))) /\ n \in Nat /\ DOMAIN R = 1..n
      /\ ToSet(R) = RowSet(Asked(b))
  BY <1>0, BatchRows
<1>2. /\ p \in Nat /\ p >= 1 /\ p <= FactMaxPages /\ seen <= n
      /\ batch[b].got = {R[x] : x \in 1..seen}
      /\ batch[b].pc = "paging"
  BY <1>0, PageNumbers DEF FactInv, PagesInv, Paged, PageArrives
<1>3. /\ seen \in Nat /\ p * PageSize \in Nat
      /\ p * PageSize = seen + PageSize
      /\ p * PageSize <= RowLimit
      /\ p >= FactMaxPages => p * PageSize >= RowLimit
      /\ PageSize \in Nat /\ PageSize >= 1 /\ FactMaxPages \in Nat
  BY <1>0, <1>2, PageEnds, PageNumbers
<1> HIDE DEF R, n, p, seen
<1>4. last \in Nat /\ seen <= last /\ last <= n
  BY <1>1, <1>2, <1>3
<1>5. /\ Len(rows) = last - seen
      /\ DOMAIN rows = 1..(last - seen)
      /\ \A x \in 1..(last - seen) : rows[x] = R[seen + x]
  BY <1>1, <1>3, <1>4
<1>9. /\ EffPerPage(GetFactValues(b, p)) = PageSize
      /\ GetFactValues(b, p).rows = rows
  <2> DEFINE echo == IF conf.echoes THEN PageSize ELSE 0
  <2>1. GetFactValues(b, p) = [rows |-> rows, perPage |-> echo]
    BY DEF GetFactValues, R, n, seen
  <2>2. \A r : EffPerPage([rows |-> r, perPage |-> echo]) = PageSize
    BY <1>0, SizeApplied
  <2> HIDE DEF rows, last, echo
  <2>3. [rows |-> rows, perPage |-> echo].rows = rows
    OBVIOUS
  <2> QED BY <2>1, <2>2, <2>3
<1> HIDE DEF rows, last
<1>6. ToSet(rows) = {R[x] : x \in (seen + 1)..last}
  <2>1. ToSet(rows) = {R[seen + x] : x \in 1..(last - seen)}
    BY <1>5 DEF ToSet
  <2>2. \A x \in (seen + 1)..last :
           x - seen \in 1..(last - seen) /\ x = seen + (x - seen)
    BY <1>3, <1>4
  <2>3. \A x \in 1..(last - seen) : seen + x \in (seen + 1)..last
    BY <1>3, <1>4
  <2> QED BY <2>1, <2>2, <2>3
<1>7. batch[b].got \cup ToSet(rows) = {R[x] : x \in 1..last}
  <2>1. 1..last = 1..seen \cup (seen + 1)..last
    BY <1>3, <1>4
  <2> QED BY <1>2, <1>6, <2>1
<1> DEFINE full == Len(rows) >= PageSize
<1>8. full <=> p * PageSize <= n
  BY <1>1, <1>3, <1>4, <1>5 DEF last
<1> DEFINE next == CASE ~full -> "ok"
                     [] full /\ LastPage(p) -> "truncated"
                     [] OTHER -> "paging"
           new == [pc |-> next, page |-> p + 1,
                   got |-> batch[b].got \cup ToSet(rows)]
<1>10. batch' = [batch EXCEPT ![b] = new]
  BY <1>9 DEF PageArrives, p
<1>11. batch'[b] = new
  BY <1>0, <1>10
<1>12. Rows(b)' = R /\ PageSize' = PageSize /\ RowLimit' = RowLimit
  BY RowsKept DEF R, PageArrives, splitVars, input
<1>13. {R[x] : x \in 1..last} \subseteq ToSet(R)
  BY <1>1, <1>4 DEF ToSet
<1> HIDE DEF full
<1>14. /\ next \in {"ok", "truncated", "paging"}
       /\ next = "ok" => n < RowLimit /\ {R[x] : x \in 1..last} = ToSet(R)
       /\ next = "truncated" => n >= RowLimit
       /\ next = "paging" => /\ p + 1 <= FactMaxPages
                             /\ last = p * PageSize /\ p * PageSize <= n
  <2>1. CASE ~full
    <3>1. n < RowLimit /\ last = n
      BY <1>1, <1>3, <1>0, <1>8, <2>1, PageNumbers DEF last
    <3>2. {R[x] : x \in 1..last} = ToSet(R)
      BY <1>1, <3>1 DEF ToSet
    <3> QED BY <2>1, <3>1, <3>2
  <2>2. CASE full /\ LastPage(p)
    <3>1. n >= RowLimit
      BY <1>0, <1>1, <1>2, <1>3, <1>8, <2>2, PageNumbers DEF LastPage
    <3> QED BY <2>2, <3>1
  <2>3. CASE full /\ ~LastPage(p)
    <3>1. p + 1 <= FactMaxPages /\ last = p * PageSize /\ p * PageSize <= n
      BY <1>1, <1>2, <1>3, <1>8, <2>3 DEF LastPage, last
    <3> QED BY <2>3, <3>1
  <2> QED BY <2>1, <2>2, <2>3
<1> HIDE DEF next
<1>15. /\ batch'[b].pc = next /\ batch'[b].page = p + 1
       /\ batch'[b].got = {R[x] : x \in 1..last}
  BY <1>7, <1>11
<1>16. Paged(b)'
  <2>1. (p + 1) - 1 = p /\ p + 1 \in 1..(FactMaxPages + 1)
    BY <1>2, <1>3
  <2>2. /\ batch'[b].page \in 1..(FactMaxPages + 1)
        /\ batch'[b].got \subseteq ToSet(R)
    BY <1>13, <1>15, <2>1
  <2>3. batch'[b].pc \in {"queued", "paging"} =>
          LET done == (batch'[b].page - 1) * PageSize
          IN /\ batch'[b].page <= FactMaxPages
             /\ done <= n
             /\ batch'[b].got = {R[x] : x \in 1..done}
    BY <1>14, <1>15, <2>1
  <2>4. /\ batch'[b].pc = "truncated" => n >= RowLimit
        /\ batch'[b].pc = "ok" => n < RowLimit /\ batch'[b].got = ToSet(R)
    BY <1>14, <1>15
  <2> QED BY <1>12, <2>2, <2>3, <2>4 DEF Paged, n
<1>17. batch'[b] \in Goroutines
  <2>1. RowSet(Asked(b)) \subseteq RowSet(Fleet)
    BY <1>0, BatchShape DEF RowSet
  <2>2. new.got \in SUBSET RowSet(Fleet) /\ p + 1 \in Nat
    BY <1>1, <1>2, <1>7, <1>13, <2>1
  <2> QED BY <1>11, <1>14, <2>2 DEF Goroutines, Phases
<1> QED BY <1>16, <1>17

(* A step of one goroutine leaves the others where they are. *)
LEMMA GoroutineKeeps ==
    ASSUME FactInv, NEW b \in DOMAIN batch, NEW new \in Goroutines,
           batch' = [batch EXCEPT ![b] = new], Paged(b)',
           UNCHANGED <<splitVars, conf, out>>,
           {failed, truncated, lostHosts, noFacts}' \subseteq Nat
    PROVE  CallInv' /\ PagesInv'
<1>1. /\ UNCHANGED splitVars /\ conf' = conf /\ out' = out
      /\ hosts' = hosts /\ slices' = slices /\ pc' = pc
  BY DEF splitVars, input
<1>2. SplitInv'
  BY <1>1, SplitStep DEF FactInv, CallInv
<1>3. batch' \in [DOMAIN batch -> Goroutines] /\ DOMAIN batch' = DOMAIN batch
  BY DEF FactInv, CallInv
<1>4. CallInv'
  BY <1>1, <1>2, <1>3 DEF FactInv, CallInv, Goroutines, Phases, Fleet, RowSet, Facts
<1>5. ASSUME NEW c \in DOMAIN batch' PROVE Paged(c)'
  <2>1. CASE c = b
    BY <2>1
  <2>2. CASE c # b
    <3>1. batch'[c] = batch[c] /\ c \in DOMAIN batch
      BY <1>3, <2>2 DEF FactInv, CallInv
    <3>2. Rows(c)' = Rows(c) /\ PageSize' = PageSize /\ RowLimit' = RowLimit
      BY <1>1, RowsKept
    <3> QED BY <3>1, <3>2 DEF FactInv, PagesInv, Paged
  <2> QED BY <2>1, <2>2
<1> QED BY <1>4, <1>5 DEF PagesInv

(* What a complete batch names: every host asked for that has a fact, with all
   the facts it has. *)
LEMMA WholeBatch ==
    ASSUME FactInv, NEW b \in DOMAIN batch, batch[b].pc = "ok"
    PROVE  /\ b \in DOMAIN slices
           /\ Named(b) = {h \in Asked(b) : Facts(h) # {}}
           /\ \A h \in Named(b) :
                 {r.fact : r \in {q \in batch[b].got : q.host = h}} = Facts(h)
<1>1. b \in DOMAIN slices /\ SplitInv /\ hosts \in HostLists
  BY DEF FactInv, CallInv
<1>2. batch[b].got = RowSet(Asked(b))
  BY <1>1, BatchRows DEF FactInv, PagesInv, Paged
<1>3. \A r : r \in RowSet(Asked(b)) <=>
          \E h \in Asked(b) : \E f \in Facts(h) : r = [host |-> h, fact |-> f]
  BY DEF RowSet
<1>4. Named(b) = {h \in Asked(b) : Facts(h) # {}}
  <2>1. ASSUME NEW h \in Named(b) PROVE h \in Asked(b) /\ Facts(h) # {}
    <3>1. PICK r \in RowSet(Asked(b)) : h = r.host
      BY <1>2 DEF Named
    <3>2. PICK g \in Asked(b) : \E f \in Facts(g) : r = [host |-> g, fact |-> f]
      BY <1>3
    <3>3. h = g
      BY <3>1, <3>2
    <3> QED BY <3>2, <3>3
  <2>2. ASSUME NEW h \in Asked(b), NEW f \in Facts(h) PROVE h \in Named(b)
    <3>1. [host |-> h, fact |-> f] \in batch[b].got
      BY <1>2, <1>3
    <3>2. h = [host |-> h, fact |-> f].host
      OBVIOUS
    <3> QED BY <3>1, <3>2 DEF Named
  <2> QED BY <2>1, <2>2
<1>5. ASSUME NEW h \in Named(b)
      PROVE  {r.fact : r \in {q \in batch[b].got : q.host = h}} = Facts(h)
  <2>1. h \in Asked(b)
    BY <1>4
  <2>2. ASSUME NEW q \in batch[b].got, q.host = h PROVE q.fact \in Facts(h)
    <3>1. PICK g \in Asked(b) : \E f \in Facts(g) : q = [host |-> g, fact |-> f]
      BY <1>2, <1>3
    <3>2. PICK f \in Facts(g) : q = [host |-> g, fact |-> f]
      BY <3>1
    <3>3. g = h /\ q.fact = f
      BY <2>2, <3>2
    <3> QED BY <3>3
  <2>3. ASSUME NEW f \in Facts(h)
        PROVE  \E q \in batch[b].got : q.host = h /\ q.fact = f
    <3>1. [host |-> h, fact |-> f] \in batch[b].got
      BY <1>2, <1>3, <2>1
    <3> QED BY <3>1
  <2> QED BY <2>2, <2>3
<1> QED BY <1>1, <1>4, <1>5

(* Every step keeps the invariant. *)
LEMMA FactStep ==
    ASSUME FactInv, [Next]_vars
    PROVE  FactInv'
<1>t. /\ CallInv /\ PagesInv /\ Exported
      /\ failed \in Nat /\ truncated \in Nat /\ lostHosts \in Nat
      /\ noFacts \in Nat
  BY DEF FactInv, CallInv
<1>s. SplitInv'
  BY SplitSteps, SplitStep DEF FactInv, CallInv
<1>1. CASE UNCHANGED vars
  <2>1. /\ UNCHANGED <<hosts, slices, pc, conf, batch, hostsFacts, out>>
        /\ UNCHANGED <<failed, truncated, lostHosts, noFacts>>
    BY <1>1 DEF vars, splitVars, input, merged
  <2>2. CallInv'
    BY <1>t, <1>s, <2>1 DEF CallInv
  <2>3. PagesInv'
    BY <1>t, <2>1, RowsKept DEF PagesInv, Paged
  <2>4. Exported'
    BY <1>t, <2>1 DEF Exported
  <2> QED BY <2>2, <2>3, <2>4 DEF FactInv
<1>2. CASE Split
  <2>1. /\ out = "splitting" /\ out' = out /\ hosts' = hosts
        /\ UNCHANGED <<conf, batch, merged>>
    BY <1>2 DEF Split, SplitNext, NextBatch, Shrink, Cut, Finish, input
  <2>2. CallInv'
    BY <1>t, <1>s, <2>1 DEF CallInv, merged
  <2>3. PagesInv'
    BY <1>t, <2>1 DEF CallInv, PagesInv
  <2>4. Exported'
    BY <1>t, <2>1 DEF Exported, merged
  <2> QED BY <2>2, <2>3, <2>4 DEF FactInv
<1>3. CASE Start
  <2> DEFINE first == [pc |-> "queued", page |-> 1, got |-> {}]
  <2>1. /\ hosts' = hosts /\ slices' = slices /\ pc' = pc /\ pc = "done"
        /\ batch' = [b \in DOMAIN slices |-> first]
        /\ out' = "running"
        /\ UNCHANGED <<conf, merged>>
    BY <1>3 DEF Start, splitVars, input
  <2>2. first \in Goroutines
    BY DEF Goroutines, Phases
  <2>3. CallInv'
    BY <1>t, <1>s, <2>1, <2>2 DEF CallInv, merged
  <2>4. ASSUME NEW b \in DOMAIN batch' PROVE Paged(b)'
    <3>1. b \in DOMAIN slices /\ batch'[b] = first
      BY <2>1
    <3>2. /\ Rows(b)' = Rows(b) /\ Len(Rows(b)) \in Nat
          /\ PageSize' = PageSize /\ RowLimit' = RowLimit
      BY <1>t, <2>1, <3>1, RowsKept, BatchRows DEF CallInv
    <3>3. (1 - 1) * PageSize = 0 /\ 1 \in 1..(FactMaxPages + 1)
          /\ 1 <= FactMaxPages
      BY <1>t, PageNumbers DEF CallInv
    <3>4. {Rows(b)[x] : x \in 1..0} = {}
      OBVIOUS
    <3> QED BY <3>1, <3>2, <3>3, <3>4 DEF Paged
  <2>5. Exported'
    BY <1>t, <2>1 DEF Exported, merged
  <2> QED BY <2>3, <2>4, <2>5 DEF FactInv, PagesInv
<1>4. CASE Return
  <2>1. /\ UNCHANGED <<hosts, slices, pc, conf, batch, merged>>
        /\ out = "running" /\ out' \in {"nil", "err"}
    BY <1>4 DEF Return, splitVars, input
  <2>2. CallInv'
    BY <1>t, <1>s, <2>1 DEF CallInv, merged
  <2>3. PagesInv'
    BY <1>t, <2>1, RowsKept DEF PagesInv, Paged
  <2>4. Exported'
    BY <1>t, <2>1 DEF Exported, merged
  <2> QED BY <2>2, <2>3, <2>4 DEF FactInv
<1>5. ASSUME NEW b \in DOMAIN batch, Goroutine(b) PROVE FactInv'
  <2>1. /\ UNCHANGED <<splitVars, conf, out>> /\ hosts' = hosts
        /\ Rows(b)' = Rows(b) /\ PageSize' = PageSize /\ RowLimit' = RowLimit
    <3>1. UNCHANGED <<splitVars, conf, out>>
      BY <1>5 DEF Goroutine, Acquire, PageFails, PageArrives, MergeOk,
                  MergeFailed, MergeTruncated, Done
    <3> QED BY <3>1, RowsKept DEF splitVars, input
  <2>2. b \in DOMAIN slices /\ batch[b] \in Goroutines /\ Paged(b)
        /\ SplitInv /\ hosts \in HostLists
    BY <1>t DEF CallInv, PagesInv
  \* A goroutine that only moves on.
  <2>3. ASSUME NEW to \in Phases, batch' = [batch EXCEPT ![b].pc = to],
               \/ batch[b].pc = "queued" /\ to = "paging"
               \/ to \in {"failed", "done"},
               {failed, truncated, lostHosts, noFacts}' \subseteq Nat
        PROVE  CallInv' /\ PagesInv'
    <3> DEFINE new == [batch[b] EXCEPT !.pc = to]
    <3>1. batch' = [batch EXCEPT ![b] = new]
      BY <2>3
    <3>2. /\ new \in Goroutines /\ new.pc = to
          /\ new.page = batch[b].page /\ new.got = batch[b].got
      BY <2>2 DEF Goroutines
    <3> HIDE DEF new
    <3>3. batch'[b] = new
      BY <1>t, <3>1 DEF CallInv
    <3>4. Paged(b)'
      <4>1. /\ batch'[b].page = batch[b].page /\ batch'[b].got = batch[b].got
            /\ batch'[b].pc \in {"queued", "paging"} => batch[b].pc = "queued"
            /\ batch'[b].pc \notin {"truncated", "ok"}
        BY <2>3, <3>2, <3>3
      <4> QED BY ONLY <2>1, <2>2, <4>1 DEF Paged
    <3> QED BY <2>1, <2>3, <3>1, <3>2, <3>4, GoroutineKeeps
  <2>4. hostsFacts' = hostsFacts => Exported'
    BY <1>t, <2>1 DEF Exported
  <2>5. CASE Acquire(b)
    BY <1>t, <2>3, <2>4, <2>5 DEF Acquire, merged, FactInv, Phases
  <2>6. CASE PageFails(b)
    BY <1>t, <2>3, <2>4, <2>6 DEF PageFails, merged, FactInv, Phases
  <2>7. CASE PageArrives(b)
    <3>1. Paged(b)' /\ batch'[b] \in Goroutines
      BY <2>7, PageStep
    <3>2. batch' = [batch EXCEPT ![b] = batch'[b]]
      BY <1>t, <2>7 DEF PageArrives, CallInv
    <3>3. {failed, truncated, lostHosts, noFacts}' \subseteq Nat
      BY <1>t, <2>7 DEF PageArrives, merged
    <3>4. CallInv' /\ PagesInv'
      BY <2>1, <3>1, <3>2, <3>3, GoroutineKeeps
    <3> QED BY <2>4, <2>7, <3>4 DEF PageArrives, merged, FactInv
  <2>8. Len(Batch(b)) \in Nat
    BY <2>2, BatchShape
  <2>9. CASE MergeFailed(b)
    BY <1>t, <2>3, <2>4, <2>8, <2>9 DEF MergeFailed, Done, FactInv, Phases
  <2>10. CASE MergeTruncated(b)
    BY <1>t, <2>3, <2>4, <2>8, <2>10 DEF MergeTruncated, Done, FactInv, Phases
  <2>11. CASE MergeOk(b)
    <3>1. Cardinality(Missing(b)) \in Nat
      <4>1. IsFiniteSet(DOMAIN Batch(b))
        BY <2>2, <2>8, BatchShape, FS_Interval
      <4> QED BY <4>1, FS_Subset, FS_CardinalityType DEF Missing
    <3>2. CallInv' /\ PagesInv'
      BY <1>t, <2>3, <2>11, <3>1 DEF MergeOk, Done, Phases
    <3>3. Exported'
      <4>1. /\ Named(b) \subseteq Asked(b)
            /\ \A h \in Named(b) :
                 {r.fact : r \in {q \in batch[b].got : q.host = h}} = Facts(h)
        BY <2>11, WholeBatch DEF MergeOk
      <4>2. Asked(b) \subseteq ToSet(hosts)
        BY <2>2, BatchShape
      <4>3. hostsFacts' = [h \in DOMAIN hostsFacts \cup Named(b) |->
                              IF h \in Named(b) THEN Facts(h) \ Filtered
                              ELSE hostsFacts[h]]
        BY <2>11, <4>1 DEF MergeOk, Added, filterFacts
      <4>4. hostsFacts' = [h \in DOMAIN hostsFacts \cup Named(b) |->
                              Facts(h) \ Filtered]
        BY <1>t, <4>3 DEF Exported
      <4> QED BY <1>t, <2>1, <4>1, <4>2, <4>4 DEF Exported
    <3> QED BY <3>2, <3>3 DEF FactInv
  <2> QED BY <1>5, <2>5, <2>6, <2>7, <2>9, <2>10, <2>11 DEF Goroutine
<1> QED BY <1>1, <1>2, <1>3, <1>4, <1>5 DEF Next, Caller

(* The invariant holds at first. *)
LEMMA FactStart ==
    ASSUME Init
    PROVE  FactInv
<1>1. SplitInv /\ hosts \in HostLists
  BY SplitStart DEF Init, SplitInit
<1>2. batch \in [{} -> Goroutines] /\ DOMAIN batch = {}
  BY DEF Init
<1>3. CallInv
  BY <1>1, <1>2 DEF Init, CallInv
<1>4. PagesInv
  BY <1>2 DEF PagesInv
<1>5. Exported
  BY DEF Init, Exported
<1> QED BY <1>3, <1>4, <1>5 DEF FactInv

(* The invariant holds throughout a call. *)
THEOREM CallInvariant == Spec => []FactInv
<1>1. Init => FactInv
  BY FactStart
<1>2. FactInv /\ [Next]_vars => FactInv'
  BY FactStep
<1> QED BY <1>1, <1>2, PTL DEF Spec

(* The types of a call: no goroutine asks for a page beyond the last allowed
   one or holds a row that is not of its batch, and no host is exported that
   was not in the list (GetFactValuesBatch, getHostsFactsBulk). *)
THEOREM CallTypeCorrect == Spec => []TypeOK
<1>1. FactInv => TypeOK
  BY DEF FactInv, CallInv, PagesInv, Paged, Exported, TypeOK, SplitInv,
         Goroutines
<1> QED BY <1>1, CallInvariant, PTL

(* At any moment a host is exported with all its facts that pass the filter or
   not at all, whatever pages fail and however the rows of a host straddle the
   pages (the merge in getHostsFactsBulk). *)
THEOREM HostsExportedWhole == Spec => []WholeOrAbsent
<1>1. FactInv => WholeOrAbsent
  BY DEF FactInv, Exported, WholeOrAbsent
<1> QED BY <1>1, CallInvariant, PTL

(* For every page size, clamped or not and echoed or not, a batch that leaves
   room on its last page is never given up for its length, and a batch that is
   taken has all its rows (the loop of GetFactValuesBatch). *)
THEOREM BatchesTaken == Spec => []FittingBatchesTaken
<1>1. FactInv => FittingBatchesTaken
  <2> SUFFICES ASSUME FactInv, NEW b \in DOMAIN batch
               PROVE  /\ Len(Rows(b)) < RowLimit => batch[b].pc # "truncated"
                      /\ batch[b].pc = "ok" => batch[b].got = ToSet(Rows(b))
    BY DEF FittingBatchesTaken
  <2>1. Len(Rows(b)) \in Nat /\ RowLimit \in Nat
    BY BatchRows, PageNumbers DEF FactInv, CallInv
  <2>2. Paged(b)
    BY DEF FactInv, PagesInv
  <2> QED BY <2>1, <2>2 DEF Paged
<1> QED BY <1>1, CallInvariant, PTL

-----------------------------------------------------------------------------
(* The account of the hosts. *)

\* The hosts of the batches that are merged.
MergedHosts ==
    UNION {Asked(b) : b \in {c \in DOMAIN batch : batch[c].pc = "done"}}

Unreported(S) == {h \in S : Facts(h) = {}}

Balanced ==
    /\ DOMAIN hostsFacts \subseteq MergedHosts
    /\ Cardinality(DOMAIN hostsFacts) + lostHosts + noFacts
          = Cardinality(MergedHosts)
    /\ noFacts <= Cardinality(Unreported(MergedHosts))

AccountInv ==
    /\ FactInv
    /\ out \in {"nil", "err"} => \A b \in DOMAIN batch : batch[b].pc = "done"
    /\ IsInjective(hosts) => Balanced

(* A function that is injective on a finite set keeps its size. *)
LEMMA ImageSize ==
    ASSUME NEW S, NEW f, S \subseteq DOMAIN f, IsFiniteSet(S),
           \A x, y \in S : f[x] = f[y] => x = y
    PROVE  Cardinality({f[x] : x \in S}) = Cardinality(S)
<1> DEFINE T == {f[x] : x \in S}
           g == [x \in S |-> f[x]]
<1>1. g \in Surjection(S, T)
  BY DEF Surjection
<1>2. g \in Injection(S, T)
  BY DEF Injection, IsInjective
<1> HIDE DEF T, g
<1> QED BY <1>1, <1>2, FS_Surjection DEF T

(* The sizes of disjoint sets add up. *)
LEMMA DisjointSize ==
    ASSUME NEW S, NEW T, IsFiniteSet(S), IsFiniteSet(T), S \cap T = {}
    PROVE  /\ Cardinality(S \cup T) = Cardinality(S) + Cardinality(T)
           /\ Cardinality(S) \in Nat /\ Cardinality(T) \in Nat
<1>1. Cardinality(S) \in Nat /\ Cardinality(T) \in Nat
  BY FS_CardinalityType
<1>2. Cardinality(S \cap T) = 0
  BY FS_EmptySet
<1>3. Cardinality(S \cup T)
        = Cardinality(S) + Cardinality(T) - Cardinality(S \cap T)
  BY FS_Union
<1> QED BY <1>1, <1>2, <1>3

(* Two batches have no host in common. *)
LEMMA BatchesDisjoint ==
    ASSUME SplitInv, hosts \in HostLists, IsInjective(hosts),
           NEW b \in DOMAIN slices, NEW c \in DOMAIN slices, b # c
    PROVE  Asked(b) \cap Asked(c) = {}
<1>1. b \in Nat /\ c \in Nat
  BY SliceShape
<1>2. Places(b) \cap Places(c) = {}
  <2>1. CASE b < c
    <3>1. slices[b].to <= slices[c].from
      BY <2>1, SlicesOrdered
    <3> QED BY <3>1, SliceShape DEF Places
  <2>2. CASE c < b
    <3>1. slices[c].to <= slices[b].from
      BY <2>2, SlicesOrdered
    <3> QED BY <3>1, SliceShape DEF Places
  <2> QED BY <1>1, <2>1, <2>2
<1>3. Places(b) \subseteq DOMAIN hosts /\ Places(c) \subseteq DOMAIN hosts
  <2>1. Places(b) \subseteq 1..Len(hosts) /\ Places(c) \subseteq 1..Len(hosts)
    BY BatchShape
  <2>2. hosts \in Seq(Nat)
    BY DEF SplitInv, SplitTypeOK
  <2>3. DOMAIN hosts = 1..Len(hosts)
    BY ONLY <2>2
  <2> QED BY <2>1, <2>3
<1> QED BY <1>2, <1>3 DEF Asked, IsInjective

(* A batch has as many hosts as places. *)
LEMMA BatchSize ==
    ASSUME SplitInv, hosts \in HostLists, IsInjective(hosts),
           NEW b \in DOMAIN slices
    PROVE  Cardinality(Asked(b)) = Len(Batch(b)) /\ Len(Batch(b)) \in Nat
<1>1. /\ slices[b].from \in Nat /\ slices[b].to \in Nat
      /\ slices[b].from < slices[b].to
      /\ Len(Batch(b)) = slices[b].to - slices[b].from
  BY SliceShape, BatchShape
<1>2. Places(b) \subseteq DOMAIN hosts
  BY BatchShape DEF SplitInv, SplitTypeOK
<1>3. /\ IsFiniteSet(Places(b))
      /\ Cardinality(Places(b)) = slices[b].to - slices[b].from
  <2>1. /\ slices[b].from + 1 \in Int /\ slices[b].to \in Int
        /\ ~(slices[b].from + 1 > slices[b].to)
        /\ slices[b].to - (slices[b].from + 1) + 1
              = slices[b].to - slices[b].from
    BY <1>1
  <2>2. /\ IsFiniteSet(Places(b))
        /\ Cardinality(Places(b)) = IF slices[b].from + 1 > slices[b].to THEN 0
                                    ELSE slices[b].to - (slices[b].from + 1) + 1
    BY <2>1, FS_Interval DEF Places
  <2> QED BY <2>1, <2>2
<1>4. Cardinality(Asked(b)) = Cardinality(Places(b))
  BY <1>2, <1>3, ImageSize DEF Asked, IsInjective
<1> QED BY <1>1, <1>3, <1>4

(* The hosts missing from a complete batch are those without a fact. *)
LEMMA MissingSize ==
    ASSUME FactInv, IsInjective(hosts), NEW b \in DOMAIN batch,
           batch[b].pc = "ok"
    PROVE  Cardinality(Missing(b)) = Cardinality(Unreported(Asked(b)))
<1>1. /\ b \in DOMAIN slices /\ SplitInv /\ hosts \in HostLists
      /\ Named(b) = {h \in Asked(b) : Facts(h) # {}}
  BY WholeBatch DEF FactInv, CallInv
<1>2. /\ Len(Batch(b)) \in Nat /\ DOMAIN Batch(b) = 1..Len(Batch(b))
      /\ \A n \in DOMAIN Batch(b) : Batch(b)[n] = hosts[slices[b].from + n]
      /\ ToSet(Batch(b)) = Asked(b)
      /\ Len(Batch(b)) = slices[b].to - slices[b].from
  BY <1>1, BatchShape, BatchSize
<1>3. IsFiniteSet(Missing(b)) /\ Missing(b) \subseteq DOMAIN Batch(b)
  <2>1. IsFiniteSet(DOMAIN Batch(b))
    BY <1>2, FS_Interval
  <2> QED BY <2>1, FS_Subset DEF Missing
<1>4. ASSUME NEW m \in DOMAIN Batch(b), NEW n \in DOMAIN Batch(b),
             Batch(b)[m] = Batch(b)[n]
      PROVE  m = n
  <2>1. slices[b].from + m \in DOMAIN hosts /\ slices[b].from + n \in DOMAIN hosts
        /\ slices[b].from \in Nat
    <3>1. slices[b].from \in Nat /\ slices[b].to \in Nat
          /\ slices[b].to <= Len(hosts) /\ DOMAIN hosts = 1..Len(hosts)
      BY <1>1, SliceShape, SliceInList DEF SplitInv, SplitTypeOK
    <3>2. m \in 1..(slices[b].to - slices[b].from)
          /\ n \in 1..(slices[b].to - slices[b].from)
      BY <1>2
    <3> DEFINE from == slices[b].from
               to == slices[b].to
               len == Len(hosts)
    <3>3. from \in Nat /\ to \in Nat /\ len \in Nat /\ to <= len
          /\ m \in 1..(to - from) /\ n \in 1..(to - from)
      BY <1>1, <3>1, <3>2 DEF SplitInv, SplitTypeOK
    <3> HIDE DEF from, to, len
    <3>4. from + m \in 1..len /\ from + n \in 1..len
      BY <3>3
    <3> QED BY <3>1, <3>4 DEF from, to, len
  <2>2. slices[b].from + m = slices[b].from + n
    BY <1>2, <1>4, <2>1 DEF IsInjective
  <2> QED BY <1>2, <2>1, <2>2
<1>5. Cardinality({Batch(b)[n] : n \in Missing(b)}) = Cardinality(Missing(b))
  BY <1>3, <1>4, ImageSize
<1>6. {Batch(b)[n] : n \in Missing(b)} = Unreported(Asked(b))
  BY <1>1, <1>2 DEF Missing, Unreported, ToSet
<1> QED BY <1>5, <1>6

(* The list is finite, and so is what is merged of it. *)
LEMMA MergedFinite ==
    ASSUME CallInv
    PROVE  /\ IsFiniteSet(ToSet(hosts))
           /\ MergedHosts \subseteq ToSet(hosts)
           /\ IsFiniteSet(MergedHosts)
<1>1. hosts \in Seq(Nat) /\ SplitInv /\ hosts \in HostLists
  BY DEF CallInv, SplitInv, SplitTypeOK
<1>2. Len(hosts) \in Nat /\ DOMAIN hosts = 1..Len(hosts)
  BY <1>1
<1>3. IsFiniteSet(DOMAIN hosts)
  BY <1>2, FS_Interval
<1>4. IsFiniteSet(ToSet(hosts))
  BY <1>3, FiniteImage DEF ToSet
<1>5. \A b \in DOMAIN batch : b \in DOMAIN slices
  BY DEF CallInv
<1>6. MergedHosts \subseteq ToSet(hosts)
  BY <1>1, <1>5, BatchShape DEF MergedHosts
<1> QED BY <1>4, <1>6, FS_Subset

(* The account after batch b is merged, when all its hosts are lost or each of
   them is exported or counted as without facts. *)
LEMMA AccountMerge ==
    ASSUME AccountInv, IsInjective(hosts), NEW b \in DOMAIN batch,
           batch[b].pc # "done",
           UNCHANGED <<hosts, slices>>,
           batch' = [batch EXCEPT ![b].pc = "done"],
           \/ /\ UNCHANGED <<hostsFacts, noFacts>>
              /\ lostHosts' = lostHosts + Len(Batch(b))
           \/ /\ batch[b].pc = "ok"
              /\ DOMAIN hostsFacts' = DOMAIN hostsFacts \cup Named(b)
              /\ noFacts' = noFacts + Cardinality(Missing(b))
              /\ UNCHANGED lostHosts
    PROVE  Balanced'
<1> DEFINE A == Asked(b)
           M == MergedHosts
           D == DOMAIN hostsFacts
<1>1. /\ FactInv /\ CallInv /\ SplitInv /\ hosts \in HostLists
      /\ DOMAIN batch = DOMAIN slices /\ b \in DOMAIN slices
      /\ batch \in [DOMAIN slices -> Goroutines]
      /\ lostHosts \in Nat /\ noFacts \in Nat
  BY DEF AccountInv, FactInv, CallInv
<1>2. \A c \in DOMAIN batch : /\ Asked(c)' = Asked(c)
                              /\ batch'[c].pc = IF c = b THEN "done"
                                                ELSE batch[c].pc
  BY <1>1 DEF Asked, Places, Goroutines
<1>3. MergedHosts' = M \cup A
  <2>1. DOMAIN batch' = DOMAIN batch
    BY <1>1
  <2> QED BY <1>2, <2>1 DEF MergedHosts
<1>4. M \cap A = {}
  BY <1>1, BatchesDisjoint DEF MergedHosts
<1>5. /\ IsFiniteSet(M) /\ IsFiniteSet(A)
      /\ Cardinality(A) = Len(Batch(b)) /\ Len(Batch(b)) \in Nat
  BY <1>1, MergedFinite, BatchShape, BatchSize
<1>6. /\ D \subseteq M
      /\ Cardinality(D) + lostHosts + noFacts = Cardinality(M)
      /\ noFacts <= Cardinality(Unreported(M))
  BY DEF AccountInv, Balanced
<1> HIDE DEF A, M, D
<1>7. /\ Cardinality(M) \in Nat /\ Cardinality(A) \in Nat
      /\ IsFiniteSet(D) /\ Cardinality(D) \in Nat
  BY <1>5, <1>6, FS_Subset, FS_CardinalityType
<1>8. Cardinality(M \cup A) = Cardinality(M) + Cardinality(A)
  BY <1>4, <1>5, DisjointSize
<1>9. /\ IsFiniteSet(Unreported(M)) /\ IsFiniteSet(Unreported(A))
      /\ Cardinality(Unreported(M)) \in Nat
      /\ Cardinality(Unreported(A)) \in Nat
  BY <1>5, FS_Subset, FS_CardinalityType DEF Unreported
<1>10. Cardinality(Unreported(M \cup A))
          = Cardinality(Unreported(M)) + Cardinality(Unreported(A))
  <2>1. /\ Unreported(M \cup A) = Unreported(M) \cup Unreported(A)
        /\ Unreported(M) \cap Unreported(A) = {}
    BY <1>4 DEF Unreported
  <2> QED BY <1>9, <2>1, DisjointSize
<1>11. CASE /\ UNCHANGED <<hostsFacts, noFacts>>
            /\ lostHosts' = lostHosts + Len(Batch(b))
  <2>1. D \subseteq M \cup A
    BY <1>6
  <2>2. Cardinality(D) + lostHosts' + noFacts' = Cardinality(M \cup A)
    BY <1>1, <1>5, <1>6, <1>7, <1>8, <1>11
  <2>3. noFacts' <= Cardinality(Unreported(M \cup A))
    BY <1>1, <1>6, <1>9, <1>10, <1>11
  <2> QED BY <1>3, <1>11, <2>1, <2>2, <2>3 DEF Balanced, D, Unreported, Facts
<1>12. CASE /\ batch[b].pc = "ok"
            /\ DOMAIN hostsFacts' = DOMAIN hostsFacts \cup Named(b)
            /\ noFacts' = noFacts + Cardinality(Missing(b))
            /\ UNCHANGED lostHosts
  <2>1. Named(b) = A \ Unreported(A) /\ Unreported(A) = A \cap Unreported(A)
    BY <1>1, <1>12, WholeBatch DEF A, Unreported
  <2>2. /\ Cardinality(Named(b)) = Cardinality(A) - Cardinality(Unreported(A))
        /\ IsFiniteSet(Named(b))
    <3>1. /\ IsFiniteSet(A \ Unreported(A))
          /\ Cardinality(A \ Unreported(A))
                = Cardinality(A) - Cardinality(A \cap Unreported(A))
      BY <1>5, FS_Difference
    <3> QED BY <2>1, <3>1
  <2>3. D \cap Named(b) = {}
    BY <1>4, <1>6, <2>1
  <2>4. Cardinality(D \cup Named(b)) = Cardinality(D) + Cardinality(Named(b))
    BY <1>7, <2>2, <2>3, DisjointSize
  <2>5. Cardinality(Missing(b)) = Cardinality(Unreported(A))
    BY <1>1, <1>12, MissingSize DEF A
  <2>6. /\ D \cup Named(b) \subseteq M \cup A
        /\ Cardinality(D \cup Named(b)) + lostHosts' + noFacts'
              = Cardinality(M \cup A)
        /\ noFacts' <= Cardinality(Unreported(M \cup A))
    <3>1. D \cup Named(b) \subseteq M \cup A
      BY <1>6, <2>1
    <3> QED BY <1>1, <1>6, <1>7, <1>8, <1>9, <1>10, <1>12, <2>2, <2>4, <2>5,
               <3>1
  <2> QED BY <1>3, <1>12, <2>6 DEF Balanced, D, Unreported, Facts
<1> QED BY <1>11, <1>12

(* Every step keeps the account. *)
LEMMA AccountStep ==
    ASSUME AccountInv, [Next]_vars
    PROVE  AccountInv'
<1>1. FactInv'
  BY FactStep DEF AccountInv
<1>t. /\ FactInv /\ CallInv
      /\ out \in {"nil", "err"} =>
            \A b \in DOMAIN batch : batch[b].pc = "done"
      /\ IsInjective(hosts) => Balanced
  BY DEF AccountInv, FactInv
\* Steps that leave the counters and the merged batches as they are.
<1>2. ASSUME MergedHosts' = MergedHosts, hosts' = hosts,
             UNCHANGED <<hostsFacts, lostHosts, noFacts>>
      PROVE  IsInjective(hosts)' => Balanced'
  BY <1>t, <1>2 DEF Balanced, Unreported, Facts, IsInjective
<1>3. CASE UNCHANGED vars
  <2>1. UNCHANGED <<hosts, slices, batch, hostsFacts, lostHosts, noFacts, out>>
    BY <1>3 DEF vars, splitVars, input, merged
  <2>2. MergedHosts' = MergedHosts
    BY <2>1 DEF MergedHosts, Asked, Places
  <2> QED BY <1>1, <1>2, <1>t, <2>1, <2>2 DEF AccountInv
<1>4. CASE Split
  <2>1. /\ out = "splitting" /\ out' = out /\ hosts' = hosts /\ batch' = batch
        /\ UNCHANGED <<hostsFacts, lostHosts, noFacts>>
    BY <1>4 DEF Split, SplitNext, NextBatch, Shrink, Cut, Finish, input, merged
  <2>2. DOMAIN batch = {}
    BY <1>t, <2>1 DEF CallInv
  <2>3. MergedHosts = {} /\ MergedHosts' = {}
    BY <2>1, <2>2 DEF MergedHosts
  <2> QED BY <1>1, <1>2, <2>1, <2>3 DEF AccountInv
<1>5. CASE Start
  <2>1. /\ out = "splitting" /\ out' = "running" /\ hosts' = hosts
        /\ batch' = [b \in DOMAIN slices |->
                        [pc |-> "queued", page |-> 1, got |-> {}]]
        /\ UNCHANGED <<hostsFacts, lostHosts, noFacts>>
    BY <1>5 DEF Start, splitVars, input, merged
  <2>2. DOMAIN batch = {} /\ \A b \in DOMAIN batch' : batch'[b].pc = "queued"
    BY <1>t, <2>1 DEF CallInv
  <2>3. MergedHosts = {} /\ MergedHosts' = {}
    BY <2>2 DEF MergedHosts
  <2> QED BY <1>1, <1>2, <2>1, <2>3 DEF AccountInv
<1>6. CASE Return
  <2>1. /\ UNCHANGED <<hosts, slices, batch, hostsFacts, lostHosts, noFacts>>
        /\ \A b \in DOMAIN batch : batch[b].pc = "done"
    BY <1>6 DEF Return, splitVars, input, merged
  <2>2. MergedHosts' = MergedHosts
    BY <2>1 DEF MergedHosts, Asked, Places
  <2> QED BY <1>1, <1>2, <2>1, <2>2 DEF AccountInv
<1>7. ASSUME NEW b \in DOMAIN batch, Goroutine(b) PROVE AccountInv'
  <2>1. batch[b].pc # "done"
    BY <1>7 DEF Goroutine, Acquire, PageFails, PageArrives, MergeOk,
                MergeFailed, MergeTruncated
  <2>2. UNCHANGED <<hosts, slices, out>>
    BY <1>7 DEF Goroutine, Acquire, PageFails, PageArrives, MergeOk,
                MergeFailed, MergeTruncated, Done, splitVars, input
  <2>3. out \notin {"nil", "err"}
    BY <1>t, <2>1
  <2>4. batch \in [DOMAIN slices -> Goroutines] /\ b \in DOMAIN slices
    BY <1>t, <2>3 DEF CallInv
  <2>5. ASSUME NEW new, new.pc # "done", batch' = [batch EXCEPT ![b] = new],
               UNCHANGED <<hostsFacts, lostHosts, noFacts>>
        PROVE  IsInjective(hosts)' => Balanced'
    <3>1. /\ DOMAIN batch' = DOMAIN batch
          /\ \A c \in DOMAIN batch : Asked(c)' = Asked(c)
                 /\ (batch'[c].pc = "done" <=> batch[c].pc = "done")
      BY <2>1, <2>2, <2>4, <2>5 DEF Asked, Places
    <3>2. MergedHosts' = MergedHosts
      BY <3>1 DEF MergedHosts
    <3> QED BY <1>2, <2>2, <2>5, <3>2
  <2>6. CASE Acquire(b)
    <3>1. batch' = [batch EXCEPT ![b] = [batch[b] EXCEPT !.pc = "paging"]]
          /\ [batch[b] EXCEPT !.pc = "paging"].pc # "done"
      BY <2>4, <2>6 DEF Acquire, Goroutines
    <3> QED BY <1>1, <2>2, <2>3, <2>5, <2>6, <3>1 DEF Acquire, merged, AccountInv
  <2>7. CASE PageFails(b)
    <3>1. batch' = [batch EXCEPT ![b] = [batch[b] EXCEPT !.pc = "failed"]]
          /\ [batch[b] EXCEPT !.pc = "failed"].pc # "done"
      BY <2>4, <2>7 DEF PageFails, Goroutines
    <3> QED BY <1>1, <2>2, <2>3, <2>5, <2>7, <3>1
            DEF PageFails, merged, AccountInv
  <2>8. CASE PageArrives(b)
    <3>1. batch' = [batch EXCEPT ![b] = batch'[b]] /\ batch'[b].pc # "done"
      BY <2>4, <2>8 DEF PageArrives
    <3> QED BY <1>1, <2>2, <2>3, <2>5, <2>8, <3>1
            DEF PageArrives, merged, AccountInv
  <2>9. ASSUME MergeOk(b) \/ MergeFailed(b) \/ MergeTruncated(b),
               IsInjective(hosts)
        PROVE  Balanced'
    <3>1. batch' = [batch EXCEPT ![b].pc = "done"]
      BY <2>9 DEF MergeOk, MergeFailed, MergeTruncated, Done
    <3>2. CASE MergeOk(b)
      <4>1. DOMAIN hostsFacts' = DOMAIN hostsFacts \cup Named(b)
        BY <3>2 DEF MergeOk, Added
      <4> QED BY <2>1, <2>2, <2>9, <3>1, <3>2, <4>1, AccountMerge DEF MergeOk
    <3>3. CASE MergeFailed(b) \/ MergeTruncated(b)
      BY <2>1, <2>2, <2>9, <3>1, <3>3, AccountMerge
      DEF MergeFailed, MergeTruncated
    <3> QED BY <2>9, <3>2, <3>3
  <2>10. IsInjective(hosts)' => IsInjective(hosts)
    BY <2>2 DEF IsInjective
  <2> QED BY <1>1, <1>7, <2>2, <2>3, <2>6, <2>7, <2>8, <2>9, <2>10
          DEF Goroutine, AccountInv
<1> QED BY <1>3, <1>4, <1>5, <1>6, <1>7 DEF Next, Caller

(* When the call returns, the counters account for every host of the list
   exactly once, whatever order the batches merge in and whatever pages fail:
   exported, lost with its batch, or without a matching fact (the counters
   under the mutex in getHostsFactsBulk). *)
THEOREM HostsAccounted == Spec => []EveryHostAccounted
<1>1. Init => AccountInv
  <2> SUFFICES ASSUME Init PROVE AccountInv
    OBVIOUS
  <2>1. FactInv
    BY FactStart
  <2>2. /\ DOMAIN batch = {} /\ DOMAIN hostsFacts = {}
        /\ lostHosts = 0 /\ noFacts = 0
    BY DEF Init
  <2>3. MergedHosts = {} /\ Unreported(MergedHosts) = {}
    BY <2>2 DEF MergedHosts, Unreported
  <2>4. Balanced
    BY <2>2, <2>3, FS_EmptySet DEF Balanced
  <2> QED BY <2>1, <2>2, <2>4 DEF AccountInv
<1>2. AccountInv /\ [Next]_vars => AccountInv'
  BY AccountStep
<1>3. AccountInv => EveryHostAccounted
  <2> SUFFICES ASSUME AccountInv, out \in {"nil", "err"}, IsInjective(hosts)
               PROVE  /\ Cardinality(DOMAIN hostsFacts) + lostHosts + noFacts
                            = Len(hosts)
                      /\ noFacts <= Cardinality({h \in ToSet(hosts) :
                                                    Facts(h) = {}})
    BY DEF EveryHostAccounted
  <2>1. /\ CallInv /\ SplitInv /\ hosts \in HostLists /\ pc = "done"
        /\ DOMAIN batch = DOMAIN slices /\ hosts \in Seq(Nat)
        /\ \A b \in DOMAIN batch : batch[b].pc = "done"
    BY DEF AccountInv, FactInv, CallInv, SplitInv, SplitTypeOK
  <2>2. Len(hosts) \in Nat /\ DOMAIN hosts = 1..Len(hosts)
    BY <2>1
  <2>3. MergedHosts = ToSet(hosts)
    <3>1. MergedHosts \subseteq ToSet(hosts)
      BY <2>1, MergedFinite
    <3>2. ASSUME NEW x \in DOMAIN hosts PROVE hosts[x] \in MergedHosts
      <4>1. PICK b \in DOMAIN slices : x \in Places(b)
        BY <2>1, <2>2, SlicesCover DEF Places
      <4> QED BY <2>1, <4>1 DEF MergedHosts, Asked
    <3> QED BY <3>1, <3>2 DEF ToSet
  <2>4. IsFiniteSet(DOMAIN hosts) /\ Cardinality(DOMAIN hosts) = Len(hosts)
    <3>1. /\ IsFiniteSet(1..Len(hosts))
          /\ Cardinality(1..Len(hosts)) = IF 1 > Len(hosts) THEN 0
                                          ELSE Len(hosts) - 1 + 1
      BY <2>2, FS_Interval
    <3>2. Cardinality(1..Len(hosts)) = Len(hosts)
      BY <2>2, <3>1
    <3> QED BY <2>2, <3>1, <3>2
  <2>5. Cardinality(ToSet(hosts)) = Len(hosts)
    BY <2>4, ImageSize DEF IsInjective, ToSet
  <2> QED BY <2>3, <2>5 DEF AccountInv, Balanced, Unreported
<1> QED BY <1>1, <1>2, <1>3, PTL DEF Spec

-----------------------------------------------------------------------------
(* The collector's view of the call. *)

\* As long as no batch was lost, what merged batches were asked for and have a
\* fact for is exported, and nothing else ever is.
KeptInv ==
    /\ FactInv
    /\ out \in {"nil", "err"} => \A b \in DOMAIN batch : batch[b].pc = "done"
    /\ \A h \in DOMAIN hostsFacts : Facts(h) # {}
    /\ failed = 0 /\ truncated = 0 =>
          \A b \in DOMAIN batch : batch[b].pc = "done" =>
              \A h \in Asked(b) : Facts(h) # {} => h \in DOMAIN hostsFacts

(* Every step keeps it. *)
LEMMA KeptStep ==
    ASSUME KeptInv, [Next]_vars
    PROVE  KeptInv'
<1>1. FactInv'
  BY FactStep DEF KeptInv
<1>t. /\ FactInv /\ CallInv
      /\ out \in {"nil", "err"} =>
            \A b \in DOMAIN batch : batch[b].pc = "done"
      /\ \A h \in DOMAIN hostsFacts : Facts(h) # {}
      /\ failed = 0 /\ truncated = 0 =>
            \A b \in DOMAIN batch : batch[b].pc = "done" =>
                \A h \in Asked(b) : Facts(h) # {} => h \in DOMAIN hostsFacts
      /\ failed \in Nat /\ truncated \in Nat
  BY DEF KeptInv, FactInv, CallInv
<1>2. CASE UNCHANGED vars
  <2>1. UNCHANGED <<hosts, slices, batch, hostsFacts, failed, truncated, out>>
    BY <1>2 DEF vars, splitVars, input, merged
  <2> QED BY <1>1, <1>t, <2>1 DEF KeptInv, Asked, Places, Facts
<1>3. CASE Split
  <2>1. out' = "splitting" /\ UNCHANGED <<batch, hostsFacts>>
    BY <1>3 DEF Split, merged
  <2>2. DOMAIN batch' = {}
    BY <1>1, <2>1 DEF FactInv, CallInv
  <2> QED BY <1>1, <1>t, <2>1, <2>2 DEF KeptInv, Facts
<1>4. CASE Start
  <2>1. /\ out' = "running" /\ UNCHANGED hostsFacts
        /\ \A b \in DOMAIN batch' : batch'[b].pc = "queued"
    BY <1>4 DEF Start, merged
  <2> QED BY <1>1, <1>t, <2>1 DEF KeptInv, Facts
<1>5. CASE Return
  <2>1. /\ UNCHANGED <<hosts, slices, batch, hostsFacts, failed, truncated>>
        /\ \A b \in DOMAIN batch : batch[b].pc = "done"
    BY <1>5 DEF Return, splitVars, input, merged
  <2> QED BY <1>1, <1>t, <2>1 DEF KeptInv, Asked, Places, Facts
<1>6. ASSUME NEW b \in DOMAIN batch, Goroutine(b) PROVE KeptInv'
  <2>1. batch[b].pc # "done"
    BY <1>6 DEF Goroutine, Acquire, PageFails, PageArrives, MergeOk,
                MergeFailed, MergeTruncated
  <2>2. UNCHANGED <<hosts, slices, out>>
    BY <1>6 DEF Goroutine, Acquire, PageFails, PageArrives, MergeOk,
                MergeFailed, MergeTruncated, Done, splitVars, input
  <2>3. out' \notin {"nil", "err"}
    BY <1>t, <2>1, <2>2
  <2>4. batch \in [DOMAIN slices -> Goroutines] /\ b \in DOMAIN slices
    BY <1>t, <2>2, <2>3 DEF CallInv
  <2>5. /\ DOMAIN batch' = DOMAIN batch
        /\ \A c \in DOMAIN batch :
              /\ Asked(c)' = Asked(c)
              /\ c # b => batch'[c] = batch[c]
    BY <1>6, <2>2, <2>4
    DEF Goroutine, Acquire, PageFails, PageArrives, MergeOk, MergeFailed,
        MergeTruncated, Done, Asked, Places
  <2>6. CASE Acquire(b) \/ PageFails(b) \/ PageArrives(b)
    <3>1. UNCHANGED <<hostsFacts, failed, truncated>> /\ batch'[b].pc # "done"
      BY <2>4, <2>6 DEF Acquire, PageFails, PageArrives, merged, Goroutines
    <3> QED BY <1>1, <1>t, <2>3, <2>5, <3>1 DEF KeptInv, Facts
  <2>7. CASE MergeOk(b)
    <3>1. /\ DOMAIN hostsFacts' = DOMAIN hostsFacts \cup Named(b)
          /\ UNCHANGED <<failed, truncated>>
      BY <2>7 DEF MergeOk, Added
    <3>2. Named(b) = {h \in Asked(b) : Facts(h) # {}}
      BY <1>t, <2>7, WholeBatch DEF MergeOk
    <3> QED BY <1>1, <1>t, <2>3, <2>5, <3>1, <3>2 DEF KeptInv, Facts
  <2>8. CASE MergeFailed(b) \/ MergeTruncated(b)
    <3>1. /\ UNCHANGED hostsFacts
          /\ ~(failed' = 0 /\ truncated' = 0)
      BY <1>t, <2>8 DEF MergeFailed, MergeTruncated
    <3> QED BY <1>1, <1>t, <2>3, <3>1 DEF KeptInv, Facts
  <2> QED BY <1>6, <2>6, <2>7, <2>8 DEF Goroutine
<1> QED BY <1>2, <1>3, <1>4, <1>5, <1>6 DEF Next, Caller

(* Whoever returns without an error has every host that has a fact. *)
LEMMA AnswerHonest ==
    ASSUME KeptInv, Return
    PROVE  Returned' \in Client!Answers
<1> DEFINE reported == {h \in ToSet(hosts) : Facts(h) # {}}
<1>1. /\ UNCHANGED <<hosts, hostsFacts>> /\ out = "running"
      /\ \A b \in DOMAIN batch : batch[b].pc = "done"
      /\ out' = IF Incomplete THEN "err" ELSE "nil"
  BY DEF Return, splitVars, input, merged
<1>2. reported' = reported
  BY <1>1 DEF Facts
<1>3. CASE Incomplete
  <2>1. \/ Returned' = [data |-> "some", err |-> TRUE]
        \/ Returned' = [data |-> "none", err |-> TRUE]
    BY <1>1, <1>3 DEF Returned
  <2> QED BY <2>1 DEF Client!Answers
<1>4. CASE ~Incomplete
  <2>1. /\ SplitInv /\ pc = "done" /\ hosts \in HostLists
        /\ DOMAIN batch = DOMAIN slices
        /\ failed = 0 /\ truncated = 0 /\ hosts \in Seq(Nat)
    BY <1>1, <1>4 DEF KeptInv, FactInv, CallInv, Incomplete, SplitInv,
                      SplitTypeOK
  <2>2. ASSUME NEW h \in reported PROVE h \in DOMAIN hostsFacts
    <3>1. PICK x \in 1..Len(hosts) : h = hosts[x]
      BY <2>1 DEF ToSet
    <3>2. PICK b \in DOMAIN slices : x \in Places(b)
      BY <2>1, SlicesCover DEF Places
    <3>3. h \in Asked(b)
      BY <3>1, <3>2 DEF Asked
    <3> QED BY <1>1, <2>1, <3>2, <3>3 DEF KeptInv
  <2>3. DOMAIN hostsFacts = reported
    BY <2>2 DEF KeptInv, FactInv, Exported
  <2>4. DOMAIN hostsFacts' = reported' /\ out' = "nil"
    BY <1>1, <1>2, <1>4, <2>3
  <2>5. \/ Returned' = [data |-> "whole", err |-> FALSE]
        \/ Returned' = [data |-> "none", err |-> FALSE]
    BY <2>4 DEF Returned
  <2> QED BY <2>5 DEF Client!Answers
<1> QED BY <1>3, <1>4

(* Every step of the call is one the collector may see, or none at all. *)
LEMMA StepImplements ==
    ASSUME KeptInv, [Next]_vars
    PROVE  [Client!ClientNext]_(Client!clientVars)
<1>1. CASE UNCHANGED vars
  <2>1. UNCHANGED <<hosts, hostsFacts, out>>
    BY <1>1 DEF vars, splitVars, input, merged
  <2>2. Returned' = Returned
    BY <2>1 DEF Returned, Facts
  <2> QED BY <2>1, <2>2 DEF Client!clientVars
<1>2. CASE Split \/ Start
  <2>1. out = "splitting" /\ out' \in {"splitting", "running"}
    BY <1>2 DEF Split, Start
  <2> QED BY <2>1 DEF Client!clientVars
<1>3. CASE Return
  <2>1. out = "running" /\ out' \in {"nil", "err"}
    BY <1>3 DEF Return
  <2>2. Returned' \in Client!Answers
    BY <1>3, AnswerHonest
  <2> QED BY <2>1, <2>2 DEF Client!Return, Client!ClientNext
<1>4. ASSUME NEW b \in DOMAIN batch, Goroutine(b)
      PROVE  UNCHANGED Client!clientVars
  <2>1. batch[b].pc # "done" /\ out' = out
    BY <1>4 DEF Goroutine, Acquire, PageFails, PageArrives, MergeOk,
                MergeFailed, MergeTruncated, Done
  <2>2. out \in {"splitting", "running"}
    BY <2>1 DEF KeptInv, FactInv, CallInv
  <2> QED BY <2>1, <2>2 DEF Client!clientVars
<1> QED BY <1>1, <1>2, <1>3, <1>4 DEF Next, Caller

(* A bulk call implements the safety of what the fact collector relies on: it
   answers once, and without an error only when every host of the list that has
   a matching fact is there, whatever batches failed or were truncated
   (getHostsFactsBulk). *)
THEOREM CallImplementsClient == Spec => Client!ClientSafety
<1>1. Init => Client!ClientInit
  BY DEF Init, Client!ClientInit, Client!Spoilt
<1>2. Init => KeptInv
  <2> SUFFICES ASSUME Init PROVE KeptInv
    OBVIOUS
  <2>1. DOMAIN batch = {} /\ DOMAIN hostsFacts = {}
    BY DEF Init
  <2> QED BY <2>1, FactStart DEF KeptInv
<1>3. KeptInv /\ [Next]_vars => KeptInv'
  BY KeptStep
<1>4. KeptInv /\ [Next]_vars => [Client!ClientNext]_(Client!clientVars)
  BY StepImplements
<1> QED BY <1>1, <1>2, <1>3, <1>4, PTL DEF Spec, Client!ClientSafety

=============================================================================
