-------------------------- MODULE SplitHostsProofs --------------------------
(***************************************************************************)
(* splitHosts keeps every host in exactly one batch and every batch within *)
(* its limits, for every list, batch size and URL length.                  *)
(***************************************************************************)
EXTENDS SplitHosts, TLAPS

\* How many hosts the slices cut so far cover.
Covered == IF slices = <<>> THEN 0 ELSE slices[Len(slices)].to

\* A slice that stops at e either had no longer one to stop at or was halved.
Halved(from, to) ==
    \/ to = Longest(from)
    \/ \E e \in {2 * to - from, 2 * to - from + 1} :
            e <= Longest(from) /\ ~Fits(from, e)

\* The loop variables: start is where the last slice ended, and in the inner
\* loop end is a legal end for the next one.
LoopInv ==
    /\ start = Covered
    /\ start <= Len(hosts)
    /\ pc = "inner" =>
          /\ start < end
          /\ end <= Longest(start)
          /\ Halved(start, end)
    /\ pc = "done" => start = Len(hosts)

SplitInv == SplitTypeOK /\ Contiguous /\ BatchFits /\ NotOverSplit /\ LoopInv

-----------------------------------------------------------------------------
(* The limits of a batch depend on the input alone, which never changes. *)
LEMMA InputKept ==
    ASSUME UNCHANGED input
    PROVE  /\ Size' = Size
           /\ \A from : Longest(from)' = Longest(from)
           /\ \A from, to : Fits(from, to)' = Fits(from, to)
<1>1. hosts' = hosts /\ FactBatchSize' = FactBatchSize
        /\ MaxURLLength' = MaxURLLength
  BY DEF input
<1>2. Size' = Size
  BY <1>1 DEF Size
<1>3. \A from : Longest(from)' = Longest(from)
  BY <1>1, <1>2 DEF Longest
<1>4. \A from, to : Fits(from, to)' = Fits(from, to)
  BY <1>1 DEF Fits
<1> QED
  BY <1>2, <1>3, <1>4

(* A batch may hold at least one host, and never runs past the list. *)
LEMMA LongestBounds ==
    ASSUME SplitTypeOK, NEW from \in Nat, from < Len(hosts)
    PROVE  /\ Size \in Nat /\ Size >= 1
           /\ Longest(from) \in Nat
           /\ from < Longest(from)
           /\ Longest(from) <= Len(hosts)
           /\ Longest(from) - from <= Size
<1>1. Len(hosts) \in Nat /\ FactBatchSize \in Int
  BY DEF SplitTypeOK
<1>2. Size \in Nat /\ Size >= 1
  BY <1>1 DEF Size
<1> QED
  BY <1>1, <1>2 DEF Longest

(* The invariant holds when the loops begin. *)
LEMMA SplitStart == SplitInit => SplitInv
<1> SUFFICES ASSUME SplitInit PROVE SplitInv
  OBVIOUS
<1>1. SplitTypeOK
  BY SplitAssumption DEF SplitInit, SplitTypeOK
<1>2. Contiguous /\ BatchFits /\ NotOverSplit
  BY DEF SplitInit, Contiguous, BatchFits, NotOverSplit
<1>3. LoopInv
  BY <1>1 DEF SplitInit, LoopInv, Covered, SplitTypeOK
<1> QED
  BY <1>1, <1>2, <1>3 DEF SplitInv

(* A step that cuts no slice keeps what is known of the ones there are. *)
LEMMA SlicesKept ==
    ASSUME SplitInv, UNCHANGED <<input, slices>>
    PROVE  Contiguous' /\ BatchFits' /\ NotOverSplit' /\ Covered' = Covered
<1>1. UNCHANGED input /\ slices' = slices
  OBVIOUS
<1>2. Contiguous' /\ Covered' = Covered
  BY <1>1 DEF SplitInv, Contiguous, Covered
<1>3. BatchFits'
  BY <1>1, InputKept DEF SplitInv, BatchFits
<1>4. NotOverSplit'
  BY <1>1, InputKept DEF SplitInv, NotOverSplit
<1> QED
  BY <1>2, <1>3, <1>4

(* Every step of the loops keeps the invariant. *)
LEMMA SplitStep == SplitInv /\ [SplitNext]_splitVars => SplitInv'
<1> SUFFICES ASSUME SplitInv, [SplitNext]_splitVars PROVE SplitInv'
  OBVIOUS
<1>t. /\ SplitTypeOK /\ start \in Nat /\ end \in Nat /\ Len(hosts) \in Nat
      /\ slices \in Seq(Slice)
  BY DEF SplitInv, SplitTypeOK
<1>1. CASE NextBatch
  <2>1. UNCHANGED input /\ slices' = slices /\ start' = start
            /\ end' = Longest(start) /\ pc' = "inner" /\ start < Len(hosts)
    BY <1>1 DEF NextBatch
  <2>2. end' \in Nat /\ start < end' /\ end' <= Len(hosts)
    BY <1>t, <2>1, LongestBounds
  <2>3. SplitTypeOK'
    BY <1>t, <2>1, <2>2 DEF SplitTypeOK, input
  <2>4. Halved(start, end)'
    BY <2>1, InputKept DEF Halved
  <2>5. LoopInv'
    BY <2>1, <2>2, <2>4, <1>t, SlicesKept, InputKept DEF SplitInv, LoopInv, input
  <2> QED
    BY <2>1, <2>3, <2>5, SlicesKept DEF SplitInv
<1>2. CASE Shrink
  <2>1. /\ UNCHANGED input /\ slices' = slices /\ start' = start
        /\ pc = "inner" /\ pc' = "inner" /\ end > start + 1
        /\ ~Fits(start, end) /\ end' = start + (end - start) \div 2
    BY <1>2 DEF Shrink
  <2>2. PICK half \in Nat : /\ half = (end - start) \div 2
                            /\ half >= 1 /\ half < end - start
                            /\ end - start \in {2 * half, 2 * half + 1}
    <3>1. end - start \in Nat /\ end - start >= 2
      BY <1>t, <2>1
    <3> QED
      BY <3>1
  <2>3. end' = start + half
    BY <2>1, <2>2
  <2>4. SplitTypeOK'
    BY <1>t, <2>1, <2>2, <2>3 DEF SplitTypeOK, input
  <2>5. end <= Longest(start) /\ start < Len(hosts)
    <3>1. start < end /\ end <= Longest(start)
      BY <2>1 DEF SplitInv, LoopInv
    <3>2. start < Len(hosts)
      BY <3>1, <1>t DEF SplitInv, LoopInv, Longest, Size, SplitTypeOK
    <3> QED
      BY <3>1, <3>2
  <2>6. start < end' /\ end' <= Longest(start) /\ Longest(start) \in Nat
    BY <1>t, <2>2, <2>3, <2>5, LongestBounds
  <2>7. end \in {2 * end' - start, 2 * end' - start + 1}
    BY <1>t, <2>2, <2>3
  <2>8. Halved(start, end)'
    BY <2>1, <2>5, <2>7, InputKept DEF Halved
  <2>9. LoopInv'
    BY <2>1, <2>6, <2>8, <1>t, SlicesKept, InputKept DEF SplitInv, LoopInv, input
  <2> QED
    BY <2>1, <2>4, <2>9, SlicesKept DEF SplitInv
<1>3. CASE Cut
  <2> DEFINE new == [from |-> start, to |-> end]
  <2>1. /\ UNCHANGED input /\ slices' = Append(slices, new)
        /\ start' = end /\ end' = end /\ pc = "inner" /\ pc' = "outer"
        /\ end <= start + 1 \/ Fits(start, end)
    BY <1>3 DEF Cut
  <2>2. start < end /\ end <= Longest(start) /\ Halved(start, end)
            /\ start = Covered /\ start <= Len(hosts)
    BY <2>1 DEF SplitInv, LoopInv
  <2>3. start < Len(hosts)
    BY <2>2, <1>t DEF Longest, Size, SplitTypeOK
  <2>4. end <= Len(hosts) /\ end - start <= Size /\ Size \in Nat
    BY <1>t, <2>2, <2>3, LongestBounds
  <2>5. new \in Slice
    BY <1>t DEF Slice
  <2>6. SplitTypeOK'
    BY <1>t, <2>1, <2>5 DEF SplitTypeOK, input
  <2>7. /\ DOMAIN slices' = DOMAIN slices \cup {Len(slices) + 1}
        /\ Len(slices') = Len(slices) + 1
        /\ slices'[Len(slices) + 1] = new
        /\ \A k \in DOMAIN slices :
              slices'[k] = slices[k] /\ k \in 1..Len(slices)
    BY <1>t, <2>1, <2>5
  <2>8. Contiguous'
    <3> SUFFICES ASSUME NEW k \in DOMAIN slices'
                 PROVE  /\ slices'[k].from =
                              (IF k = 1 THEN 0 ELSE slices'[k - 1].to)
                        /\ slices'[k].from < slices'[k].to
      BY DEF Contiguous
    <3>1. CASE k \in DOMAIN slices
      <4>1. k = 1 \/ k - 1 \in DOMAIN slices
        BY <1>t, <3>1
      <4> QED
        BY <3>1, <4>1, <2>7 DEF SplitInv, Contiguous
    <3>2. CASE k = Len(slices) + 1
      <4>1. CASE slices = <<>>
        BY <3>2, <4>1, <2>2, <2>7 DEF Covered
      <4>2. CASE slices # <<>>
        <5>1. Len(slices) \in DOMAIN slices /\ k # 1
                /\ k - 1 = Len(slices)
          BY <1>t, <3>2, <4>2
        <5>2. start = slices'[k - 1].to
          BY <4>2, <5>1, <2>2, <2>7 DEF Covered
        <5> QED
          BY <3>2, <5>1, <5>2, <2>2, <2>7
      <4> QED
        BY <4>1, <4>2
    <3> QED
      BY <2>7, <3>1, <3>2
  <2>9. BatchFits'
    <3> SUFFICES ASSUME NEW k \in DOMAIN slices'
                 PROVE  LET b == slices'[k]
                        IN /\ b.to - b.from <= Size
                           /\ b.to - b.from > 1 => Fits(b.from, b.to)
      BY <2>1, InputKept DEF BatchFits
    <3>1. CASE k \in DOMAIN slices
      BY <3>1, <2>7 DEF SplitInv, BatchFits
    <3>2. CASE k = Len(slices) + 1
      <4>1. end - start > 1 => Fits(start, end)
        BY <1>t, <2>1
      <4> QED
        BY <3>2, <4>1, <2>4, <2>7
    <3> QED
      BY <2>7, <3>1, <3>2
  <2>10. NotOverSplit'
    <3> SUFFICES ASSUME NEW k \in DOMAIN slices'
                 PROVE  Halved(slices'[k].from, slices'[k].to)
      BY <2>1, InputKept DEF NotOverSplit, Halved
    <3>1. CASE k \in DOMAIN slices
      BY <3>1, <2>7 DEF SplitInv, NotOverSplit, Halved
    <3>2. CASE k = Len(slices) + 1
      BY <3>2, <2>2, <2>7
    <3> QED
      BY <2>7, <3>1, <3>2
  <2>11. LoopInv'
    <3>1. slices' # <<>>
      BY <1>t, <2>1, <2>5
    <3>2. Covered' = end
      BY <3>1, <2>7 DEF Covered
    <3> QED
      BY <3>2, <2>1, <2>4 DEF LoopInv, input
  <2> QED
    BY <2>6, <2>8, <2>9, <2>10, <2>11 DEF SplitInv
<1>4. CASE Finish
  <2>1. /\ UNCHANGED <<input, slices>> /\ start' = start /\ end' = end
        /\ pc' = "done" /\ start >= Len(hosts)
    BY <1>4 DEF Finish
  <2>2. SplitTypeOK'
    BY <1>t, <2>1 DEF SplitTypeOK, input
  <2>3. LoopInv'
    BY <1>t, <2>1, SlicesKept DEF SplitInv, LoopInv, input
  <2> QED
    BY <2>1, <2>2, <2>3, SlicesKept DEF SplitInv
<1>5. CASE UNCHANGED splitVars
  <2>1. UNCHANGED <<input, slices>> /\ start' = start /\ end' = end
            /\ pc' = pc
    BY <1>5 DEF splitVars
  <2>2. SplitTypeOK'
    BY <1>t, <2>1 DEF SplitTypeOK, input
  <2>3. Halved(start, end)' = Halved(start, end)
    BY <2>1, InputKept DEF Halved
  <2>4. LoopInv'
    BY <2>1, <2>3, SlicesKept, InputKept DEF SplitInv, LoopInv, input
  <2> QED
    BY <2>1, <2>2, <2>4, SlicesKept DEF SplitInv
<1> QED
  BY <1>1, <1>2, <1>3, <1>4, <1>5 DEF SplitNext

(* The loop invariant holds throughout splitHosts. *)
THEOREM SplitInvariant == SplitSpec => []SplitInv
<1> QED
  BY SplitStart, SplitStep, PTL DEF SplitSpec

(* Every host ends up in exactly one batch, in order: no host is asked for
   twice and none is left out (splitHosts). *)
THEOREM HostsPartitioned == SplitSpec => []EveryHostOnce
<1>1. SplitInv => EveryHostOnce
  BY DEF SplitInv, EveryHostOnce, LoopInv, Covered
<1> QED
  BY <1>1, SplitInvariant, PTL

(* Every batch respects the batch size and, unless it is a single host, the
   URL length (splitHosts). *)
THEOREM BatchesFit == SplitSpec => []BatchFits
<1>1. SplitInv => BatchFits
  BY DEF SplitInv
<1> QED
  BY <1>1, SplitInvariant, PTL

(* A batch is shorter than it might be only because twice as many hosts did
   not fit (the halving in splitHosts). *)
THEOREM HalvedOnlyWhenNeeded == SplitSpec => []NotOverSplit
<1>1. SplitInv => NotOverSplit
  BY DEF SplitInv
<1> QED
  BY <1>1, SplitInvariant, PTL
=============================================================================
