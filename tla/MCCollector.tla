---------------------------- MODULE MCCollector ----------------------------
(* Instances of Collector for TLC: one instance with overlapping requests, or
   a ring of two. *)
EXTENDS Collector, TLC

CONSTANTS n1, n2, r1, r2

\* Request slots are interchangeable.
ReqSymmetry == Permutations(Reqs)

PlainOne == n1 :> FALSE
NoSkewOne == n1 :> 0

CompressionMixed == n1 :> TRUE @@ n2 :> FALSE
SkewSecond == n1 :> 0 @@ n2 :> 1
NoSkewBoth == n1 :> 0 @@ n2 :> 0
=============================================================================
