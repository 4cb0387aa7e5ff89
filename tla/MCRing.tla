------------------------------- MODULE MCRing -------------------------------
(* A ring of two or of three, larger rings with fewer faults. *)
EXTENDS Ring, TLC

CONSTANTS n1, n2, n3

\* Instances differ only in the tokens they draw.
NodeSymmetry == Permutations(Nodes)

Faults == 2 :> 3 @@ 3 :> 1
=============================================================================
