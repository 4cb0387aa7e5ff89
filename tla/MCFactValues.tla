---------------------------- MODULE MCFactValues ----------------------------
(* Up to four hosts with ids of one, two and four digits, the second of them
   without facts, the others with one to four. *)
EXTENDS FactValues, TLC

\* None, one, several in and out of order, and one host listed twice.
Lists == {<<>>, <<42>>, <<7, 8>>, <<1500, 7, 42>>, <<7, 8, 42, 1500>>,
          <<1500, 42, 8, 7>>, <<8, 42, 8, 7>>}
\* Batch sizes below one, within the list and beyond it.
Sizes == {-1, 1, 2, 3, 20}

Counts == 7 :> 2 @@ 8 :> 0 @@ 42 :> 1 @@ 1500 :> 4
\* A Foreman that applies less than it is asked for and says so, and one that
\* says nothing and applies what it is asked for, with the semaphore's floor.
BothServers ==
    {[concurrency |-> 2, perPage |-> 3, serverMax |-> 2, echoes |-> TRUE],
     [concurrency |-> 0, perPage |-> 2, serverMax |-> 3, echoes |-> FALSE]}
=============================================================================
