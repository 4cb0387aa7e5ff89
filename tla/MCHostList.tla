----------------------------- MODULE MCHostList -----------------------------
(* Fleets of up to five hosts on pages of one to three. *)
EXTENDS HostList

\* An empty fleet, one host, and pages that are full or not.
FewFleets == {{}, {2}, {1, 2, 4}}
FourHosts == {{2, 3, 4, 5}}

Usual == [call |-> "hosts", perPage |-> 2, serverMax |-> 5, echoes |-> TRUE,
          subtotal |-> TRUE, others |-> 1, limit |-> 0, concurrency |-> 2]
UsualFacts == [Usual EXCEPT !.call = "facts", !.perPage = 1]

(* Pages as asked for; a limit, by the total alone or cutting off a host without
   facts; a server that applies less than asked for; one that does not say so,
   asked for what it can give. *)
ManyConfigs ==
    {Usual,
     [Usual EXCEPT !.limit = 3, !.perPage = 1, !.subtotal = FALSE, !.others = 0],
     [Usual EXCEPT !.serverMax = 1, !.concurrency = 1],
     UsualFacts,
     [UsualFacts EXCEPT !.limit = 2],
     [UsualFacts EXCEPT !.perPage = 3, !.serverMax = 2, !.concurrency = 1],
     [UsualFacts EXCEPT !.perPage = 2, !.echoes = FALSE, !.subtotal = FALSE]}

BothCalls == {Usual, UsualFacts}
=============================================================================
