------------------------------ MODULE HostList ------------------------------
(***************************************************************************)
(* GetHostsFiltered and GetHostsFactsFiltered, from the first request to   *)
(* the value they return, against a Foreman whose hosts come and go while  *)
(* the pages are fetched.  The bulk mode of the facts is in FactValues.    *)
(*                                                                         *)
(* Hosts are numbers; Foreman lists the ones that match in that order, and *)
(* page p of size k holds the positions (p-1)k+1 to pk at the time it is   *)
(* asked for.                                                              *)
(***************************************************************************)
EXTENDS Integers, Sequences, FiniteSets, SequencesExt

CONSTANTS
    Hosts,          \* every host there may be
    InitialFleets,  \* the sets of hosts that may match at first
    Silent,         \* hosts that reported no matching fact
    Configs,        \* the calls to look at, see Config
    MaxChanges,     \* bound on the changes of the fleet
    Failed          \* the response of a request that failed

VARIABLES
    conf,           \* the call, its flags and the server's habits; fixed
    fleet,          \* the hosts that match the search now
    changes,        \* how often the fleet has changed
    pc,             \* where the call is
    expected,       \* expectedHosts of the first response
    hosts,          \* the list so far (GetHostsFactsFiltered)
    steady,         \* ghost: the hosts that matched during the whole call
    calm,           \* ghost: the fleet is the one the call began with
    out,            \* the value returned last
    worker, arrived \* the fan-out, see FanOut

foreman == <<fleet, changes, steady, calm>>
callVars == <<pc, expected, hosts, out>>
fanVars == <<worker, arrived>>
vars == <<conf, foreman, callVars, fanVars>>

Fan == INSTANCE FanOut WITH concurrency <- conf.concurrency

Config ==
    [call: {"hosts", "facts"},   \* GetHostsFiltered, GetHostsFactsFiltered
     perPage: Nat \ {0},         \* per_page the caller wants
     serverMax: Nat \ {0},       \* Foreman's own cap on per_page
     echoes: BOOLEAN,            \* the answer carries per_page
     subtotal: BOOLEAN,          \* the answer carries subtotal
     others: Nat,                \* hosts outside the search, in total only
     limit: Nat,                 \* --limit, 0 for none
     concurrency: Nat]           \* --concurrency

ASSUME HostListAssumption ==
    /\ Hosts \subseteq Nat /\ IsFiniteSet(Hosts)
    /\ \A f \in InitialFleets : f \subseteq Hosts
    /\ Silent \subseteq Hosts
    /\ \A c \in Configs : c \in Config
    /\ MaxChanges \in Nat

Lesser(a, b) == IF a < b THEN a ELSE b

-----------------------------------------------------------------------------
(* Foreman. *)

Ordered(list) == \A i, j \in DOMAIN list : i < j => list[i] < list[j]

\* The hosts of a set in Foreman's order.
ListOf ==
    [S \in SUBSET Hosts |->
        CHOOSE list \in [1..Cardinality(S) -> S] : Ordered(list)]

Listed == ListOf[fleet]

\* GetHosts(page, perPage), when it succeeds.
GetHosts(page, perPage) ==
    LET size == Lesser(perPage, conf.serverMax)
        upto == Lesser(page * size, Len(Listed))
    IN [results |-> SubSeq(Listed, (page - 1) * size + 1, upto),
        subtotal |-> IF conf.subtotal THEN Cardinality(fleet) ELSE -1,
        total |-> Cardinality(fleet) + conf.others,
        perPage |-> IF conf.echoes THEN size ELSE 0]

Change(f) ==
    /\ changes < MaxChanges
    /\ changes' = changes + 1
    /\ fleet' = f
    /\ steady' = steady \cap f
    /\ calm' = FALSE
    /\ UNCHANGED <<conf, callVars, fanVars>>

Churn == \E h \in Hosts : \/ h \in fleet /\ Change(fleet \ {h})
                          \/ h \notin fleet /\ Change(fleet \cup {h})

-----------------------------------------------------------------------------
(* The client. *)

\* Mutant of expectedHosts: no fallback when Foreman reports no subtotal.
MutSubtotalOnly(resp) == resp.subtotal

\* total alone when Foreman does not report subtotal.
expectedHosts(resp) ==
    IF resp.subtotal # -1 THEN resp.subtotal ELSE resp.total

Capped(n) == IF conf.limit # 0 /\ conf.limit < n THEN conf.limit ELSE n

pageCount(n, perPage) ==
    IF perPage <= 0 \/ n <= 0 THEN 0
    ELSE (Capped(n) + perPage - 1) \div perPage

AskedPerPage == Capped(conf.perPage)

Return(list, err) ==
    /\ pc' = "idle"
    /\ out' = [hosts |-> list, err |-> err]

Init ==
    /\ conf \in Configs
    /\ fleet \in InitialFleets
    /\ changes = 0
    /\ steady = fleet
    /\ calm = FALSE
    /\ pc = "idle"
    /\ expected = 0
    /\ hosts = <<>>
    /\ out = [hosts |-> <<>>, err |-> TRUE]
    /\ Fan!FanInit

\* The collector calls; goroutines of the call before it have all delivered.
Begin ==
    /\ pc = "idle"
    /\ Fan!AllEnded
    /\ pc' = "first"
    /\ steady' = fleet
    /\ calm' = TRUE
    /\ hosts' = <<>>
    /\ UNCHANGED <<conf, fleet, changes, expected, out, fanVars>>

FirstFails ==
    /\ pc = "first"
    /\ Return(<<>>, TRUE)
    /\ UNCHANGED <<conf, foreman, expected, hosts, fanVars>>

\* GetHostsFiltered asks for one row, for the counters only.
Probe ==
    /\ conf.call = "hosts" /\ pc = "first"
    /\ LET resp == GetHosts(1, 1)
           pages == pageCount(expectedHosts(resp), AskedPerPage)
       IN /\ expected' = expectedHosts(resp)
          /\ IF pages = 0
             THEN Return(<<>>, FALSE) /\ UNCHANGED fanVars
             ELSE pc' = "list" /\ Fan!Start(pages) /\ UNCHANGED out
    /\ UNCHANGED <<conf, foreman, hosts>>

\* Mutant of EffPerPage: the requested size, although Foreman applied less.
MutRequestedPerPage(resp) == AskedPerPage

\* The size Foreman says it applied, if it says so.
EffPerPage(resp) == IF resp.perPage <= 0 THEN AskedPerPage ELSE resp.perPage

\* GetHostsFactsFiltered keeps the first page and fans out the others; with no
\* page left, or no host in it, the next fan-out has no item.
FirstPage ==
    /\ conf.call = "facts" /\ pc = "first"
    /\ LET resp == GetHosts(1, AskedPerPage)
           pages == pageCount(expectedHosts(resp), EffPerPage(resp))
       IN /\ expected' = expectedHosts(resp)
          /\ hosts' = resp.results
          /\ IF pages > 1
             THEN pc' = "list" /\ Fan!Start(pages - 1)
             ELSE pc' = "facts" /\ Fan!Start(Len(resp.results))
    /\ UNCHANGED <<conf, foreman, out>>

\* GetHostsFiltered fans out every page, GetHostsFactsFiltered all but the first
\* one: Foreman echoes the page number it was asked for.
PageOf(i) == IF conf.call = "hosts" THEN i ELSE i + 1

FetchPage(i) ==
    /\ pc = "list"
    /\ \/ Fan!Fetched(i, GetHosts(PageOf(i), AskedPerPage).results)
       \/ Fan!Fetched(i, Failed)
    /\ UNCHANGED <<conf, foreman, callVars>>

\* GetHostFacts of a host that is gone answers 404; one that reported nothing
\* is absent from its own response.
FetchFacts(i) ==
    /\ pc = "facts"
    /\ \/ /\ hosts[i] \in fleet
          /\ Fan!Fetched(i, IF hosts[i] \in Silent THEN <<>> ELSE <<hosts[i]>>)
       \/ Fan!Fetched(i, Failed)
    /\ UNCHANGED <<conf, foreman, callVars>>

Work(i) ==
    /\ Fan!RunWorker(i)
    /\ UNCHANGED <<conf, foreman, callVars>>

\* What the i-th result contributes: nothing when it failed.
Part(i) == IF Fan!Results[i] = Failed THEN <<>> ELSE Fan!Results[i]

\* The results that did not fail, one after the other.
Joined == FlattenSeq([i \in DOMAIN worker |-> Part(i)])

AnyFailed == \E i \in DOMAIN worker : Fan!Results[i] = Failed

\* Mutant of ShortRead: the total is not compared.
MutShortReadBlind(n) == FALSE

\* Fewer hosts came back than the first response promised.
ShortRead(n) == n < Capped(expected)

\* GetHostsFiltered returns what it has, with an error when that is too little.
ReturnHosts ==
    /\ conf.call = "hosts" /\ pc = "list"
    /\ Fan!AllArrived
    /\ Return(Joined, AnyFailed \/ ShortRead(Len(Joined)))
    /\ UNCHANGED <<conf, foreman, expected, hosts, fanVars>>

\* A lost page is fatal to GetHostsFactsFiltered.
PagesFailed ==
    /\ conf.call = "facts" /\ pc = "list"
    /\ Fan!AllArrived
    /\ AnyFailed
    /\ Return(<<>>, TRUE)
    /\ UNCHANGED <<conf, foreman, expected, hosts, fanVars>>

\* Otherwise the next fan-out asks for the facts of each host.  The goroutines
\* of the first one are still releasing a semaphore of their own.
StartFacts ==
    /\ conf.call = "facts" /\ pc = "list"
    /\ Fan!AllArrived
    /\ ~AnyFailed
    /\ hosts' = hosts \o Joined
    /\ Fan!Start(Len(hosts \o Joined))
    /\ pc' = "facts"
    /\ UNCHANGED <<conf, foreman, expected, out>>

\* The facts go into a map by host name, whose keys are shown here in order.
ReturnFacts ==
    /\ pc = "facts"
    /\ Fan!AllArrived
    /\ Return(ListOf[UNION {ToSet(Part(i)) : i \in DOMAIN worker}], AnyFailed)
    /\ UNCHANGED <<conf, foreman, expected, hosts, fanVars>>

Client ==
    \/ FirstFails \/ Probe \/ FirstPage
    \/ ReturnHosts \/ PagesFailed \/ StartFacts \/ ReturnFacts

Goroutine(i) == FetchPage(i) \/ FetchFacts(i) \/ Work(i)

Next ==
    \/ Begin
    \/ Client
    \/ \E i \in DOMAIN worker : Goroutine(i)
    \/ Churn

\* No call of these instances has more goroutines.
Slots == 1..(Cardinality(Hosts) + 3)

\* The scheduler runs every goroutine and Foreman answers or refuses.
Spec ==
    /\ Init /\ [][Next]_vars
    /\ WF_vars(Client)
    /\ \A i \in Slots : WF_vars(i \in DOMAIN worker /\ Goroutine(i))

-----------------------------------------------------------------------------
(* Properties. *)

TypeOK ==
    /\ conf \in Configs
    /\ fleet \subseteq Hosts /\ steady \subseteq fleet
    /\ changes \in 0..MaxChanges /\ calm \in BOOLEAN
    /\ pc \in {"idle", "first", "list", "facts"}
    /\ expected \in Nat
    /\ hosts \in Seq(Hosts)
    /\ out \in [hosts : Seq(Hosts), err : BOOLEAN]
    /\ \A i \in DOMAIN worker :
          /\ worker[i].pc \in Fan!Phases
          /\ worker[i].resp = Failed \/ worker[i].resp \in Seq(Hosts)
    /\ arrived \in Seq(DOMAIN worker)

\* The hosts a complete answer names.
Wanted == IF conf.call = "hosts" THEN fleet ELSE fleet \ Silent

\* Those of them that --limit does not let the call leave out.
Due == Wanted \cap ToSet(SubSeq(Listed, 1, Capped(Len(Listed))))

\* The last call returned hosts that are wanted, in Foreman's order, each once
\* and none skipped, and all that are due.
Exact ==
    LET named == ToSet(out.hosts)
    IN /\ Ordered(out.hosts)
       /\ Due \subseteq named /\ named \subseteq Wanted
       /\ \A h \in Wanted, g \in named : h < g => h \in named

\* Foreman applies the page size it was asked for, or says which one it did;
\* GetHostsFiltered counts and does not depend on it.
SizeKnown ==
    conf.call = "hosts" \/ conf.echoes \/ AskedPerPage <= conf.serverMax

(* While the fleet stands still, a list returned without an error is exact, in
   whatever order the pages came back and whatever page size Foreman applied. *)
ExactWhenSteady == (pc = "idle" /\ calm /\ ~out.err /\ SizeKnown) => Exact

(* A failed page or a failed host costs only itself: in a steady fleet what is
   returned beside an error still has no host twice and keeps their order. *)
PartialInOrder ==
    (pc = "idle" /\ calm) => Ordered(out.hosts)

(* With a semaphore of at least one place every call returns, and its last
   goroutines end: nobody waits for a channel nobody serves. *)
CallsReturn ==
    conf.concurrency > 0 => (pc # "idle") ~> (pc = "idle" /\ Fan!AllEnded)

-----------------------------------------------------------------------------
(* What the collectors rely on. *)

\* What a returned call amounts to; "less" is no answer of ScrapeClient.
Returned ==
    [data |-> CASE out.err -> IF out.hosts = <<>> THEN "none" ELSE "some"
                [] ~out.err /\ ~Exact -> "less"
                [] OTHER -> IF out.hosts = <<>> THEN "none" ELSE "whole",
     err |-> out.err]

Caller == INSTANCE ScrapeClient WITH
    calling <- pc # "idle",
    answer <- IF pc = "idle" /\ calm THEN Returned
              ELSE [data |-> "any", err |-> TRUE]

(* Both calls implement what the collectors rely on: while the fleet stands
   still they say truthfully whether the list is all there is, and, with a
   semaphore of at least one place, they return. *)
ImplementsClient == Caller!ClientSpec

-----------------------------------------------------------------------------
(* What the comments say and the code does not do. *)

(* foreman.go, GetHostsFiltered and GetHostsFactsFiltered: an incomplete host
   list is reported, so a list returned without an error names every host that
   matched during the whole call. *)
SteadyHostsListed ==
    (pc = "idle" /\ ~out.err /\ conf.limit = 0) =>
        steady \cap Wanted \subseteq ToSet(out.hosts)
=============================================================================
