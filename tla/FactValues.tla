----------------------------- MODULE FactValues -----------------------------
(***************************************************************************)
(* getHostsFactsBulk: the facts of a host list, cut into batches by        *)
(* splitHosts (see SplitHosts), one goroutine per batch, each paging       *)
(* through /api/v2/fact_values until a page is not full or it has fetched  *)
(* FactMaxPages pages, then merging under the mutex.                       *)
(*                                                                         *)
(* Foreman pages on rows, one per host and fact, so a host can straddle    *)
(* two pages.  A fact is a number; RowsOf fixes Foreman's order.           *)
(***************************************************************************)
EXTENDS SplitHosts, FiniteSets

CONSTANTS
    FactCount,     \* FactCount[h]: how many facts of h match the search
    Filtered,      \* the facts filterFacts drops
    FactMaxPages,  \* pages fetched for one batch at most
    Configs        \* the clients and the servers to look at, see Config

VARIABLES
    conf,          \* the client's flags and the server's habits; fixed
    batch,         \* batch[b]: the goroutine of batch b
    hostsFacts,    \* the result: for each host in it, the facts exported
    failed, truncated, lostHosts, noFacts,   \* the counters under the mutex
    out            \* "splitting", then "running" until the call returned
                   \* "nil" or "err"

merged == <<hostsFacts, failed, truncated, lostHosts, noFacts>>
vars == <<splitVars, conf, batch, merged, out>>

Fleet == UNION {ToSet(l) : l \in HostLists}

Facts(h) == 1..FactCount[h]

Config ==
    [concurrency: Int,        \* --concurrency; less than one counts as one
     perPage: Nat \ {0},      \* per_page asked for, after its default
     serverMax: Nat \ {0},    \* Foreman's own cap on per_page
     echoes: BOOLEAN]         \* the answer carries per_page

\* A Foreman that applies a smaller page than it was asked for says so: nothing
\* else tells the client.
SizeKnown(c) == c.echoes \/ c.perPage <= c.serverMax

ASSUME FactAssumption ==
    /\ FactCount \in [Fleet -> Nat]
    /\ FactMaxPages \in Nat \ {0}
    /\ \A c \in Configs : c \in Config /\ SizeKnown(c)

\* The hosts of batch b.
Batch(b) == SubSeq(hosts, slices[b].from + 1, slices[b].to)

-----------------------------------------------------------------------------
(* Foreman. *)

\* The rows about the hosts in S, in the order Foreman lists them, whatever that
\* is: a host asked for twice is answered once.
RowsOf ==
    [S \in SUBSET Fleet |->
        SetToSeq(UNION {{[host |-> h, fact |-> f] : f \in Facts(h)} : h \in S})]

Rows(b) == RowsOf[ToSet(Batch(b))]

PageSize ==
    IF conf.perPage < conf.serverMax THEN conf.perPage ELSE conf.serverMax

\* GetFactValues of page p, when it succeeds.
GetFactValues(b, p) ==
    LET last == IF p * PageSize < Len(Rows(b)) THEN p * PageSize
                ELSE Len(Rows(b))
    IN [rows |-> SubSeq(Rows(b), (p - 1) * PageSize + 1, last),
        perPage |-> IF conf.echoes THEN PageSize ELSE 0]

-----------------------------------------------------------------------------
(* GetFactValuesBatch and the goroutine around it. *)

Phases == {"queued", "paging", "ok", "failed", "truncated", "done"}

Init ==
    /\ SplitInit
    /\ conf \in Configs
    /\ batch = <<>>
    /\ hostsFacts = [h \in {} |-> {}]
    /\ failed = 0 /\ truncated = 0 /\ lostHosts = 0 /\ noFacts = 0
    /\ out = "splitting"

Split ==
    /\ out = "splitting"
    /\ SplitNext
    /\ UNCHANGED <<conf, batch, merged, out>>

\* One goroutine per batch.
Start ==
    /\ out = "splitting"
    /\ pc = "done"
    /\ batch' = [b \in DOMAIN slices |->
                    [pc |-> "queued", page |-> 1, got |-> {}]]
    /\ out' = "running"
    /\ UNCHANGED <<splitVars, conf, merged>>

Holding == {b \in DOMAIN batch : batch[b].pc \notin {"queued", "done"}}

\* Mutant of SemSize: the floor of one place is missing.
MutSemRaw == conf.concurrency

SemSize == IF conf.concurrency < 1 THEN 1 ELSE conf.concurrency

Acquire(b) ==
    /\ batch[b].pc = "queued"
    /\ Cardinality(Holding) < SemSize
    /\ batch' = [batch EXCEPT ![b].pc = "paging"]
    /\ UNCHANGED <<splitVars, conf, merged, out>>

PageFails(b) ==
    /\ batch[b].pc = "paging"
    /\ batch' = [batch EXCEPT ![b].pc = "failed"]
    /\ UNCHANGED <<splitVars, conf, merged, out>>

\* The page size Foreman says it applied, or else the one it was asked for.
EffPerPage(resp) == IF resp.perPage <= 0 THEN conf.perPage ELSE resp.perPage

\* Mutant of LastPage: one page too many.
MutLastPageOver(p) == p > FactMaxPages

\* Mutant of LastPage: the last allowed page is not fetched.
MutLastPageEarly(p) == p >= FactMaxPages - 1

LastPage(p) == p >= FactMaxPages

\* A page that is not full is the last one; after FactMaxPages full pages the
\* batch gives up.
PageArrives(b) ==
    /\ batch[b].pc = "paging"
    /\ LET resp == GetFactValues(b, batch[b].page)
           full == Len(resp.rows) >= EffPerPage(resp)
       IN batch' = [batch EXCEPT
            ![b] = [pc |-> CASE ~full -> "ok"
                             [] full /\ LastPage(@.page) -> "truncated"
                             [] OTHER -> "paging",
                    page |-> @.page + 1,
                    got |-> @.got \cup ToSet(resp.rows)]]
    /\ UNCHANGED <<splitVars, conf, merged, out>>

Named(b) == {r.host : r \in batch[b].got}

\* Mutant of Missing: every host whose batch is merged counts.
MutMissingAll(b) == DOMAIN Batch(b)

\* missingHosts: the places in the batch of hosts without a single row.
Missing(b) == {n \in DOMAIN Batch(b) : Batch(b)[n] \notin Named(b)}

filterFacts(facts) == facts \ Filtered

\* The end of a goroutine: it leaves the mutex, the semaphore, the wait group.
Done(b) ==
    /\ batch' = [batch EXCEPT ![b].pc = "done"]
    /\ UNCHANGED <<splitVars, conf, out>>

Added(b) ==
    [h \in DOMAIN hostsFacts \cup Named(b) |->
        IF h \in Named(b)
        THEN filterFacts({r.fact : r \in {q \in batch[b].got : q.host = h}})
        ELSE hostsFacts[h]]

MergeOk(b) ==
    /\ batch[b].pc = "ok"
    /\ noFacts' = noFacts + Cardinality(Missing(b))
    /\ hostsFacts' = Added(b)
    /\ UNCHANGED <<failed, truncated, lostHosts>>
    /\ Done(b)

\* Mutant of MergeFailed: the pages that did come back are kept.
MutMergeFailedKeeps(b) ==
    /\ batch[b].pc = "failed"
    /\ failed' = failed + 1
    /\ lostHosts' = lostHosts + Len(Batch(b))
    /\ hostsFacts' = Added(b)
    /\ UNCHANGED <<truncated, noFacts>>
    /\ Done(b)

\* What a failed or truncated batch brought back is dropped.
MergeFailed(b) ==
    /\ batch[b].pc = "failed"
    /\ failed' = failed + 1
    /\ lostHosts' = lostHosts + Len(Batch(b))
    /\ UNCHANGED <<hostsFacts, truncated, noFacts>>
    /\ Done(b)

MergeTruncated(b) ==
    /\ batch[b].pc = "truncated"
    /\ truncated' = truncated + 1
    /\ lostHosts' = lostHosts + Len(Batch(b))
    /\ UNCHANGED <<hostsFacts, failed, noFacts>>
    /\ Done(b)

\* Mutant of Incomplete: truncated batches are not an error.
MutIncompleteFailed == failed > 0

Incomplete == failed > 0 \/ truncated > 0

\* After wg.Wait.
Return ==
    /\ out = "running"
    /\ \A b \in DOMAIN batch : batch[b].pc = "done"
    /\ out' = IF Incomplete THEN "err" ELSE "nil"
    /\ UNCHANGED <<splitVars, conf, batch, merged>>

Goroutine(b) ==
    \/ Acquire(b) \/ PageFails(b) \/ PageArrives(b)
    \/ MergeOk(b) \/ MergeFailed(b) \/ MergeTruncated(b)

Caller == Split \/ Start \/ Return

Next == Caller \/ \E b \in DOMAIN batch : Goroutine(b)

Spec == Init /\ [][Next]_vars

\* No call has more batches than hosts.
Slots == 1..(CHOOSE n \in {Len(l) : l \in HostLists} :
                \A l \in HostLists : Len(l) <= n)

\* The scheduler runs every goroutine, and Foreman answers or refuses.
FairSpec ==
    /\ Spec /\ WF_vars(Caller)
    /\ \A b \in Slots : WF_vars(b \in DOMAIN batch /\ Goroutine(b))

-----------------------------------------------------------------------------
(* Properties. *)

TypeOK ==
    /\ SplitTypeOK
    /\ conf \in Configs
    /\ out \in {"splitting", "running", "nil", "err"}
    /\ \A b \in DOMAIN batch :
          /\ batch[b].pc \in Phases
          /\ batch[b].page \in 1..(FactMaxPages + 1)
          /\ batch[b].got \subseteq ToSet(Rows(b))
    /\ DOMAIN hostsFacts \subseteq ToSet(hosts)
    /\ {failed, truncated, lostHosts, noFacts} \subseteq Nat

(* A host is exported with every fact that passes the filter or not at all, at
   any moment: facts are labels, and a shorter label set is another series. *)
WholeOrAbsent ==
    \A h \in DOMAIN hostsFacts : hostsFacts[h] = Facts(h) \ Filtered

\* How many rows a batch may have before it is given up.
RowLimit == FactMaxPages * PageSize

(* A batch whose rows leave room on the last page it may fetch is never given
   up for its length, and a batch that is taken has all its rows: the paging
   loop neither drops what fits nor stops short, whether or not Foreman clamps
   or echoes the page size (the loop of GetFactValuesBatch). *)
FittingBatchesTaken ==
    \A b \in DOMAIN batch :
        /\ Len(Rows(b)) < RowLimit => batch[b].pc # "truncated"
        /\ batch[b].pc = "ok" => batch[b].got = ToSet(Rows(b))

(* The counters account for every host exactly once, whatever order the
   batches merge in: exported, lost with its batch, or without matching fact;
   and the last group holds only hosts that really have none.  A list that
   names a host twice counts it twice. *)
EveryHostAccounted ==
    (out \in {"nil", "err"} /\ IsInjective(hosts)) =>
        /\ Cardinality(DOMAIN hostsFacts) + lostHosts + noFacts = Len(hosts)
        /\ noFacts <= Cardinality({h \in ToSet(hosts) : Facts(h) = {}})

(* The call returns whatever the batches and whatever pages fail, for any
   configured concurrency: halving ends and nobody waits for the semaphore. *)
Returns == <>(out \in {"nil", "err"})

-----------------------------------------------------------------------------
(* What the fact collector relies on. *)

\* What a returned call amounts to; "less" is no answer of ScrapeClient.
Returned ==
    LET reported == {h \in ToSet(hosts) : Facts(h) # {}}
    IN [data |-> CASE DOMAIN hostsFacts # {} /\ out = "err" -> "some"
                   [] DOMAIN hostsFacts = {} /\ out = "err" -> "none"
                   [] DOMAIN hostsFacts # reported /\ out = "nil" -> "less"
                   [] OTHER -> IF reported = {} THEN "none" ELSE "whole",
        err |-> out = "err"]

Client == INSTANCE ScrapeClient WITH
    calling <- out \in {"splitting", "running"},
    calm <- TRUE,
    answer <- IF out \in {"nil", "err"} THEN Returned
              ELSE [data |-> "any", err |-> TRUE]

(* getHostsFactsBulk implements what the collector relies on: it returns, and
   without an error only when every host with a matching fact is there. *)
ImplementsClient == Client!ClientSpec

-----------------------------------------------------------------------------
(* What the comments and the documentation say and the code does not do. *)

(* factvalues.go, at the truncated case: such a batch ran out of pages before
   Foreman ran out of rows, so the facts it returned are incomplete. *)
TruncatedIsIncomplete ==
    \A b \in DOMAIN batch :
        batch[b].pc = "truncated" => batch[b].got # ToSet(Rows(b))
=============================================================================
