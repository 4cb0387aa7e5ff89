----------------------------- MODULE SplitHosts -----------------------------
(***************************************************************************)
(* splitHosts of the fact client: the loop that cuts a host list into      *)
(* batches of at most FactBatchSize hosts whose search fits in a URL, by   *)
(* halving a batch until it does.  A batch is the slice hosts[from:to], so *)
(* from counts the hosts before it.                                        *)
(***************************************************************************)
EXTENDS Integers, Sequences, SequencesExt

CONSTANTS
    HostLists,     \* the lists of host ids to split
    BatchSizes,    \* values of --collector.hostfact.batch-size
    URLLengths,    \* values of --collector.hostfact.max-url-length
    Fixed,         \* encoded length of the search apart from the ids
    InOperator     \* --collector.hostfact.in-operator: "^" or "or"

VARIABLES
    hosts, FactBatchSize, MaxURLLength,  \* the input
    pc,            \* "outer" or "inner": which loop; "done" at the return
    start, end,    \* the loop variables
    slices         \* the batches cut so far

input == <<hosts, FactBatchSize, MaxURLLength>>
splitVars == <<input, pc, start, end, slices>>

ASSUME SplitAssumption ==
    /\ \A l \in HostLists : l \in Seq(Nat)
    /\ BatchSizes \subseteq Int
    /\ URLLengths \subseteq Int
    /\ Fixed \in Nat
    /\ InOperator \in {"^", "or"}

-----------------------------------------------------------------------------
\* The length of an id in decimal.
Digits[id \in Nat] == IF id < 10 THEN 1 ELSE 1 + Digits[id \div 10]

\* What escaping makes of the text an id brings along: "%2C+" from the list of
\* the operator ^, "host_id+%3D+" and "+or+" from its spelled-out form.
PerId == IF InOperator = "or" THEN 16 ELSE 4

\* searchURLLen(buildFactSearch(ids)).
SearchLen(ids) ==
    FoldSeq(LAMBDA id, n : n + Digits[id] + PerId, Fixed, ids)

Fits(from, to) == SearchLen(SubSeq(hosts, from + 1, to)) <= MaxURLLength

\* A batch size below 1 counts as 1.
Size == IF FactBatchSize < 1 THEN 1 ELSE FactBatchSize

\* Mutant of Longest: the batch may run one host past its size.
MutLongestOver(from) ==
    IF from + Size + 1 > Len(hosts) THEN Len(hosts) ELSE from + Size + 1

\* Where a batch that begins after from hosts ends at the latest.
Longest(from) == IF from + Size > Len(hosts) THEN Len(hosts) ELSE from + Size

-----------------------------------------------------------------------------
SplitInit ==
    /\ hosts \in HostLists
    /\ FactBatchSize \in BatchSizes
    /\ MaxURLLength \in URLLengths
    /\ pc = "outer"
    /\ start = 0
    /\ end = 0
    /\ slices = <<>>

NextBatch ==
    /\ pc = "outer"
    /\ start < Len(hosts)
    /\ end' = Longest(start)
    /\ pc' = "inner"
    /\ UNCHANGED <<input, start, slices>>

\* Mutant of Shrink: one host goes at a time.
MutShrinkByOne ==
    /\ pc = "inner"
    /\ end > start + 1
    /\ ~Fits(start, end)
    /\ end' = end - 1
    /\ UNCHANGED <<input, pc, start, slices>>

Shrink ==
    /\ pc = "inner"
    /\ end > start + 1
    /\ ~Fits(start, end)
    /\ end' = start + (end - start) \div 2
    /\ UNCHANGED <<input, pc, start, slices>>

\* Mutant of Cut: the next batch begins one host late.
MutCutSkips ==
    /\ pc = "inner"
    /\ end <= start + 1 \/ Fits(start, end)
    /\ slices' = Append(slices, [from |-> start, to |-> end])
    /\ start' = end + 1
    /\ pc' = "outer"
    /\ UNCHANGED <<input, end>>

Cut ==
    /\ pc = "inner"
    /\ end <= start + 1 \/ Fits(start, end)
    /\ slices' = Append(slices, [from |-> start, to |-> end])
    /\ start' = end
    /\ pc' = "outer"
    /\ UNCHANGED <<input, end>>

Finish ==
    /\ pc = "outer"
    /\ start >= Len(hosts)
    /\ pc' = "done"
    /\ UNCHANGED <<input, start, end, slices>>

SplitNext == NextBatch \/ Shrink \/ Cut \/ Finish

SplitSpec == SplitInit /\ [][SplitNext]_splitVars

-----------------------------------------------------------------------------
(* Properties. *)

Slice == [from: Nat, to: Nat]

SplitTypeOK ==
    /\ hosts \in Seq(Nat) /\ FactBatchSize \in Int /\ MaxURLLength \in Int
    /\ pc \in {"outer", "inner", "done"}
    /\ start \in Nat /\ end \in Nat
    /\ slices \in Seq(Slice)

\* The slices lie end to end from the first host on, none of them empty.
Contiguous ==
    \A k \in DOMAIN slices :
        /\ slices[k].from = (IF k = 1 THEN 0 ELSE slices[k - 1].to)
        /\ slices[k].from < slices[k].to

(* The batches cover the list: every host is in exactly one of them, in order,
   whatever the sizes, so no host is asked for twice or not at all. *)
EveryHostOnce ==
    /\ Contiguous
    /\ pc = "done" =>
          Len(hosts) = (IF slices = <<>> THEN 0 ELSE slices[Len(slices)].to)

(* A batch respects both limits: never more hosts than its size, and a search
   that fits in the URL unless the batch is down to a single host. *)
BatchFits ==
    \A k \in DOMAIN slices :
        LET b == slices[k]
        IN /\ b.to - b.from <= Size
           /\ b.to - b.from > 1 => Fits(b.from, b.to)

(* A batch is cut short only where it had to be: either it is as long as size
   and list allow, or one twice as long, give or take the odd host, would not
   have fitted. *)
NotOverSplit ==
    \A k \in DOMAIN slices :
        LET b == slices[k]
        IN \/ b.to = Longest(b.from)
           \/ \E e \in {2 * b.to - b.from, 2 * b.to - b.from + 1} :
                  e <= Longest(b.from) /\ ~Fits(b.from, e)
=============================================================================
