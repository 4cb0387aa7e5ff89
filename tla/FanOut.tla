------------------------------- MODULE FanOut -------------------------------
(***************************************************************************)
(* The fan-out that GetHostWithConcurrency and GetHostFactsWithConcurrency *)
(* share: one goroutine per item, a buffered channel as a semaphore, an    *)
(* unbuffered channel that carries the results to the caller, and a sort   *)
(* by index once as many results arrived as there are items.               *)
(***************************************************************************)
EXTENDS Naturals, Sequences, FiniteSets

CONSTANTS
    Failed         \* the response of a request that returned an error

VARIABLES
    concurrency,   \* capacity of the semaphore channel, fixed
    worker,        \* worker[i]: the goroutine of the i-th item
    arrived        \* indices in the order the caller received the results

fanVars == <<worker, arrived>>

Phases == {"queued", "fetching", "sending", "releasing", "done"}

FanInit == worker = <<>> /\ arrived = <<>>

\* One goroutine per item; no item, no goroutine.
Start(n) ==
    /\ worker' = [i \in 1..n |-> [pc |-> "queued", resp |-> Failed]]
    /\ arrived' = <<>>

\* The values in the semaphore channel.
Holding == {i \in DOMAIN worker :
                worker[i].pc \in {"fetching", "sending", "releasing"}}

Acquire(i) ==
    /\ worker[i].pc = "queued"
    /\ Cardinality(Holding) < concurrency
    /\ worker' = [worker EXCEPT ![i] = [@ EXCEPT !.pc = "fetching"]]
    /\ UNCHANGED arrived

\* Mutant of Fetched: a goroutine whose request failed sends no result.
MutFetchedSilent(i, resp) ==
    /\ worker[i].pc = "fetching"
    /\ worker' = [worker EXCEPT ![i] =
            [pc |-> IF resp = Failed THEN "releasing" ELSE "sending",
             resp |-> resp]]
    /\ UNCHANGED arrived

\* The request returns resp, which is Failed when it returned an error.
Fetched(i, resp) ==
    /\ worker[i].pc = "fetching"
    /\ worker' = [worker EXCEPT ![i] = [pc |-> "sending", resp |-> resp]]
    /\ UNCHANGED arrived

\* The results channel is unbuffered: goroutine and caller meet.
Deliver(i) ==
    /\ worker[i].pc = "sending"
    /\ Len(arrived) < Len(worker)
    /\ arrived' = Append(arrived, i)
    /\ worker' = [worker EXCEPT ![i] = [@ EXCEPT !.pc = "releasing"]]

\* The caller may have closed the semaphore by now; a receive still succeeds.
Release(i) ==
    /\ worker[i].pc = "releasing"
    /\ worker' = [worker EXCEPT ![i] = [@ EXCEPT !.pc = "done"]]
    /\ UNCHANGED arrived

RunWorker(i) == Acquire(i) \/ Deliver(i) \/ Release(i)

AllArrived == Len(arrived) = Len(worker)

AllEnded == \A i \in DOMAIN worker : worker[i].pc = "done"

\* Mutant of Results: the sort is missing.
MutUnsorted == [k \in DOMAIN arrived |-> worker[arrived[k]].resp]

\* The results sorted by index, once all have arrived.
Results == [i \in DOMAIN worker |-> worker[i].resp]
=============================================================================
