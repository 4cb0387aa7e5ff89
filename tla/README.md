# foreman_exporter in TLA+

A verification project for foreman_exporter: TLA+ models of its collectors, of
the cache they share, of the ring that elects a leader among them and of the
Foreman client below them, TLC configurations
that check the models on small instances, and TLAPS proofs that hold for every
instance. `PROJECT.json` maps each definition to the lines it translates.

## The system

Prometheus scrapes `/host-metrics` and `/host-facts-metrics`. Each request is
parsed by a handler (`handlers.go`), which runs one `Collect`
(`host_collector.go`, `hostfact_collector.go`). `Collect` answers from a cache
or starts a background task that asks Foreman through the client
(`foreman/`), waits for it no longer than a timer allows, and returns the
series with a few gauges that say how they were obtained.

| Part | State | Operations | Talks to | Hard behaviour | What makes it correct |
|---|---|---|---|---|---|
| Handlers | none beyond the request | parse `expired-cache` and `cache`, answer 400, run `Collect` | collectors | overlapping requests | every request is answered |
| Collectors | lock channel; per request the result and inflight channels and the shared `errVal` | `Collect`, the task, `updateKV` | ring, caches, client, registry | the task outlives its request; timer against result against lock; data race on `errVal`; closed metric channel | passes exclude each other, gauges tell the truth, partial results are not cached |
| memcache | one value per key, with an expiry | `Set`, `Get` | collectors | written by late tasks | never goes back to an older scrape |
| Store (dskit memberlist, external) | a replica per instance, queued updates | `NotifyMsg`, merge, gossip, push/pull | collectors, peers | loss, duplication, reordering, clock skew, restarts | replicas never regress and converge |
| `Cache.Merge` | – | last writer wins by `created_at` | store | equal stamps | a stamp identifies a value |
| Ring (`ring.go` over dskit) | a replica of the ring per process, its token | `newRing`, heartbeat, auto-forget, `isLeader`, the role metric | collectors, peers | processes that exit without leaving, restarts, partitions, gossip | one leader per connected group soon after the last change |
| Client, host list | page count, results of the fan-out | `GetHostsFiltered`, `GetHostsFactsFiltered` | Foreman | concurrent pages, clamped `per_page`, fleet changes between pages | exact list or an error |
| Client, bulk facts | merged map and counters under a mutex | `getHostsFactsBulk`, `GetFactValuesBatch` | Foreman | a host straddles pages; batches fail or are truncated | a host is whole or absent; all are accounted for |
| Client, batching | loop variables | `splitHosts` | – | halving at the edges | a partition that fits |
| Client, retries and rate limiter | token bucket, attempts, back-off | `DoWithContext`, `retryAfterBackoff`, `RoundTrip` | Foreman | overflow, delays Foreman dictates, held slots, slots competing for tokens | Foreman is never asked too often, a slot is not slept away, requests end |
| Start-up, pages, log adapter, generated protobuf | flags | – | – | – | start-up as far as the ring sees it |

## Modules

| Module | Models | Composition |
|---|---|---|
| `Collector` | handlers, `Collect` and its task on every instance, memcache, the leader view | instantiates `KVStore` for the store |
| `KVStore` | replicas of one key, `Merge`, unreliable delivery | |
| `HostList` | the two list calls against a changing fleet | instantiates `FanOut`, implements `ScrapeClient` |
| `FanOut` | the concurrent fan-out both `…WithConcurrency` functions share | |
| `FactValues` | bulk facts: splitting, paging, truncation, the merge | extends `SplitHosts`, implements `ScrapeClient` |
| `SplitHosts` | the loops of `splitHosts` | |
| `ScrapeClient` | what the collectors rely on in the client: abstract | its answers are `Outcomes` of `Collector` |
| `Retry` | one HTTP request with its retries, the token bucket | below every request of `HostList` and `FactValues` |
| `Ring` | registration, heartbeats, forgetting, gossip, roles | yields the beliefs `leads` of `Collector` |
| `MC*` | values for TLC | extend the modules above |
| `CollectorProofs`, `KVStoreProofs`, `HostListProofs`, `SplitHostsProofs`, `FactValuesProofs`, `RetryProofs`, `RingProofs` | theorems | extend the modules above |
| `CollectorAnswerProofs` | theorems about the answers of a collector | extends `CollectorProofs` |

**Collector.** A request slot is one HTTP request together with the task it
started; the slot is reused only when both are over, so a slot whose handler
has answered while its task still scrapes is the "task outlives the request"
case. `handler[r].pc` and `task[r].pc` follow the code: *leader* (`isLeader`),
*cache* (`ReadCache`), *wait* (the `select`), *emit* (fallback and metrics) for
`Collect`; *start* (the select on the lock), *granted* or *refused* (the gauge
is about to be sent), *scrape*, *store*, *send*, *unlock* for the task. The
two collectors have the same control and differ in when a result may be cached
(`HostCacheable`, `HostFactCacheable`). Series are abstracted to when their
scrape began and whether the client returned them without an error. `errVal`
is one variable per request; after a timeout `ErrReads` lets `Collect` see it
before or after the task's write, since nothing orders them. The registry
closes the metric channel when `Collect` returns (`ChOpen`), and a task that
sends on it afterwards ends the process (`TaskPanic`, `Restart`).

**KVStore.** `Merge` is `cache_codec.go`. Around it: an update is queued
(`NotifyMsg`), merged by a worker that passes on what it accepted
(`MergeMsg`), lost (`DropMsg`), delivered again, or taken over by push/pull.
An encoding error in `updateKV` looks like an update lost at once. In the
composition the stamp is the writer's clock, `now + Skew[n]`.

**HostList and FanOut.** Hosts are numbers in Foreman's order, a page is a
slice of the fleet at the moment it is asked for. The fan-out keeps the
semaphore, the unbuffered results channel and the final sort; `Joined` is the
loop that appends the results that did not fail. Foreman echoes the page number
it was asked for. `Exact` says what a complete list is: ordered, every host at
most once, none skipped before a later one, and all that `--limit` does not
excuse (`Due`). A fact list may be shorter than the limit, since hosts without a
matching fact count towards it. `SizeKnown` is what `GetHostsFactsFiltered`
needs of Foreman: it counts its pages by the echoed `per_page`, or by the one it
asked for when none is echoed, and never counts the hosts it got.

**FactValues and SplitHosts.** The call first cuts its hosts into batches
(`Split` is one step of `splitHosts`), then runs one goroutine per batch.
Foreman pages on rows (host, fact), listed in some order that the model leaves
open (`RowsOf`). A batch is paged, then merged in one step under the mutex; the
hosts without a row are counted by their place in the batch (`Missing`), so one
listed twice counts twice. `SplitHosts` computes the encoded length of a search: each id
costs its digits and what the operator adds after escaping, everything else is
`Fixed`. `conf` is the client with the Foreman it talks to: how many rows that
serves at most and whether it echoes `per_page`; without the echo the client
counts by the size it asked for (`EffPerPage`). `SizeKnown` leaves out a Foreman
that clamps without saying so: a first page that is not full would then end a
batch early, and nothing in the answer could show it. Facts do not change
between the pages of a batch.

**ScrapeClient** has three variables: whether a call is under way, whether
Foreman has stood still since it began, and the answer. While Foreman stands
still an answer is everything without an error, part of it or nothing with one,
or nothing because nothing matches. Both client modules map their state to it
(`ImplementsClient`); "less", a shorter result without an error, is no answer.

**Retry.** A slot is one place of a collector's semaphore. Its request passes
*limiter* (`Allow`), *denied* (the window between `Allow` and `Wait`), *send*,
*flight* and *backoff*. The bucket counts in units of time, a token is the
`every` units it takes to gain one; a reservation takes the bucket below zero.
Durations go up to `MaxInt`: `Wrap` is the unchecked multiplication of
`foreman.go:278`. A `Retry-After` is read twice: by `parseRetryAfter`, which
knows seconds and HTTP dates and caps what it finds, and, when that refuses it,
by retryablehttp's `DefaultBackoff`, to which `foreman.go:263` passes the response
(`parseRetryAfterHeader`, as of v0.7.8 in `go.mod`). The library also accepts a
date in another zone (the form *zoned*) and sleeps it out without a cap. The
ghost `meter` measures what Foreman sees, `slept` what a request has slept, and
`foreign` how much of that such dates asked for.

**Ring.** `view[i][k]` is what instance i's replica says of k: active with an
age in heartbeat periods and a token, left, or nothing. A `Beat` writes the own
entry and removes those older than `Forget` periods; `Gossip` merges by age. A
process that starts may join some of its peers or none, and keeps the token the
ring still knows. It ends by `Crash`, or by `ServeFails` when it has registered
and then cannot listen, and in both cases leaves its entry behind:
`web.ListenAndServe` only returns with an error, `os.Exit` and signals skip the
deferred stops (`main.go:224`), so the LEAVING state of `ringOp` and
`--ring.keep-instance-in-ring-on-shutdown` never come into play. `Role` takes
the heartbeat timeout of the ring client as a parameter: `SimpleRing` keeps
dskit's default of a minute whatever `--ring.heartbeat-timeout` says, which is
four periods by default and fewer with a longer `--ring.heartbeat-period`.

## Runs

| Run | Checks | Shows |
|---|---|---|
| `collector_locked` | `LockExclusive`, `CacheNeverGoesBack`, `CachedOnlyWhole`, `PartialReported`, `FallbackOptedIn`, `SilenceExplained`, `EveryRequestAnswered`, `LockReleased` | one instance, two requests, the lock on; the timer always ends a request, and the lock is freed while Foreman answers |
| `collector_ring` | `CachedOnlyWhole`, `PartialReported`, `StoreReplicaNeverOlder`, `LeaderNotStuck` | two instances, crashes, skewed clocks, gossip, no lock, searches that match nothing; a leader gets past what it finds in the store, unless that stays a value of the other compression setting |
| `kv_store` | `SameStampSameValue`, `ReplicaNeverOlder`, `Converges` | three replicas, unreliable delivery |
| `host_list` | `ExactWhenSteady`, `PartialInOrder`, `CallsReturn`, `ImplementsClient` | seven configurations of both calls |
| `bulk_facts` | `EveryHostOnce`, `BatchFits`, `NotOverSplit`, `WholeOrAbsent`, `FittingBatchesTaken`, `EveryHostAccounted`, `Returns`, `ImplementsClient` | the whole bulk call: splitting, clamped pages, failures, truncation |
| `retry` | `Paced`, `SleepCapped`, `EveryRequestEnds` | two slots, four clients, every kind of answer |
| `ring` | `SettledRing`, `GhostsForgotten` | two and three instances, crashes, restarts, partitions |

Five runs check what a comment or the documentation says and TLC refutes:

- `expired`: a request turned away by the lock (`host_collector.go:245`) is
  answered with expired series, with `foreman_exporter_host_use_expired_cache`
  at 0 and without `expired-cache=true`.
  `SilenceExplained` shows that `inflight_blocking_request` is then 1.
- `panic`: the task reports on the metric channel after its `select` on the
  lock. If the timer fired first the channel is closed and the process dies. A
  Prometheus timeout not above `--timeout-offset` makes the timer fire at once.
- `takeover_mixed`: `LeaderServes`, which is `LeaderNotStuck` without its
  exception. A value compressed under another setting is returned as an error
  before its expiry matters, so the leader never scrapes again.
- `host_churn`: completeness is judged by counting, so a host that joins
  between two page reads can hide one that was there all along. The list of
  the fact collector is not counted at all.
- `bulk_exact`: a batch whose rows fill its last allowed page exactly is given up
  as truncated, and its hosts are lost on every pass, although it was read to
  the end (`factvalues.go:319`). `FittingBatchesTaken` shows that one row fewer
  is enough for it to be taken.

### Bounds

- `collector_*`: two requests on one instance, or one slot on two instances.
  Two requests are what it takes for one to hold the lock, or run late, while
  the other meets it; more slots repeat the roles, and the theorems cover any
  number. `MaxTime` 1 with `TTL` 0 reaches a fresh, an expired and a renewed
  entry; `collector_ring` adds clocks that disagree by 1, crashes, and the
  requests with `cache=false`, which ask neither the ring nor the cache and then
  go the same way; the fallback for `expired-cache=true` is left to
  `collector_locked`, and what is proved of it holds for the ring as well. `QueueSize` 1 makes the store drop every broadcast that meets
  another; push/pull still spreads values.
- `kv_store`: three replicas, stamps 1 to 3 written in any order, at most three
  updates under way; contents differ so that a wrong merge shows. Stamps are
  unique among live values (`UniqueStamps`): they are nanoseconds of one leader.
- `host_list`: fleets of none, one and three hosts, pages of one to three, a
  limit on and inside a page, one change of the fleet at any moment.
- `bulk_facts`: seven lists of up to four hosts with ids of 1, 2 and 4 digits,
  one of them naming a host twice; batch sizes -1 to 20, URL limits from one no
  host meets to one that three or more meet; hosts with 0 to 4 rows on applied
  pages of 2, at most 2 pages: batches that fit, straddle, fill their last page
  exactly or are truncated; a concurrency of 0 and of 2; a Foreman that clamps
  `per_page` and echoes it, and one that applies it and echoes nothing.
- `retry`: two slots, enough to compete for a token. Durations
  up to 15 units and a second of two make nine seconds overflow; the four
  clients gain a token in two units, have a deeper bucket, no cap, and no
  limiter.
- `ring`: two instances with three faults or three with one (a crash or a
  partition), as many tokens as can be in use at once. `Forget` is the 3 of
  `ring.go:34`. Replicas that can talk agree at the end of each period: gossip
  takes fractions of a second where a period takes 15. Calm lasts as long as
  `SettledRing` waits, five periods; with four it is violated. Ages from `AgeMax`
  on are not told apart, which is one more than `GhostsForgotten` looks at, and
  old tombstones are dropped there.

Deadlock is checked except where a call ends the behaviour (`bulk_facts`).

### Fairness

- `Collect`, the task and the client's goroutines: weak fairness of each, as
  the Go scheduler runs every goroutine that can run.
- Foreman: none in `EveryRequestAnswered`. `LockReleased` assumes that Foreman
  answers or refuses each scrape (`ForemanFairness`), because the requests run
  under `context.Background` without a deadline; a Foreman that hangs keeps the
  lock. `HostList` and `FactValues` assume it too: a request ends in a response
  or an error.
- `LeaderNotStuck`, `LeaderServes`: Prometheus scrapes every instance again and
  again (strong fairness of a request without parameters, since a slot may be busy), and
  Foreman answers. An instance that crashes stops leading, so the premise, to
  lead for good, also says that it stops crashing; its peer may go on.
- `Converges`: push/pull runs on a timer in every process; it is only claimed
  when restarts stop. Broadcasts are never assumed to arrive.
- `Retry`: strong fairness of `Tick`, since time passes however busy the slots
  are; a goroutine that can go on does so before the next unit (`Prompt`), and
  Foreman answers or refuses each attempt.
- `Ring` has none: `SettledRing` bounds the delay in periods instead.
- `CallsReturn` assumes `--concurrency` of at least 1, see below.

## Proofs

Checked by TLAPS for all values of the constants that satisfy the named
assumptions (`CollectorAssumption`, `KVAssumption`, `HostListAssumption`,
`SplitAssumption`, `FactAssumption`, `RetryAssumption`, `RingAssumption`). They
say what kind of values the constants are; beyond that only that there are
finitely many hosts and slots, that the configured waits fit in a duration, and
that `Forget`, the page sizes and the page limit are not 0, and in `FactValues`
that the applied page size can be known (`SizeKnown`). All invariants the
runs check are proved, and the three action properties among them.

**The store.** `NeverOlder` (`ReplicaNeverOlder`) follows from
typing (`KVTypeCorrect`) and the definition of `Merge`. `StampsIdentifyValues`
(`SameStampSameValue`), under `UniqueStamps`, is not inductive by itself: the
strengthening `StampIdentifiesValue` also covers the updates still travelling.

**The collectors, their passes and caches** (`CollectorProofs`).

- `TypeCorrect`, and `StoreNeverOlder`: the composition does to a replica only
  what `KVStore` allows (`StoreSteps`).
- `PassesExclude` (`LockExclusive`). It ties the lock channel to the tasks past
  it, but starting a task must not replace one that holds the lock: `LockInv`
  adds `NoTaskYet`, a request that has not reached its `go` statement has no
  task.
- `CacheForward` (`CacheNeverGoesBack`). `AgeInv` adds that neither a
  scrape nor a cached entry is from the future, that a result is as old as its
  scrape, and that the entry of an instance is no newer than the scrape of the
  task holding its lock; by `LockInv` only that task can store.
- `OnlyWholeCached` (`CachedOnlyWhole`). `WholeInv` follows a result from the
  client into the task (a partial result always carries the task's error),
  memcache, the queued updates and the replicas; `StoreKeepsValues` shows that
  the store never invents contents.

**The answers of a collector** (`CollectorAnswerProofs`): `PartialNeverSilent`,
`FallbackOnlyOnOptIn`, `SilenceHasCause`. They speak of an answer that is out, so
`AnswerInv` records, for each slot and each place of its `Collect` and its task,
what the answer will be allowed to say: what came from the cache is whole
(`CachedWhole`, from `WholeInv`), a partial result in the task or in the channel
has its error already in `errVal`, a refused task has its gauge at *blocked*
before `Collect` can hear of it, and a `Collect` about to emit without data has
one of the causes. The read of `errVal` races with the task only after a timeout
(`Concluded`), when the answer shows nothing of what the task brings.

**The host list** (`HostListProofs`): `ListTypeCorrect`, `ListsExact`
(`ExactWhenSteady`), `PartialListsOrdered` (`PartialInOrder`). `CallInv` has a
part for any fleet, `ShapeInv` (types, and as many results arrived as goroutines
delivered, which makes the receive loop's count mean that all did), and a part
for a fleet that has stood still: `ListInv`, every answer at hand is the slice
of the list its page stands for and the pages reach as far as the limit asks,
and `FactsInv`, the host list is a prefix of Foreman's and every answer is what
its host reported. The arithmetic is in lemmas: page ends as a function of the
page number, joining adjacent slices gives the slice (`Joining`), leaving some
out keeps the order, and rounding up reaches the last host (`PagesReach`).

**Bulk facts** (`SplitHostsProofs`, `FactValuesProofs`).

- `HostsPartitioned`, `BatchesFit`, `HalvedOnlyWhenNeeded`: from `SplitInv`,
  which ties `start` to the end of the last batch, bounds `end`, and records
  why the current `end` was halved. `CallAsksEveryHostOnce`, `CallBatchesFit`,
  `CallNotOverSplit`: the same during the whole call, because every step of
  `FactValues` is a step of `SplitHosts` or leaves its variables alone.
- `CallTypeCorrect`, `HostsExportedWhole` (`WholeOrAbsent`),
  `BatchesTaken` (`FittingBatchesTaken`): from `FactInv`. Its part `Paged`
  says that a batch still paging has every row of the full pages before the
  current one and no other, so the first page that is not full is the last.
- `HostsAccounted` (`EveryHostAccounted`): `Balanced` keeps the books for the
  batches merged so far. It needs that batches have no host in common, which
  follows from the partition when the list names no host twice.

**Retries and the rate limiter** (`RetryProofs`): `RetryTypeCorrect`,
`TrafficPaced` (`Paced`), `SleepsCapped` (`SleepCapped`). The meter is not
bounded inductively by itself. `PaceInv` says that meter, bucket and the
attempts holding a token have one bucket together (`Conserved`), and that the
waits handed out fit the debt: the bucket owes the slots that wait w units or
more enough to keep them apart (`Staggered`), and no more than that (`Covered`).
`SleepInv` counts sleeps with attempts: each adds at most the larger of the cap
and `RetryWaitMax`, wrapped delays included, or is counted in `foreign`.

**The ring** (`RingProofs`): `RingTypeCorrect`, `DeadLeaveTheRing`
(`GhostsForgotten`), `OneLeaderInTheEnd` (`SettledRing`). An old entry spreads
by gossip, so its age has no bound in one replica alone. `GhostInv` adds
`Answered`: to every replica that holds an entry too old to be kept there is a
witness it can talk to, which has something fresher to say of that instance or
has the same entry and is still to heartbeat, and so to remove it, before the
period ends; a crash or a cut can take the witness away and costs one period. `SettleInv` follows the
periods since the last disturbance: after one the members of a group know each
other as recent, after two they know each other's tokens; entries of anybody
else are at least as old as the calm, until they are too old and forgotten.

**Refinement.** `CallImplementsClient` and `ListsImplementClient` prove the safety
half of `ImplementsClient`, `ScrapeClient!ClientSafety`, step by step. The bulk
call needs `KeptInv`: as long as no batch was lost, each merged batch has
exported its hosts with facts. The list calls use `CallInv` under `SizeKnown`.

Induction over data is not available to the provers as a rule, so it is done by
hand as the search for a least counterexample in a set of numbers
(`LeastNumber`, from the well-foundedness of `<`): that is how `FlattenSeq` is
unfolded (`Flattening`) and how a finite set is listed in order (`CanBeListed`).

Only model-checked: the liveness properties (`EveryRequestAnswered`,
`LockReleased`, `LeaderNotStuck`, `Converges`, `CallsReturn`, `Returns`,
`EveryRequestEnds`) and the "every call returns" half of `ImplementsClient`.
They need fairness and ENABLED, which are out of the prover's reach.

What the attempts to prove showed about earlier versions of the properties:

- `Paced` was false where a token took a fraction of a unit, so the model now
  gains a token in a whole number of units.
- `GhostsForgotten` with a fixed bound was false for chains of crashes longer
  than the run's: each crash can hand the dead entry to a newcomer just in time.
- `ExactWhenSteady` was false for facts under `--limit` when a silent host is
  among the first ones, and for a Foreman that clamps `per_page` without echoing
  it: `GetHostsFactsFiltered` then returns too few hosts and no error
  (`foreman.go:743`), where `GetHostsFiltered` counts them and reports it.

## Not modelled, and known limits

- Label data: which host labels and facts are kept, sanitising of fact names
  (two names may become the same label; a fact called `name` replaces the
  host's), and the duration and counter metrics.
- dskit, retryablehttp and the token bucket: what the code's settings make of
  them. A tombstone and a registration in the same second are told apart only
  as merge and the retried write do.
- How flags and the YAML file resolve to the constants (`main.go`), HTML and
  JSON pages (`handlers.go`), the log adapter, generated protobuf code: no state
  of their own after start-up.
- The conversion of the TTL to whole seconds (`main.go:383`).

Behaviour met while modelling that no run is about: `?cache=false` scrapes on
followers too (`host_collector.go:62`; `README.md:441` calls the leader "the
only one which will make request to foreman"); a slow former leader's older
series win over its successor's when its scrape ends later
(`host_collector.go:343`, against the single writer of `cache_codec.go:29`);
`--concurrency=0` blocks the list calls for ever (`foreman.go:858`), while the
bulk route guards against it (`factvalues.go:361`); the
per-host route reads one page of 1000 facts (`foreman.go:657`); a
`Retry-After` whose seconds overflow into a negative duration is retried at once
(`foreman.go:278`), and a date in a zone other than GMT is slept out without the
cap (`foreman.go:263`), where `foreman.go:230-238` says that the header is honored
and the delay capped: this is why `SleepCapped` claims no lower bound and counts
such dates apart; `ring.go:32` speaks of timeout periods where `ring.go:221`
forgets after heartbeat periods, and a heartbeat period above a minute would
make every lookup fail between two heartbeats; for up to five periods after the
leader died all others report follower, although `ring.go:284` wants a cluster
without a leader to be noticed; an instance that crashes in a loop faster than
it is forgotten stays leader without serving; a host read twice from a changing
fleet makes the registry refuse the whole answer; `--limit` may be
exceeded by the rest of the last page.

## Plan

Everything the runs check as an invariant or an action property is proved. Left:

1. `Retry` below `HostList` and `FactValues` in one composition: a request that
   ends there is what a fetched or failed page is here.
2. The beliefs `leads` of `Collector` as those `Ring` yields, with `SettledRing`
   as the premise of `LeaderNotStuck`.
3. Uniqueness of stamps in the composition of collectors and store, from the
   premise that one instance leads at a time.

Running everything: `tlc -config X.cfg MCY` for the pairs in `PROJECT.json`,
`tlapm` on the eight proof modules.
