------------------------------ MODULE Collector ------------------------------
(***************************************************************************)
(* One collector of the exporter, on every instance of the ring: the HTTP  *)
(* handler (hostHandler, hostFactHandler), the Collect call it runs and    *)
(* the background task Collect starts to scrape Foreman.  HostCollector    *)
(* and HostFactCollector have the same control; Kind tells them apart      *)
(* where they differ.                                                      *)
(*                                                                         *)
(* A request slot r carries one HTTP request and the task it started.  The *)
(* task may outlive the request: Collect returns when its timer fires and  *)
(* the task goes on.  A slot is free again when both are over.             *)
(*                                                                         *)
(* Metric series are abstracted to the scrape they come from: when it      *)
(* began and whether the client returned it without an error.              *)
(***************************************************************************)
EXTENDS Naturals

CONSTANTS
    Nodes,          \* the exporter instances
    Reqs,           \* request slots
    Kind,           \* "host" or "hostfact"
    RingEnabled,    \* ExporterRing.enabled
    CacheEnabled,   \* cacheConfig.Enabled
    LockRequests,   \* --collector.lock-concurrent-requests
    CacheOnPartial, \* HostFactCollector.CacheOnPartial
    Compression,    \* Compression[n]: cacheConfig.Compression of instance n
    Skew,           \* Skew[n]: how far n's clock runs ahead
    TTL,            \* cacheConfig.ExpiresTTL
    QueueSize,      \* bound on the updates of the store that wait at once
    MaxTime,        \* bound on the clock
    CallerParams,   \* what callers pass as expired-cache and as cache
    EmptyMatch,     \* the search may match no host at all
    MayCrash,       \* instances may be killed
    NoData, NoEntry, NoReply, Empty

VARIABLES
    now,            \* the time
    leads,          \* leads[n]: isLeader holds, as n's ring client sees it
    localCache,     \* localCache[n]: memcache's entry for this collector's key
    lock,           \* lock[n]: the one-slot lock channel is full
    home,           \* home[r]: the instance that got r's request last
    handler,        \* handler[r]: locals of the handler and of Collect
    task,           \* task[r]: locals of the goroutine Collect started
    result,         \* result[r]: the result channel, one buffered value
    inflight,       \* inflight[r]: the inflight channel holds its value
    errVal,         \* errVal[r]: the variable Collect and its task share
    gauge,          \* gauge[r]: inflight_blocking_request as sent for r
    reply,          \* reply[r]: the answer being written to r's caller
    kv, pending     \* the memberlist store, see KVStore

localVars == <<localCache, lock>>
kvVars == <<kv, pending>>
reqVars == <<home, handler, task, result, inflight, errVal, gauge, reply>>
vars == <<now, leads, localVars, reqVars, kvVars>>

-----------------------------------------------------------------------------
\* The series of one scrape.
Data == [asof: Nat, whole: BOOLEAN]
MaybeData == Data \cup {NoData}

\* What a Cache value carries in the store: the series, zstd-compressed or not.
Contents == [data: Data, zstd: BOOLEAN]

KV == INSTANCE KVStore WITH Stamps <- Nat, UniqueStamps <- FALSE

CacheValue == [value: Data, expiresAt: Nat]

HandlerPc == {"idle", "leader", "cache", "wait", "emit", "respond"}
TaskPc == {"none", "start", "granted", "refused", "notify", "scrape",
           "store", "send", "unlock"}

Gauge == {"none", "free", "blocked"}

Handler == [pc: HandlerPc, useCache: BOOLEAN, useExpired: BOOLEAN,
            data: MaybeData, expired: BOOLEAN, served: BOOLEAN,
            timeout: BOOLEAN]
Task == [pc: TaskPc, began: Nat, data: MaybeData, err: BOOLEAN]

\* A scrape answer.  served, expired, optIn and gauge are not on the wire in
\* this form: they say where the series came from and what the caller asked.
Metrics == [kind: {"metrics"}, series: MaybeData, err: BOOLEAN,
            timeout: BOOLEAN, usedExpired: BOOLEAN, served: BOOLEAN,
            expired: BOOLEAN, optIn: BOOLEAN, gauge: Gauge]
Bare == [kind: {"badRequest", "notLeader", "undecodable"}]

ASSUME CollectorAssumption ==
    /\ Kind \in {"host", "hostfact"}
    /\ RingEnabled \in BOOLEAN /\ CacheEnabled \in BOOLEAN
    /\ LockRequests \in BOOLEAN /\ CacheOnPartial \in BOOLEAN
    /\ EmptyMatch \in BOOLEAN /\ MayCrash \in BOOLEAN
    /\ CallerParams \subseteq {"absent", "true", "false", "malformed"}
    /\ Compression \in [Nodes -> BOOLEAN]
    /\ Skew \in [Nodes -> Nat]
    /\ TTL \in Nat /\ MaxTime \in Nat /\ QueueSize \in Nat
    /\ NoData \notin Data
    /\ NoEntry \notin CacheValue \cup KV!Cache
    /\ NoReply \notin Metrics \cup Bare
    /\ Empty \notin MaybeData

TypeOK ==
    /\ now \in Nat
    /\ leads \in [Nodes -> BOOLEAN]
    /\ localCache \in [Nodes -> CacheValue \cup {NoEntry}]
    /\ lock \in [Nodes -> BOOLEAN]
    /\ home \in [Reqs -> Nodes]
    /\ handler \in [Reqs -> Handler]
    /\ task \in [Reqs -> Task]
    /\ result \in [Reqs -> MaybeData \cup {Empty}]
    /\ inflight \in [Reqs -> BOOLEAN]
    /\ errVal \in [Reqs -> BOOLEAN]
    /\ gauge \in [Reqs -> Gauge]
    /\ reply \in [Reqs -> Metrics \cup Bare \cup {NoReply}]
    /\ KV!KVTypeOK

IdleHandler == [pc |-> "idle", useCache |-> TRUE, useExpired |-> FALSE,
                data |-> NoData, expired |-> FALSE, served |-> FALSE,
                timeout |-> FALSE]
NoTask == [pc |-> "none", began |-> 0, data |-> NoData, err |-> FALSE]

Init ==
    /\ now = 0
    /\ leads = [n \in Nodes |-> FALSE]
    /\ localCache = [n \in Nodes |-> NoEntry]
    /\ lock = [n \in Nodes |-> FALSE]
    /\ home \in [Reqs -> Nodes]
    /\ handler = [r \in Reqs |-> IdleHandler]
    /\ task = [r \in Reqs |-> NoTask]
    /\ result = [r \in Reqs |-> Empty]
    /\ inflight = [r \in Reqs |-> FALSE]
    /\ errVal = [r \in Reqs |-> FALSE]
    /\ gauge = [r \in Reqs |-> "none"]
    /\ reply = [r \in Reqs |-> NoReply]
    /\ KV!KVInit

-----------------------------------------------------------------------------
(* The HTTP handler: hostHandler and hostFactHandler. *)

\* A cache parameter is refused when the cache is off or it is no boolean.
BadParam(p) == p # "absent" /\ (~CacheEnabled \/ p = "malformed")

Free(r) == handler[r].pc = "idle" /\ task[r].pc = "none"

\* The request is answered a; the metric channel, if there is one, is closed.
Reply(r, a) ==
    /\ handler' = [handler EXCEPT ![r] = [IdleHandler EXCEPT !.pc = "respond"]]
    /\ reply' = [reply EXCEPT ![r] = a]
    /\ gauge' = [gauge EXCEPT ![r] = "none"]
    /\ UNCHANGED <<now, leads, localVars, home, task, result, inflight, errVal,
                   kvVars>>

Reject(r, expiredCache, cache) ==
    /\ Free(r)
    /\ BadParam(expiredCache) \/ BadParam(cache)
    /\ Reply(r, [kind |-> "badRequest"])

\* UseCache is TRUE unless the request says otherwise, UseExpiredCache FALSE.
\* Collect asks the ring first, but only for a request that may use the cache.
Handle(r, n, expiredCache, cache) ==
    /\ Free(r)
    /\ ~BadParam(expiredCache) /\ ~BadParam(cache)
    /\ LET useCache == cache # "false"
       IN handler' = [handler EXCEPT ![r] =
              [IdleHandler EXCEPT !.useCache = useCache,
                                  !.useExpired = expiredCache = "true",
                                  !.pc = IF RingEnabled /\ useCache
                                         THEN "leader" ELSE "cache"]]
    /\ home' = [home EXCEPT ![r] = n]
    /\ errVal' = [errVal EXCEPT ![r] = FALSE]
    /\ UNCHANGED <<now, leads, localVars, task, result, inflight, gauge, reply,
                   kvVars>>

\* The answer has been written and the slot is free for another request.
Respond(r) ==
    /\ handler[r].pc = "respond"
    /\ handler' = [handler EXCEPT ![r] = IdleHandler]
    /\ reply' = [reply EXCEPT ![r] = NoReply]
    /\ UNCHANGED <<now, leads, localVars, home, task, result, inflight, errVal,
                   gauge, kvVars>>

-----------------------------------------------------------------------------
(* Collect, up to the scrape. *)

\* isLeader compares the owner of the leader token with this instance; a ring
\* that cannot say who owns it makes Collect return all the same.
NotLeader(r) ==
    /\ handler[r].pc = "leader"
    /\ ~leads[home[r]]
    /\ Reply(r, [kind |-> "notLeader"])

Leader(r) ==
    /\ handler[r].pc = "leader"
    /\ leads[home[r]]
    /\ handler' = [handler EXCEPT ![r] = [@ EXCEPT !.pc = "cache"]]
    /\ UNCHANGED <<now, leads, localVars, home, task, result, inflight, errVal,
                   gauge, reply, kvVars>>

Clock(n) == now + Skew[n]

\* The entry Collect finds: from the store when the ring is on, otherwise from
\* memcache.  A store whose Get fails counts as one without the key.
Lookup(r, getFails) ==
    IF ~(CacheEnabled /\ handler[r].useCache) THEN NoEntry
    ELSE IF ~RingEnabled THEN localCache[home[r]]
    ELSE IF getFails THEN NoEntry ELSE kv[home[r]]

Decoded(e) == IF RingEnabled THEN e.content.data ELSE e.value

\* Mutant of Decodable: decompression runs when it is not configured.
MutDecodableSwapped(n, e) == RingEnabled => e.content.zstd # Compression[n]

\* Decompressing plain JSON fails, and so does parsing a compressed value.
Decodable(n, e) == RingEnabled => e.content.zstd = Compression[n]

Expired(n, e) == Clock(n) > e.expiresAt

Undecodable(r, e) ==
    /\ handler[r].pc = "cache"
    /\ e # NoEntry
    /\ ~Decodable(home[r], e)
    /\ Reply(r, [kind |-> "undecodable"])

CacheHit(r, e) ==
    /\ handler[r].pc = "cache"
    /\ e # NoEntry
    /\ Decodable(home[r], e)
    /\ ~Expired(home[r], e)
    /\ handler' = [handler EXCEPT
            ![r] = [@ EXCEPT !.pc = "emit", !.data = Decoded(e)]]
    /\ UNCHANGED <<now, leads, localVars, home, task, result, inflight, errVal,
                   gauge, reply, kvVars>>

\* The goroutine is started; data keeps the expired value, if any.
CacheMiss(r, e) ==
    /\ handler[r].pc = "cache"
    /\ e # NoEntry => Decodable(home[r], e) /\ Expired(home[r], e)
    /\ handler' = [handler EXCEPT
            ![r] = [@ EXCEPT !.pc = "wait", !.expired = e # NoEntry,
                             !.data = IF e = NoEntry THEN NoData
                                      ELSE Decoded(e)]]
    /\ task' = [task EXCEPT ![r] = [NoTask EXCEPT !.pc = "start"]]
    /\ UNCHANGED <<now, leads, localVars, home, result, inflight, errVal,
                   gauge, reply, kvVars>>

ReadCache(r, getFails) ==
    LET e == Lookup(r, getFails)
    IN Undecodable(r, e) \/ CacheHit(r, e) \/ CacheMiss(r, e)

-----------------------------------------------------------------------------
(* The goroutine. *)

\* Without the lock the scrape begins at once.
TaskUnlocked(r) ==
    /\ task[r].pc = "start"
    /\ ~LockRequests
    /\ task' = [task EXCEPT ![r] = [@ EXCEPT !.pc = "scrape", !.began = now]]
    /\ UNCHANGED <<now, leads, localVars, home, handler, result, inflight,
                   errVal, gauge, reply, kvVars>>

\* Mutant of TaskLock: the lock is taken although it is held.
MutTaskLockBlind(r) ==
    /\ task[r].pc = "start"
    /\ LockRequests
    /\ lock' = [lock EXCEPT ![home[r]] = TRUE]
    /\ task' = [task EXCEPT ![r] = [@ EXCEPT !.pc = "granted"]]
    /\ UNCHANGED <<now, leads, localCache, home, handler, result, inflight,
                   errVal, gauge, reply, kvVars>>

\* The select on the lock channel: take it, or go away when it is full.
TaskLock(r) ==
    /\ task[r].pc = "start"
    /\ LockRequests
    /\ ~lock[home[r]]
    /\ lock' = [lock EXCEPT ![home[r]] = TRUE]
    /\ task' = [task EXCEPT ![r] = [@ EXCEPT !.pc = "granted"]]
    /\ UNCHANGED <<now, leads, localCache, home, handler, result, inflight,
                   errVal, gauge, reply, kvVars>>

TaskRefused(r) ==
    /\ task[r].pc = "start"
    /\ LockRequests
    /\ lock[home[r]]
    /\ task' = [task EXCEPT ![r] = [@ EXCEPT !.pc = "refused"]]
    /\ UNCHANGED <<now, leads, localVars, home, handler, result, inflight,
                   errVal, gauge, reply, kvVars>>

\* The registry closes the metric channel once Collect has returned.
ChOpen(r) == handler[r].pc \notin {"idle", "respond"}

ReportGranted(r) ==
    /\ task[r].pc = "granted"
    /\ ChOpen(r)
    /\ gauge' = [gauge EXCEPT ![r] = "free"]
    /\ task' = [task EXCEPT ![r] = [@ EXCEPT !.pc = "scrape", !.began = now]]
    /\ UNCHANGED <<now, leads, localVars, home, handler, result, inflight,
                   errVal, reply, kvVars>>

\* Mutant of ReportRefused: the gauge says nobody is in the way.
MutReportRefusedFree(r) ==
    /\ task[r].pc = "refused"
    /\ ChOpen(r)
    /\ gauge' = [gauge EXCEPT ![r] = "free"]
    /\ task' = [task EXCEPT ![r] = [@ EXCEPT !.pc = "notify"]]
    /\ UNCHANGED <<now, leads, localVars, home, handler, result, inflight,
                   errVal, reply, kvVars>>

ReportRefused(r) ==
    /\ task[r].pc = "refused"
    /\ ChOpen(r)
    /\ gauge' = [gauge EXCEPT ![r] = "blocked"]
    /\ task' = [task EXCEPT ![r] = [@ EXCEPT !.pc = "notify"]]
    /\ UNCHANGED <<now, leads, localVars, home, handler, result, inflight,
                   errVal, reply, kvVars>>

Notify(r) ==
    /\ task[r].pc = "notify"
    /\ inflight' = [inflight EXCEPT ![r] = handler[r].pc = "wait"]
    /\ task' = [task EXCEPT ![r] = NoTask]
    /\ UNCHANGED <<now, leads, localVars, home, handler, result, errVal, gauge,
                   reply, kvVars>>

\* What the Foreman client may return for a scrape begun at t: every host; the
\* ones it could collect, with an error; nothing, with an error; or no host.
Outcomes(t) ==
    {[data |-> [asof |-> t, whole |-> TRUE], err |-> FALSE],
     [data |-> [asof |-> t, whole |-> FALSE], err |-> TRUE],
     [data |-> NoData, err |-> TRUE]}
    \cup (IF EmptyMatch THEN {[data |-> NoData, err |-> FALSE]} ELSE {})

\* Mutant of EndScrape: an error beside some hosts is not recorded.
MutEndScrapeQuiet(r, o) ==
    /\ task[r].pc = "scrape"
    /\ o \in Outcomes(task[r].began)
    /\ errVal' = [errVal EXCEPT ![r] = o.err /\ o.data = NoData]
    /\ task' = [task EXCEPT
            ![r] = [@ EXCEPT !.pc = "store", !.data = o.data, !.err = o.err]]
    /\ UNCHANGED <<now, leads, localVars, home, handler, result, inflight,
                   gauge, reply, kvVars>>

EndScrape(r, o) ==
    /\ task[r].pc = "scrape"
    /\ o \in Outcomes(task[r].began)
    /\ errVal' = [errVal EXCEPT ![r] = o.err]
    /\ task' = [task EXCEPT
            ![r] = [@ EXCEPT !.pc = "store", !.data = o.data, !.err = o.err]]
    /\ UNCHANGED <<now, leads, localVars, home, handler, result, inflight,
                   gauge, reply, kvVars>>

\* Mutants of HostCacheable: a partial list is cached; so is a failed, empty
\* one.
MutHostCacheableAny(t) == CacheEnabled /\ t.data # NoData
MutHostCacheableEmpty(t) == CacheEnabled /\ ~(t.err /\ t.data # NoData)

HostCacheable(t) == CacheEnabled /\ ~t.err /\ t.data # NoData

\* Mutant of HostFactCacheable: CacheOnPartial is ignored.
MutHostFactCacheableAny(t) == CacheEnabled /\ t.data # NoData

HostFactCacheable(t) ==
    CacheEnabled /\ t.data # NoData /\ (~t.err \/ CacheOnPartial)

Cacheable(t) ==
    IF Kind = "host" THEN HostCacheable(t) ELSE HostFactCacheable(t)

\* memcache Set.
Set(n, d) ==
    /\ localCache' = [localCache EXCEPT ![n] =
            [value |-> d, expiresAt |-> Clock(n) + TTL]]
    /\ UNCHANGED kvVars

\* updateKV: encode, stamp with this instance's clock, hand to the store.
UpdateKV(n, d) ==
    /\ KV!NotifyMsg(n, [content |-> [data |-> d, zstd |-> Compression[n]],
                        createdAt |-> Clock(n), expiresAt |-> Clock(n) + TTL])
    /\ UNCHANGED localCache

StoreResult(r) ==
    /\ task[r].pc = "store"
    /\ Cacheable(task[r])
    /\ IF RingEnabled THEN UpdateKV(home[r], task[r].data)
                      ELSE Set(home[r], task[r].data)
    /\ task' = [task EXCEPT ![r] = [@ EXCEPT !.pc = "send"]]
    /\ UNCHANGED <<now, leads, lock, home, handler, result, inflight, errVal,
                   gauge, reply>>

SkipStore(r) ==
    /\ task[r].pc = "store"
    /\ ~Cacheable(task[r])
    /\ task' = [task EXCEPT ![r] = [@ EXCEPT !.pc = "send"]]
    /\ UNCHANGED <<now, leads, localVars, home, handler, result, inflight,
                   errVal, gauge, reply, kvVars>>

\* Mutant of SendResult: the channel is unbuffered, the send waits for Collect.
MutSendUnbuffered(r) ==
    /\ task[r].pc = "send"
    /\ handler[r].pc = "wait"
    /\ result' = [result EXCEPT ![r] = task[r].data]
    /\ task' = [task EXCEPT ![r] =
            IF LockRequests THEN [NoTask EXCEPT !.pc = "unlock"] ELSE NoTask]
    /\ UNCHANGED <<now, leads, localVars, home, handler, inflight, errVal,
                   gauge, reply, kvVars>>

\* The channel has room for one value, so the send never waits for Collect.
\* A value Collect will not receive any more is garbage and is not kept.
SendResult(r) ==
    /\ task[r].pc = "send"
    /\ result' = [result EXCEPT ![r] =
            IF handler[r].pc = "wait" THEN task[r].data ELSE Empty]
    /\ task' = [task EXCEPT ![r] =
            IF LockRequests THEN [NoTask EXCEPT !.pc = "unlock"] ELSE NoTask]
    /\ UNCHANGED <<now, leads, localVars, home, handler, inflight, errVal,
                   gauge, reply, kvVars>>

\* The deferred receive from the lock channel.
Unlock(r) ==
    /\ task[r].pc = "unlock"
    /\ lock' = [lock EXCEPT ![home[r]] = FALSE]
    /\ task' = [task EXCEPT ![r] = NoTask]
    /\ UNCHANGED <<now, leads, localCache, home, handler, result, inflight,
                   errVal, gauge, reply, kvVars>>

-----------------------------------------------------------------------------
(* Collect, from its select to the metrics. *)

\* An empty result leaves data at the cached value.
ReceiveResult(r) ==
    /\ handler[r].pc = "wait"
    /\ result[r] # Empty
    /\ result' = [result EXCEPT ![r] = Empty]
    /\ handler' = [handler EXCEPT ![r] =
            IF result[r] # NoData
            THEN [@ EXCEPT !.pc = "emit", !.data = result[r], !.served = TRUE]
            ELSE [@ EXCEPT !.pc = "emit"]]
    /\ UNCHANGED <<now, leads, localVars, home, task, inflight, errVal, gauge,
                   reply, kvVars>>

ReceiveInflight(r) ==
    /\ handler[r].pc = "wait"
    /\ inflight[r]
    /\ inflight' = [inflight EXCEPT ![r] = FALSE]
    /\ handler' = [handler EXCEPT ![r] = [@ EXCEPT !.pc = "emit"]]
    /\ UNCHANGED <<now, leads, localVars, home, task, result, errVal, gauge,
                   reply, kvVars>>

\* Mutant of Deadline: the timer is looked at only when the task is over.
MutDeadlineLate(r) ==
    /\ handler[r].pc = "wait"
    /\ task[r].pc = "none"
    /\ handler' = [handler EXCEPT
            ![r] = [@ EXCEPT !.pc = "emit", !.timeout = TRUE]]
    /\ result' = [result EXCEPT ![r] = Empty]
    /\ inflight' = [inflight EXCEPT ![r] = FALSE]
    /\ UNCHANGED <<now, leads, localVars, home, task, errVal, gauge, reply,
                   kvVars>>

\* The timer may fire at any moment, at once too: the Prometheus timeout less
\* the offset need not be positive.  Whatever the channels hold is abandoned.
Deadline(r) ==
    /\ handler[r].pc = "wait"
    /\ handler' = [handler EXCEPT
            ![r] = [@ EXCEPT !.pc = "emit", !.timeout = TRUE]]
    /\ result' = [result EXCEPT ![r] = Empty]
    /\ inflight' = [inflight EXCEPT ![r] = FALSE]
    /\ UNCHANGED <<now, leads, localVars, home, task, errVal, gauge, reply,
                   kvVars>>

\* After a timeout nothing orders Collect's reads of errVal with the write of
\* a task still running: it may see the old value or the new one.
ErrReads(r) == IF handler[r].timeout THEN {FALSE, errVal[r]} ELSE {errVal[r]}

\* Mutant of Answer: the cached series are used without being asked for.
MutAnswerUninvited(r, err) ==
    LET h == handler[r]
        failed == ~h.served /\ (err \/ h.timeout)
        fallback == failed /\ CacheEnabled /\ h.data # NoData
    IN [kind |-> "metrics",
        series |-> IF failed /\ ~fallback THEN NoData ELSE h.data,
        err |-> err, timeout |-> h.timeout, usedExpired |-> fallback,
        served |-> h.served, expired |-> h.expired, optIn |-> h.useExpired,
        gauge |-> gauge[r]]

\* The metrics of request r when it reads err.
Answer(r, err) ==
    LET h == handler[r]
        failed == ~h.served /\ (err \/ h.timeout)
        fallback == failed /\ CacheEnabled /\ h.useExpired /\ h.data # NoData
    IN [kind |-> "metrics",
        series |-> IF failed /\ ~fallback THEN NoData ELSE h.data,
        err |-> err, timeout |-> h.timeout, usedExpired |-> fallback,
        served |-> h.served, expired |-> h.expired, optIn |-> h.useExpired,
        gauge |-> gauge[r]]

\* Collect returns.
Emit(r) ==
    /\ handler[r].pc = "emit"
    /\ \E err \in ErrReads(r) : Reply(r, Answer(r, err))

-----------------------------------------------------------------------------
(* The process and its surroundings. *)

\* The process of n dies and comes back: only other instances' state is left.
Restart(n) ==
    LET Reset(f, v) == [r \in Reqs |-> IF home[r] = n THEN v ELSE f[r]]
    IN /\ handler' = Reset(handler, IdleHandler)
       /\ task' = Reset(task, NoTask)
       /\ result' = Reset(result, Empty)
       /\ inflight' = Reset(inflight, FALSE)
       /\ errVal' = Reset(errVal, FALSE)
       /\ gauge' = Reset(gauge, "none")
       /\ lock' = [lock EXCEPT ![n] = FALSE]
       /\ localCache' = [localCache EXCEPT ![n] = NoEntry]
       /\ leads' = [leads EXCEPT ![n] = FALSE]
       /\ reply' = Reset(reply, NoReply)
       /\ KV!LoseReplica(n)
       /\ UNCHANGED <<now, home>>

Crash(n) == MayCrash /\ Restart(n)

\* A task that reports on a closed metric channel panics, and nothing recovers.
TaskPanic(r) ==
    /\ task[r].pc \in {"granted", "refused"}
    /\ ~ChOpen(r)
    /\ Restart(home[r])

\* The ring client of n learns, late or never, that the leader token moved.
RingChange(n) ==
    /\ RingEnabled
    /\ leads' = [leads EXCEPT ![n] = ~leads[n]]
    /\ UNCHANGED <<now, localVars, reqVars, kvVars>>

Tick ==
    /\ now < MaxTime
    /\ now' = now + 1
    /\ UNCHANGED <<leads, localVars, reqVars, kvVars>>

Gossip ==
    /\ \/ \E m \in pending, again \in BOOLEAN : KV!MergeMsg(m, again)
       \/ \E m \in pending : KV!DropMsg(m)
       \/ \E n, o \in Nodes : KV!PushPull(n, o)
    /\ UNCHANGED <<now, leads, localVars, home, reqVars>>

Collect(r) ==
    \/ NotLeader(r) \/ Leader(r)
    \/ \E getFails \in BOOLEAN : ReadCache(r, getFails)
    \/ ReceiveResult(r) \/ ReceiveInflight(r) \/ Deadline(r)
    \/ Emit(r) \/ Respond(r)

\* Every step of the goroutine but the scrape, which waits for Foreman.
RunTask(r) ==
    \/ TaskUnlocked(r) \/ TaskLock(r) \/ TaskRefused(r)
    \/ ReportGranted(r) \/ ReportRefused(r) \/ TaskPanic(r) \/ Notify(r)
    \/ StoreResult(r) \/ SkipStore(r) \/ SendResult(r) \/ Unlock(r)

ForemanAnswers(r) == \E o \in Outcomes(task[r].began) : EndScrape(r, o)

Request(r) ==
    \E expiredCache, cache \in CallerParams :
        \/ Reject(r, expiredCache, cache)
        \/ \E n \in Nodes : Handle(r, n, expiredCache, cache)

Next ==
    \/ \E r \in Reqs :
            Request(r) \/ Collect(r) \/ RunTask(r) \/ ForemanAnswers(r)
    \/ \E n \in Nodes : Crash(n) \/ RingChange(n)
    \/ Tick
    \/ Gossip

Spec == Init /\ [][Next]_vars

\* The Go scheduler runs every goroutine that can run.  Nothing is assumed of
\* Foreman, nor that requests keep coming.
CollectFairness == \A r \in Reqs : WF_vars(Collect(r)) /\ WF_vars(RunTask(r))

LiveSpec == Spec /\ CollectFairness

\* Foreman answers, or refuses, every scrape sooner or later.
ForemanFairness == \A r \in Reqs : WF_vars(ForemanAnswers(r))

\* Prometheus scrapes every instance again and again, with no parameter.
ScrapedSpec ==
    LiveSpec /\ ForemanFairness
        /\ \A r \in Reqs, n \in Nodes :
              SF_vars(Handle(r, n, "absent", "absent"))

-----------------------------------------------------------------------------
(* Properties. *)

Critical(r) == task[r].pc \in {"granted", "scrape", "store", "send", "unlock"}

(* With --collector.lock-concurrent-requests two passes of a collector never
   overlap in a process, even when the requests that started them have timed
   out, and the lock channel is full exactly while one of them runs. *)
LockExclusive ==
    LockRequests =>
        /\ \A r, q \in Reqs :
              Critical(r) /\ Critical(q) /\ home[r] = home[q] => r = q
        /\ \A n \in Nodes :
              lock[n] <=> \E r \in Reqs : home[r] = n /\ Critical(r)

(* With the lock, memcache never replaces the series of a scrape by those of
   one that began earlier: a slow task that outlived its request cannot
   overwrite what a later request collected (localCache.Set in the task). *)
CacheNeverGoesBack ==
    [][LockRequests =>
         \A n \in Nodes :
            localCache[n] # NoEntry /\ localCache'[n] # NoEntry
                => localCache'[n].value.asof >= localCache[n].value.asof]_vars

CachedValues ==
    {localCache[n].value : n \in {i \in Nodes : localCache[i] # NoEntry}}
    \cup {kv[n].content.data : n \in {i \in Nodes : kv[i] # NoEntry}}
    \cup {m.val.content.data : m \in pending}

KeepsPartial == Kind = "hostfact" /\ CacheOnPartial

(* Nothing collected by a scrape that reported an error is ever in memcache,
   in a replica of the store or on its way to one, unless the operator asked
   for it with --collector.hostfact.cache.update-on-partial. *)
CachedOnlyWhole == ~KeepsPartial => \A d \in CachedValues : d.whole

(* An answer that shows an incomplete list says so with scrape_error 1, for
   every interleaving of the task's errVal write, its result and the timer. *)
PartialReported ==
    \A r \in Reqs :
        (reply[r] \in Metrics /\ reply[r].series \in Data
            /\ ~reply[r].series.whole /\ ~KeepsPartial)
                => reply[r].err

(* Cached series are shown beside scrape_error or scrape_timeout only to a
   caller that passed expired-cache=true, and use_expired_cache is 1 exactly
   then; a fresh result never carries the flag. *)
FallbackOptedIn ==
    \A r \in Reqs :
        reply[r] \in Metrics =>
            LET a == reply[r]
            IN /\ a.usedExpired <=>
                    a.series \in Data /\ ~a.served /\ (a.err \/ a.timeout)
               /\ a.usedExpired => a.optIn /\ a.expired

(* Unless the search matched nothing, an answer with neither series nor error
   nor timeout comes with inflight_blocking_request 1, and so do expired series
   without the use_expired_cache flag. *)
SilenceExplained ==
    ~EmptyMatch =>
        \A r \in Reqs :
            reply[r] \in Metrics =>
                LET a == reply[r]
                    silent == a.series = NoData /\ ~a.err /\ ~a.timeout
                    unflagged == a.series \in Data /\ a.expired /\ ~a.served
                                    /\ ~a.usedExpired
                IN silent \/ unflagged => a.gauge = "blocked"

(* While its process runs, a replica of the store never goes back to a value
   created earlier, with collectors of several instances writing it under
   clocks that disagree (updateKV and Merge). *)
StoreReplicaNeverOlder == KV!ReplicaNeverOlder

(* Every request is answered, or its process restarts, whatever Foreman does:
   the timer ends the wait even if the task hangs for good. *)
EveryRequestAnswered ==
    \A r \in Reqs : handler[r].pc # "idle" ~> handler[r].pc = "idle"

(* As long as Foreman answers, a task ends and frees the lock although nobody
   may be left to receive its result, so later requests can scrape again. *)
LockReleased ==
    ForemanFairness => \A n \in Nodes : lock[n] ~> ~lock[n]

Serves(n) ==
    \E r \in Reqs : home[r] = n /\ handler[r].pc \in {"wait", "emit"}

(* An instance that leads for good serves from the cache or scrapes Foreman
   again and again, whatever value an earlier leader left in the store or
   gossip brings back after its crash: only a replica that stays for ever at a
   value of the other compression setting keeps it from doing so. *)
LeaderNotStuck ==
    \A n \in Nodes :
        <>[]leads[n] =>
            \/ []<>Serves(n)
            \/ <>[](kv[n] # NoEntry /\ kv[n].content.zstd # Compression[n])

-----------------------------------------------------------------------------
(* What the comments and the documentation say and the code does not do. *)

(* host_collector.go, above the fallback: the cached value, which may be
   expired, is served only when the caller opted in. *)
ExpiredOnlyOnOptIn ==
    \A r \in Reqs :
        (reply[r] \in Metrics /\ reply[r].series \in Data
            /\ reply[r].expired /\ ~reply[r].served)
                => reply[r].optIn

(* hostfact_collector.go, at the timer: the task keeps running after Collect
   has returned, so it never meets a closed metric channel. *)
TaskOutlivesCollect ==
    \A r \in Reqs : task[r].pc \in {"granted", "refused"} => ChOpen(r)

(* README.md, on the ring: when the leader goes down, the next one starts to
   export metrics, whatever value its predecessor left in the store. *)
LeaderServes == \A n \in Nodes : <>[]leads[n] => []<>Serves(n)
=============================================================================
