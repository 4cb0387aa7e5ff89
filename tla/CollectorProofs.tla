--------------------------- MODULE CollectorProofs ---------------------------
(***************************************************************************)
(* Proofs about the collector, for any number of instances and of requests *)
(* in flight, any TTL, clock skew and configuration.                       *)
(***************************************************************************)
EXTENDS Collector, TLAPS

(* The records the actions build have their types. *)
LEMMA RecordTypes ==
    /\ IdleHandler \in Handler
    /\ NoTask \in Task
    /\ [kind |-> "badRequest"] \in Bare
    /\ [kind |-> "notLeader"] \in Bare
    /\ [kind |-> "undecodable"] \in Bare
  BY DEF IdleHandler, NoTask, Handler, HandlerPc, Task, TaskPc, MaybeData, Bare

(* The updates Collect makes to its locals keep their type. *)
LEMMA HandlerUpdates ==
    ASSUME NEW h \in Handler, NEW p \in HandlerPc, NEW d \in MaybeData,
           NEW b \in BOOLEAN, NEW c \in BOOLEAN
    PROVE  /\ [h EXCEPT !.pc = p] \in Handler
           /\ [h EXCEPT !.pc = p, !.data = d] \in Handler
           /\ [h EXCEPT !.pc = p, !.data = d, !.served = b] \in Handler
           /\ [h EXCEPT !.pc = p, !.expired = b, !.data = d] \in Handler
           /\ [h EXCEPT !.pc = p, !.timeout = b] \in Handler
           /\ [h EXCEPT !.useCache = b, !.useExpired = c, !.pc = p] \in Handler
  BY DEF Handler

(* What Collect finds in the cache is an entry, and carries series. *)
LEMMA LookupType ==
    ASSUME TypeOK, NEW r \in Reqs, NEW getFails \in BOOLEAN,
           Lookup(r, getFails) # NoEntry
    PROVE  /\ Decoded(Lookup(r, getFails)) \in Data
           /\ Lookup(r, getFails).expiresAt \in Nat
  BY DEF TypeOK, Lookup, Decoded, CacheValue, Contents, KV!KVTypeOK, KV!Cache

(* What the client returns for a scrape begun at t: series returned without an
   error are whole, series returned with one are not, and there are none
   without an error only if the search may match no host. *)
LEMMA OutcomeType ==
    ASSUME NEW t \in Nat, NEW o \in Outcomes(t)
    PROVE  /\ o.data \in MaybeData
           /\ o.err \in BOOLEAN
           /\ o.data \in Data => o.data.asof = t /\ (o.data.whole <=> ~o.err)
           /\ o.data = NoData => o.err \/ EmptyMatch
<1>1. NoData \notin Data
  BY CollectorAssumption
<1>2. CASE o = [data |-> [asof |-> t, whole |-> TRUE], err |-> FALSE]
  <2>1. o.data = [asof |-> t, whole |-> TRUE] /\ o.err = FALSE
    BY <1>2
  <2>2. o.data \in Data /\ o.data.asof = t /\ o.data.whole = TRUE
    BY <2>1 DEF Data
  <2> QED BY <1>1, <2>1, <2>2 DEF MaybeData
<1>3. CASE o = [data |-> [asof |-> t, whole |-> FALSE], err |-> TRUE]
  <2>1. o.data = [asof |-> t, whole |-> FALSE] /\ o.err = TRUE
    BY <1>3
  <2>2. o.data \in Data /\ o.data.asof = t /\ o.data.whole = FALSE
    BY <2>1 DEF Data
  <2> QED BY <1>1, <2>1, <2>2 DEF MaybeData
<1>4. CASE o = [data |-> NoData, err |-> TRUE]
  BY <1>1, <1>4 DEF MaybeData
<1>5. CASE o = [data |-> NoData, err |-> FALSE] /\ EmptyMatch
  BY <1>1, <1>5 DEF MaybeData
<1>6. \/ o = [data |-> [asof |-> t, whole |-> TRUE], err |-> FALSE]
      \/ o = [data |-> [asof |-> t, whole |-> FALSE], err |-> TRUE]
      \/ o = [data |-> NoData, err |-> TRUE]
      \/ o = [data |-> NoData, err |-> FALSE] /\ EmptyMatch
  BY Zenon DEF Outcomes
<1> QED BY <1>2, <1>3, <1>4, <1>5, <1>6, Zenon

(* The metrics of an answer have their type. *)
LEMMA AnswerType ==
    ASSUME TypeOK, NEW r \in Reqs, NEW err \in BOOLEAN
    PROVE  Answer(r, err) \in Metrics
  BY DEF TypeOK, Answer, Metrics, Handler, MaybeData

(* The store's steps keep its type: the queue bound only ever drops updates. *)
LEMMA StoreType ==
    ASSUME KV!KVTypeOK,
           \/ \E n \in Nodes : \E e \in KV!Cache : KV!NotifyMsg(n, e)
           \/ \E m \in pending : \E again \in BOOLEAN : KV!MergeMsg(m, again)
           \/ \E m \in pending : KV!DropMsg(m)
           \/ \E n \in Nodes : \E o \in Nodes : KV!PushPull(n, o)
           \/ \E n \in Nodes : KV!LoseReplica(n)
    PROVE  KV!KVTypeOK'
<1> USE DEF KV!KVTypeOK
<1>1. ASSUME NEW n \in Nodes, NEW e \in KV!Cache, KV!NotifyMsg(n, e)
      PROVE  KV!KVTypeOK'
  BY <1>1 DEF KV!NotifyMsg, KV!Enqueue, KV!Message
<1>2. ASSUME NEW m \in pending, NEW again \in BOOLEAN, KV!MergeMsg(m, again)
      PROVE  KV!KVTypeOK'
  <2>1. m.to \in Nodes /\ m.val \in KV!Cache
    BY DEF KV!Message
  <2>2. KV!Merge(kv[m.to], m.val) \in KV!Cache \cup {NoEntry}
    BY <2>1 DEF KV!Merge
  <2>3. kv' \in [Nodes -> KV!Cache \cup {NoEntry}]
    BY <1>2, <2>1, <2>2 DEF KV!MergeMsg
  <2> DEFINE peers == IF KV!Accepts(kv[m.to], m.val)
                      THEN Nodes \ {m.to} ELSE {}
             sent == {[to |-> p, val |-> m.val] : p \in peers}
             rest == IF again THEN pending ELSE pending \ {m}
  <2>4. pending' = KV!Enqueue(rest, sent)
    BY <1>2 DEF KV!MergeMsg
  <2>5. sent \subseteq KV!Message
    BY <2>1 DEF KV!Message
  <2> QED BY <2>3, <2>4, <2>5 DEF KV!Enqueue
<1>3. ASSUME NEW m \in pending, KV!DropMsg(m) PROVE KV!KVTypeOK'
  BY <1>3 DEF KV!DropMsg
<1>4. ASSUME NEW n \in Nodes, NEW o \in Nodes, KV!PushPull(n, o)
      PROVE  KV!KVTypeOK'
  BY <1>4 DEF KV!PushPull, KV!Merge
<1>5. ASSUME NEW n \in Nodes, KV!LoseReplica(n) PROVE KV!KVTypeOK'
  BY <1>5 DEF KV!LoseReplica
<1> QED BY <1>1, <1>2, <1>3, <1>4, <1>5

-----------------------------------------------------------------------------
(* A restart puts every request of the instance back to its initial state. *)
LEMMA RestartType ==
    ASSUME TypeOK, NEW n \in Nodes, Restart(n)
    PROVE  TypeOK'
  BY RecordTypes, StoreType, CollectorAssumption
     DEF TypeOK, Restart, Handler, Task, Gauge

(* Every action keeps the types. *)
LEMMA TypeStep == TypeOK /\ [Next]_vars => TypeOK'
<1> SUFFICES ASSUME TypeOK, [Next]_vars PROVE TypeOK'
  OBVIOUS
<1> USE RecordTypes
<1>1. ASSUME NEW r \in Reqs, Request(r) PROVE TypeOK'
  <2>1. ASSUME NEW e \in CallerParams, NEW c \in CallerParams, Reject(r, e, c)
        PROVE  TypeOK'
    BY <2>1 DEF TypeOK, Reject, Reply, Handler, HandlerPc, Gauge, localVars,
                kvVars, KV!KVTypeOK
  <2>2. ASSUME NEW n \in Nodes, NEW e \in CallerParams, NEW c \in CallerParams,
               Handle(r, n, e, c)
        PROVE  TypeOK'
    <3>1. handler' \in [Reqs -> Handler]
      BY <2>2, HandlerUpdates DEF Handle, TypeOK, HandlerPc, MaybeData
    <3> QED BY <2>2, <3>1 DEF TypeOK, Handle, localVars, kvVars, KV!KVTypeOK
  <2> QED BY <1>1, <2>1, <2>2 DEF Request
<1>2. ASSUME NEW r \in Reqs, Collect(r) PROVE TypeOK'
  <2>0. handler[r] \in Handler /\ result[r] \in MaybeData \cup {Empty}
    BY DEF TypeOK
  <2>1. CASE NotLeader(r)
    BY <2>1 DEF TypeOK, NotLeader, Reply, Handler, HandlerPc, Gauge, localVars,
                kvVars, KV!KVTypeOK
  <2>2. CASE Leader(r)
    <3>1. [handler[r] EXCEPT !.pc = "cache"] \in Handler
      BY <2>0, HandlerUpdates DEF HandlerPc, MaybeData
    <3> QED BY <2>2, <3>1 DEF TypeOK, Leader, localVars, kvVars, KV!KVTypeOK
  <2>3. ASSUME NEW getFails \in BOOLEAN, ReadCache(r, getFails) PROVE TypeOK'
    <3> DEFINE e == Lookup(r, getFails)
    <3>1. CASE Undecodable(r, e)
      BY <3>1 DEF TypeOK, Undecodable, Reply, Handler, HandlerPc, Gauge,
                  localVars, kvVars, KV!KVTypeOK
    <3>2. CASE CacheHit(r, e)
      <4>1. Decoded(e) \in MaybeData
        BY <3>2, LookupType DEF CacheHit, MaybeData
      <4> HIDE DEF e
      <4>2. [handler[r] EXCEPT !.pc = "emit", !.data = Decoded(e)] \in Handler
        BY <2>0, <4>1, HandlerUpdates DEF HandlerPc
      <4> QED BY <3>2, <4>2 DEF TypeOK, CacheHit, localVars, kvVars, KV!KVTypeOK
    <3>3. CASE CacheMiss(r, e)
      <4> DEFINE d == IF e = NoEntry THEN NoData ELSE Decoded(e)
      <4>1. d \in MaybeData
        BY LookupType DEF MaybeData
      <4> HIDE DEF e, d
      <4>2. [handler[r] EXCEPT !.pc = "wait", !.expired = e # NoEntry, !.data = d]
                \in Handler
        BY <2>0, <4>1, HandlerUpdates DEF HandlerPc
      <4>3. handler' = [handler EXCEPT ![r] =
                [@ EXCEPT !.pc = "wait", !.expired = e # NoEntry, !.data = d]]
        BY <3>3 DEF CacheMiss, d
      <4>4. [NoTask EXCEPT !.pc = "start"] \in Task
        BY DEF Task, TaskPc
      <4> QED BY <3>3, <4>2, <4>3, <4>4
              DEF TypeOK, CacheMiss, localVars, kvVars, KV!KVTypeOK
    <3> QED BY <2>3, <3>1, <3>2, <3>3 DEF ReadCache
  <2>4. CASE ReceiveResult(r)
    <3>1. handler'[r] \in Handler /\ handler' = [handler EXCEPT ![r] = handler'[r]]
      BY <2>0, <2>4, HandlerUpdates DEF ReceiveResult, HandlerPc, TypeOK, MaybeData
    <3> QED BY <2>4, <3>1 DEF TypeOK, ReceiveResult, localVars, kvVars,
                KV!KVTypeOK
  <2>5. CASE ReceiveInflight(r)
    <3>1. [handler[r] EXCEPT !.pc = "emit"] \in Handler
      BY <2>0, HandlerUpdates DEF HandlerPc, MaybeData
    <3> QED BY <2>5, <3>1 DEF TypeOK, ReceiveInflight, localVars, kvVars,
                KV!KVTypeOK
  <2>6. CASE Deadline(r)
    <3>1. [handler[r] EXCEPT !.pc = "emit", !.timeout = TRUE] \in Handler
      BY <2>0, HandlerUpdates DEF HandlerPc, MaybeData
    <3> QED BY <2>6, <3>1 DEF TypeOK, Deadline, localVars, kvVars, KV!KVTypeOK
  <2>7. CASE Emit(r)
    <3>1. PICK err \in ErrReads(r) : Reply(r, Answer(r, err))
      BY <2>7 DEF Emit
    <3>2. Answer(r, err) \in Metrics
      BY AnswerType DEF ErrReads, TypeOK
    <3>3. [IdleHandler EXCEPT !.pc = "respond"] \in Handler
      BY DEF IdleHandler, Handler, HandlerPc, MaybeData
    <3> QED BY <3>1, <3>2, <3>3 DEF TypeOK, Reply, Gauge, localVars, kvVars,
                KV!KVTypeOK
  <2>8. CASE Respond(r)
    BY <2>8 DEF TypeOK, Respond, localVars, kvVars, KV!KVTypeOK
  <2> QED BY <1>2, <2>1, <2>2, <2>3, <2>4, <2>5, <2>6, <2>7, <2>8 DEF Collect
<1>3. ASSUME NEW r \in Reqs, RunTask(r) PROVE TypeOK'
  <2> USE DEF TypeOK
  <2>0. /\ [task[r] EXCEPT !.pc = "scrape", !.began = now] \in Task
        /\ \A p \in {"granted", "refused", "notify", "send"} :
              [task[r] EXCEPT !.pc = p] \in Task
    <3>1. task[r] \in Task /\ now \in Nat
      OBVIOUS
    <3> QED BY ONLY <3>1 DEF Task, TaskPc
  <2> USE DEF TypeOK, localVars, kvVars, KV!KVTypeOK
  <2>1. CASE TaskUnlocked(r)
    BY <2>0, <2>1 DEF TaskUnlocked
  <2>2. CASE TaskLock(r)
    BY <2>0, <2>2 DEF TaskLock
  <2>3. CASE TaskRefused(r)
    BY <2>0, <2>3 DEF TaskRefused
  <2> USE DEF Task, TaskPc
  <2>4. CASE ReportGranted(r)
    BY <2>4 DEF ReportGranted, Gauge
  <2>5. CASE ReportRefused(r)
    BY <2>5 DEF ReportRefused, Gauge
  <2>6. CASE TaskPanic(r)
    BY <2>6, RestartType DEF TaskPanic
  <2>7. CASE Notify(r)
    BY <2>7 DEF Notify
  <2>8. CASE StoreResult(r)
    <3>1. home[r] \in Nodes /\ task[r].data \in Data
      BY <2>8 DEF StoreResult, Cacheable, HostCacheable, HostFactCacheable,
                  MaybeData
    <3>2. task' \in [Reqs -> Task]
      BY <2>8 DEF StoreResult
    <3>3. Clock(home[r]) \in Nat /\ Clock(home[r]) + TTL \in Nat
      BY <3>1, CollectorAssumption DEF Clock
    <3>4. CASE RingEnabled
      <4>1. [content |-> [data |-> task[r].data, zstd |-> Compression[home[r]]],
             createdAt |-> Clock(home[r]),
             expiresAt |-> Clock(home[r]) + TTL] \in KV!Cache
        BY <3>1, <3>3, CollectorAssumption DEF KV!Cache, Contents
      <4>2. KV!KVTypeOK'
        BY <2>8, <3>1, <3>4, <4>1, StoreType DEF StoreResult, UpdateKV
      <4> QED BY <2>8, <3>2, <3>4, <4>2 DEF StoreResult, UpdateKV
    <3>5. CASE ~RingEnabled
      <4>1. [value |-> task[r].data, expiresAt |-> Clock(home[r]) + TTL]
              \in CacheValue
        BY ONLY <3>1, <3>3 DEF CacheValue
      <4>2. localCache' \in [Nodes -> CacheValue \cup {NoEntry}]
        BY ONLY <2>8, <3>1, <3>5, <4>1, TypeOK DEF StoreResult, Set, TypeOK
      <4> QED BY <2>8, <3>2, <3>5, <4>2 DEF StoreResult, Set
    <3> QED BY <3>4, <3>5
  <2>9. CASE SkipStore(r)
    BY <2>9 DEF SkipStore
  <2>10. CASE SendResult(r)
    BY <2>10 DEF SendResult
  <2>11. CASE Unlock(r)
    BY <2>11 DEF Unlock
  <2> QED BY <1>3, <2>1, <2>2, <2>3, <2>4, <2>5, <2>6, <2>7, <2>8, <2>9, <2>10,
             <2>11 DEF RunTask
<1>4. ASSUME NEW r \in Reqs, ForemanAnswers(r) PROVE TypeOK'
  <2>1. PICK o \in Outcomes(task[r].began) : EndScrape(r, o)
    BY <1>4 DEF ForemanAnswers
  <2>2. o.data \in MaybeData /\ o.err \in BOOLEAN
    <3>1. task[r].began \in Nat
      BY DEF TypeOK, Task
    <3> QED BY <3>1, OutcomeType
  <2>3. [task[r] EXCEPT !.pc = "store", !.data = o.data, !.err = o.err] \in Task
    BY <2>2 DEF TypeOK, Task, TaskPc
  <2> QED BY <2>1, <2>2, <2>3 DEF TypeOK, EndScrape, localVars, kvVars,
              KV!KVTypeOK
<1>5. ASSUME NEW n \in Nodes, Crash(n) PROVE TypeOK'
  BY <1>5, RestartType DEF Crash
<1>6. ASSUME NEW n \in Nodes, RingChange(n) PROVE TypeOK'
  BY <1>6 DEF TypeOK, RingChange, localVars, reqVars, kvVars, KV!KVTypeOK
<1>7. CASE Tick
  BY <1>7 DEF TypeOK, Tick, localVars, reqVars, kvVars, KV!KVTypeOK
<1>8. CASE Gossip
  <2>1. KV!KVTypeOK'
    BY <1>8, StoreType DEF Gossip, TypeOK
  <2> QED BY <1>8, <2>1 DEF TypeOK, Gossip, localVars, reqVars
<1>9. CASE UNCHANGED vars
  BY <1>9 DEF TypeOK, vars, localVars, reqVars, kvVars, KV!KVTypeOK
<1> QED BY <1>1, <1>2, <1>3, <1>4, <1>5, <1>6, <1>7, <1>8, <1>9 DEF Next

(* Every variable keeps its type: no path through the handler, the goroutine
   or the store puts a value where it does not belong. *)
THEOREM TypeCorrect == Spec => []TypeOK
<1>1. Init => TypeOK
  BY RecordTypes, CollectorAssumption
     DEF Init, TypeOK, Gauge, KV!KVInit, KV!KVTypeOK
<1> QED BY <1>1, TypeStep, PTL DEF Spec

-----------------------------------------------------------------------------
(* Mutual exclusion of passes. *)

\* Until Collect reaches its go statement, the slot's goroutine does not exist.
NoTaskYet ==
    \A r \in Reqs : handler[r].pc \in {"leader", "cache"} => task[r].pc = "none"

LockInv == NoTaskYet /\ LockExclusive

(* Every action keeps LockInv: only TaskLock makes a task critical, and it
   finds the lock channel empty; only Unlock and the death of the process end
   a critical task, and both empty the channel. *)
LEMMA LockStep == TypeOK /\ LockInv /\ [Next]_vars => LockInv'
<1> SUFFICES ASSUME TypeOK, LockInv, [Next]_vars PROVE LockInv'
  OBVIOUS
<1> USE DEF LockInv
<1>0. /\ handler \in [Reqs -> Handler] /\ task \in [Reqs -> Task]
      /\ home \in [Reqs -> Nodes] /\ lock \in [Nodes -> BOOLEAN]
  BY DEF TypeOK
<1>1. ASSUME UNCHANGED <<task, home, lock>>,
             NEW r \in Reqs,
             \A q \in Reqs : q # r => handler'[q] = handler[q],
             handler'[r].pc \in {"leader", "cache"}
                 => handler[r].pc \in {"leader", "cache"}
      PROVE  LockInv'
  BY <1>1 DEF NoTaskYet, LockExclusive, Critical
<1>2. ASSUME UNCHANGED <<task, home, lock, handler>> PROVE LockInv'
  BY <1>2 DEF NoTaskYet, LockExclusive, Critical
<1>3. ASSUME UNCHANGED <<home, lock, handler>>,
             NEW r \in Reqs,
             \A q \in Reqs : q # r => task'[q] = task[q],
             task[r].pc # "none",
             LockRequests => (Critical(r)' <=> Critical(r))
      PROVE  LockInv'
  BY <1>3 DEF NoTaskYet, LockExclusive, Critical
<1>4. ASSUME NEW n \in Nodes, Restart(n) PROVE LockInv'
  <2>1. \A r \in Reqs : home[r] # n => handler'[r] = handler[r] /\ task'[r] = task[r]
    BY <1>4 DEF Restart
  <2>2. \A r \in Reqs : home[r] = n =>
            handler'[r].pc = "idle" /\ task'[r].pc = "none"
    BY <1>4 DEF Restart, IdleHandler, NoTask
  <2>3. home' = home /\ lock' = [lock EXCEPT ![n] = FALSE]
    BY <1>4 DEF Restart
  <2> QED BY <1>0, <2>1, <2>2, <2>3 DEF NoTaskYet, LockExclusive, Critical
<1>5. ASSUME NEW r \in Reqs, Request(r) PROVE LockInv'
  <2>1. ASSUME NEW e \in CallerParams, NEW c \in CallerParams, Reject(r, e, c)
        PROVE  LockInv'
    BY <1>0, <1>1, <2>1 DEF Reject, Reply, localVars, IdleHandler
  <2>2. ASSUME NEW n \in Nodes, NEW e \in CallerParams, NEW c \in CallerParams,
               Handle(r, n, e, c)
        PROVE  LockInv'
    <3>1. /\ task[r].pc = "none" /\ task' = task /\ lock' = lock
          /\ \A q \in Reqs : q # r => handler'[q] = handler[q] /\ home'[q] = home[q]
      BY <1>0, <2>2 DEF Handle, Free, localVars
    <3> QED BY <3>1 DEF NoTaskYet, LockExclusive, Critical
  <2> QED BY <1>5, <2>1, <2>2 DEF Request
<1>6. ASSUME NEW r \in Reqs, Collect(r) PROVE LockInv'
  <2>1. CASE NotLeader(r)
    BY <1>0, <1>1, <2>1 DEF NotLeader, Reply, localVars, IdleHandler
  <2>2. CASE Leader(r)
    BY <1>0, <1>1, <2>2 DEF Leader, localVars
  <2>3. ASSUME NEW e, Undecodable(r, e) PROVE LockInv'
    BY <1>0, <1>1, <2>3 DEF Undecodable, Reply, localVars, IdleHandler
  <2>4. ASSUME NEW e, CacheHit(r, e) PROVE LockInv'
    BY <1>0, <1>1, <2>4 DEF CacheHit, localVars
  <2>5. ASSUME NEW e, CacheMiss(r, e) PROVE LockInv'
    <3>1. task[r].pc = "none"
      BY <2>5 DEF CacheMiss, NoTaskYet
    <3>2. task'[r].pc = "start" /\ handler'[r].pc = "wait"
      BY <1>0, <2>5 DEF CacheMiss, NoTask, Handler
    <3>3. /\ home' = home /\ lock' = lock
          /\ \A q \in Reqs : q # r => handler'[q] = handler[q] /\ task'[q] = task[q]
      BY <1>0, <2>5 DEF CacheMiss, localVars
    <3> QED BY <3>1, <3>2, <3>3 DEF NoTaskYet, LockExclusive, Critical
  <2>6. CASE ReceiveResult(r)
    BY <1>0, <1>1, <2>6 DEF ReceiveResult, localVars, Handler
  <2>7. CASE ReceiveInflight(r)
    BY <1>0, <1>1, <2>7 DEF ReceiveInflight, localVars
  <2>8. CASE Deadline(r)
    BY <1>0, <1>1, <2>8 DEF Deadline, localVars
  <2>9. CASE Emit(r)
    BY <1>0, <1>1, <2>9 DEF Emit, Reply, localVars, IdleHandler
  <2>10. CASE Respond(r)
    BY <1>0, <1>1, <2>10 DEF Respond, localVars, IdleHandler
  <2> QED BY <1>6, <2>1, <2>2, <2>3, <2>4, <2>5, <2>6, <2>7, <2>8, <2>9, <2>10
          DEF Collect, ReadCache
<1>7. ASSUME NEW r \in Reqs, RunTask(r) PROVE LockInv'
  <2> USE DEF Critical
  <2>1. CASE TaskUnlocked(r)
    BY <1>0, <1>3, <2>1 DEF TaskUnlocked, localVars
  <2>2. CASE TaskLock(r)
    <3>1. /\ ~lock[home[r]] /\ home[r] \in Nodes /\ home' = home
          /\ lock' = [lock EXCEPT ![home[r]] = TRUE] /\ handler' = handler
          /\ \A q \in Reqs : q # r => task'[q] = task[q]
          /\ task[r].pc = "start" /\ task'[r].pc = "granted"
      BY <1>0, <2>2 DEF TaskLock, Task
    <3>2. NoTaskYet'
      BY <3>1 DEF NoTaskYet
    <3>3. LockRequests => \A q \in Reqs : Critical(q) => home[q] # home[r]
      BY <3>1 DEF LockExclusive
    <3> QED BY <1>0, <3>1, <3>2, <3>3 DEF LockExclusive
  <2>3. CASE TaskRefused(r)
    BY <1>0, <1>3, <2>3 DEF TaskRefused, localVars
  <2>4. CASE ReportGranted(r)
    BY <1>0, <1>3, <2>4 DEF ReportGranted, localVars
  <2>5. CASE ReportRefused(r)
    BY <1>0, <1>3, <2>5 DEF ReportRefused, localVars
  <2>6. CASE TaskPanic(r)
    BY <1>0, <1>4, <2>6 DEF TaskPanic
  <2>7. CASE Notify(r)
    BY <1>0, <1>3, <2>7 DEF Notify, NoTask, localVars
  <2>8. CASE StoreResult(r)
    BY <1>0, <1>3, <2>8 DEF StoreResult
  <2>9. CASE SkipStore(r)
    BY <1>0, <1>3, <2>9 DEF SkipStore, localVars
  <2>10. CASE SendResult(r)
    BY <1>0, <1>3, <2>10 DEF SendResult, NoTask, localVars
  <2>11. CASE Unlock(r)
    <3>1. /\ home[r] \in Nodes /\ home' = home /\ handler' = handler
          /\ lock' = [lock EXCEPT ![home[r]] = FALSE]
          /\ \A q \in Reqs : q # r => task'[q] = task[q]
          /\ task[r].pc = "unlock" /\ task'[r].pc = "none"
      BY <1>0, <2>11 DEF Unlock, NoTask
    <3>2. LockRequests =>
              \A q \in Reqs : q # r /\ Critical(q) => home[q] # home[r]
      BY <3>1 DEF LockExclusive
    <3> QED BY <1>0, <3>1, <3>2 DEF NoTaskYet, LockExclusive
  <2> QED BY <1>7, <2>1, <2>2, <2>3, <2>4, <2>5, <2>6, <2>7, <2>8, <2>9, <2>10,
             <2>11 DEF RunTask
<1>8. ASSUME NEW r \in Reqs, ForemanAnswers(r) PROVE LockInv'
  BY <1>0, <1>3, <1>8 DEF ForemanAnswers, EndScrape, Critical, localVars
<1>9. ASSUME NEW n \in Nodes, Crash(n) PROVE LockInv'
  BY <1>4, <1>9 DEF Crash
<1>10. ASSUME NEW n \in Nodes, RingChange(n) PROVE LockInv'
  BY <1>2, <1>10 DEF RingChange, localVars, reqVars
<1>11. CASE Tick
  BY <1>2, <1>11 DEF Tick, localVars, reqVars
<1>12. CASE Gossip
  BY <1>2, <1>12 DEF Gossip, localVars, reqVars
<1>13. CASE UNCHANGED vars
  BY <1>2, <1>13 DEF vars, localVars, reqVars
<1> QED BY <1>5, <1>6, <1>7, <1>8, <1>9, <1>10, <1>11, <1>12, <1>13 DEF Next

(* With the lock option two passes of a collector never overlap in a process,
   however many requests are in flight and whichever of them timed out. *)
THEOREM PassesExclude == Spec => []LockExclusive
<1>1. Init => LockInv
  BY DEF Init, LockInv, NoTaskYet, LockExclusive, Critical, IdleHandler, NoTask
<1>2. LockInv => LockExclusive
  BY DEF LockInv
<1> QED BY <1>1, <1>2, TypeCorrect, LockStep, PTL DEF Spec

-----------------------------------------------------------------------------
(* Freshness of memcache. *)

\* What a running scrape will bring is as old as its start.
ScrapeAge ==
    \A r \in Reqs :
        /\ task[r].pc \in {"scrape", "store"} => task[r].began <= now
        /\ task[r].pc = "store" /\ task[r].data # NoData
               => task[r].data.asof = task[r].began

CacheAge == \A n \in Nodes : localCache[n] # NoEntry => localCache[n].value.asof <= now

\* While a pass holds the lock, what is cached began no later than it did.
PassIsNewest ==
    LockRequests =>
        \A r \in Reqs :
            task[r].pc \in {"scrape", "store"} /\ localCache[home[r]] # NoEntry
                => localCache[home[r]].value.asof <= task[r].began

AgeInv == ScrapeAge /\ CacheAge /\ PassIsNewest

(* A step that writes memcache writes, for one instance, series of a pass that
   holds the lock; the pass began after what it replaces did. *)
LEMMA AgeStep ==
    ASSUME TypeOK, LockInv, AgeInv, [Next]_vars
    PROVE  /\ AgeInv'
           /\ LockRequests =>
                \A n \in Nodes :
                    localCache[n] # NoEntry /\ localCache'[n] # NoEntry
                        => localCache'[n].value.asof >= localCache[n].value.asof
<1> DEFINE Forward ==
        LockRequests =>
            \A n \in Nodes :
                localCache[n] # NoEntry /\ localCache'[n] # NoEntry
                    => localCache'[n].value.asof >= localCache[n].value.asof
<1> SUFFICES AgeInv' /\ Forward
  OBVIOUS
<1> USE DEF AgeInv
<1>0. /\ handler \in [Reqs -> Handler] /\ task \in [Reqs -> Task]
      /\ home \in [Reqs -> Nodes] /\ now \in Nat
      /\ localCache \in [Nodes -> CacheValue \cup {NoEntry}]
  BY DEF TypeOK
<1>a. \A n \in Nodes : localCache[n] # NoEntry => localCache[n].value.asof \in Nat
  BY <1>0 DEF CacheValue, Data
<1>b. \A r \in Reqs : task[r].began \in Nat /\ home[r] \in Nodes
  BY <1>0 DEF Task
<1>1. ASSUME localCache' = localCache PROVE Forward
  BY <1>1, <1>a
<1>2. ASSUME UNCHANGED <<localCache, task>>, now' \in Nat, now' >= now,
             \A r \in Reqs : task[r].pc \in {"scrape", "store"} => home'[r] = home[r]
      PROVE  AgeInv' /\ Forward
  BY <1>1, <1>2, <1>0, <1>a, <1>b DEF ScrapeAge, CacheAge, PassIsNewest
<1>3. ASSUME UNCHANGED <<localCache, now, home>>, NEW r \in Reqs,
             \A q \in Reqs : q # r => task'[q] = task[q],
             task'[r].pc \notin {"scrape", "store"}
      PROVE  AgeInv' /\ Forward
  BY <1>1, <1>3 DEF ScrapeAge, CacheAge, PassIsNewest
<1>4. ASSUME UNCHANGED <<localCache, now, home>>, NEW r \in Reqs,
             \A q \in Reqs : q # r => task'[q] = task[q],
             task'[r].pc = "scrape", task'[r].began = now
      PROVE  AgeInv' /\ Forward
  BY <1>1, <1>4, <1>0, <1>b DEF ScrapeAge, CacheAge, PassIsNewest
<1>5. ASSUME NEW n \in Nodes, Restart(n) PROVE AgeInv' /\ Forward
  <2>1. \A r \in Reqs : home[r] # n => task'[r] = task[r]
    BY <1>5 DEF Restart
  <2>2. \A r \in Reqs : home[r] = n => task'[r].pc = "none"
    BY <1>5 DEF Restart, NoTask
  <2>3. home' = home /\ now' = now /\ localCache' = [localCache EXCEPT ![n] = NoEntry]
    BY <1>5 DEF Restart
  <2> QED BY <1>0, <1>a, <1>b, <2>1, <2>2, <2>3
          DEF ScrapeAge, CacheAge, PassIsNewest
<1>6. ASSUME NEW r \in Reqs, Request(r) PROVE AgeInv' /\ Forward
  <2>1. ASSUME NEW e \in CallerParams, NEW c \in CallerParams, Reject(r, e, c)
        PROVE  AgeInv' /\ Forward
    BY <1>0, <1>2, <2>1 DEF Reject, Reply, localVars
  <2>2. ASSUME NEW n \in Nodes, NEW e \in CallerParams, NEW c \in CallerParams,
               Handle(r, n, e, c)
        PROVE  AgeInv' /\ Forward
    BY <1>0, <1>2, <2>2 DEF Handle, Free, localVars
  <2> QED BY <1>6, <2>1, <2>2 DEF Request
<1>7. ASSUME NEW r \in Reqs, Collect(r) PROVE AgeInv' /\ Forward
  <2>1. ASSUME NEW e, CacheMiss(r, e) PROVE AgeInv' /\ Forward
    BY <1>0, <1>3, <2>1 DEF CacheMiss, NoTask, localVars
  <2>2. ASSUME UNCHANGED <<localCache, task, now, home>> PROVE AgeInv' /\ Forward
    BY <1>0, <1>2, <2>2
  <2>3. ASSUME NEW e, Undecodable(r, e) \/ CacheHit(r, e)
        PROVE  UNCHANGED <<localCache, task, now, home>>
    BY <2>3 DEF Undecodable, CacheHit, Reply, localVars
  <2>4. CASE NotLeader(r) \/ Leader(r) \/ Emit(r) \/ Respond(r)
    <3>1. UNCHANGED <<localCache, task, now, home>>
      BY <2>4 DEF NotLeader, Leader, Emit, Respond, Reply, localVars
    <3> QED BY <2>2, <3>1
  <2>5. CASE ReceiveResult(r) \/ ReceiveInflight(r) \/ Deadline(r)
    <3>1. UNCHANGED <<localCache, task, now, home>>
      BY <2>5 DEF ReceiveResult, ReceiveInflight, Deadline, localVars
    <3> QED BY <2>2, <3>1
  <2> QED BY <1>7, <2>1, <2>2, <2>3, <2>4, <2>5 DEF Collect, ReadCache
<1>8. ASSUME NEW r \in Reqs, RunTask(r) PROVE AgeInv' /\ Forward
  <2>1. CASE TaskUnlocked(r)
    BY <1>0, <1>4, <2>1 DEF TaskUnlocked, localVars, Task
  <2>2. CASE ReportGranted(r)
    BY <1>0, <1>4, <2>2 DEF ReportGranted, localVars, Task
  <2>3. CASE TaskLock(r)
    BY <1>0, <1>3, <2>3 DEF TaskLock
  <2>4. CASE TaskRefused(r)
    BY <1>0, <1>3, <2>4 DEF TaskRefused, localVars
  <2>5. CASE TaskPanic(r)
    BY <1>b, <1>5, <2>5 DEF TaskPanic
  <2>6. CASE Notify(r)
    BY <1>0, <1>3, <2>6 DEF Notify, NoTask, localVars
  <2>7. CASE SendResult(r)
    BY <1>0, <1>3, <2>7 DEF SendResult, NoTask, localVars
  <2>8. CASE Unlock(r)
    BY <1>0, <1>3, <2>8 DEF Unlock, NoTask
  <2>9. CASE StoreResult(r)
    <3>1. /\ task[r].pc = "store" /\ task'[r].pc = "send" /\ now' = now
          /\ home' = home /\ \A q \in Reqs : q # r => task'[q] = task[q]
      BY <1>0, <2>9 DEF StoreResult
    <3>2. CASE RingEnabled
      BY <1>3, <2>9, <3>1, <3>2 DEF StoreResult, UpdateKV
    <3>3. CASE ~RingEnabled
      <4> DEFINE n == home[r]
      <4>1. task[r].data # NoData /\ task[r].data \in MaybeData
        BY <1>0, <2>9 DEF StoreResult, Cacheable, HostCacheable,
                          HostFactCacheable, Task
      <4>2. localCache'[n].value = task[r].data
        BY <1>0, <1>b, <2>9, <3>3 DEF StoreResult, Set
      <4>3. \A i \in Nodes : i # n => localCache'[i] = localCache[i]
        BY <1>0, <2>9, <3>3 DEF StoreResult, Set
      <4>4. task[r].data.asof = task[r].began /\ task[r].began <= now
        BY <3>1, <4>1 DEF ScrapeAge
      <4>5. LockRequests => \A q \in Reqs :
                q # r /\ task[q].pc \in {"scrape", "store"} => home[q] # n
        BY <3>1 DEF LockInv, LockExclusive, Critical
      <4>6. ScrapeAge'
        BY <3>1 DEF ScrapeAge
      <4>7. CacheAge'
        BY <3>1, <4>2, <4>3, <4>4 DEF CacheAge
      <4>8. PassIsNewest'
        BY <1>b, <3>1, <4>3, <4>5 DEF PassIsNewest
      <4>9. Forward
        BY <1>a, <3>1, <4>2, <4>3, <4>4 DEF PassIsNewest
      <4> QED BY <4>6, <4>7, <4>8, <4>9
    <3> QED BY <3>2, <3>3
  <2>10. CASE ReportRefused(r)
    BY <1>0, <1>3, <2>10 DEF ReportRefused, localVars
  <2>11. CASE SkipStore(r)
    BY <1>0, <1>3, <2>11 DEF SkipStore, localVars
  <2> QED BY <1>8, <2>1, <2>2, <2>3, <2>4, <2>5, <2>6, <2>7, <2>8, <2>9, <2>10,
             <2>11 DEF RunTask
<1>9. ASSUME NEW r \in Reqs, ForemanAnswers(r) PROVE AgeInv' /\ Forward
  <2>1. PICK o \in Outcomes(task[r].began) : EndScrape(r, o)
    BY <1>9 DEF ForemanAnswers
  <2>2. o.data \in MaybeData /\ (o.data \in Data => o.data.asof = task[r].began)
    BY <1>b, OutcomeType
  <2>3. /\ task[r].pc = "scrape" /\ task'[r].pc = "store"
        /\ task'[r].data = o.data /\ task'[r].began = task[r].began
        /\ \A q \in Reqs : q # r => task'[q] = task[q]
        /\ UNCHANGED <<now, home, localCache>>
    BY <1>0, <2>1 DEF EndScrape, Task, localVars
  <2> QED BY <1>1, <2>2, <2>3 DEF ScrapeAge, CacheAge, PassIsNewest, MaybeData
<1>10. ASSUME NEW n \in Nodes, Crash(n) PROVE AgeInv' /\ Forward
  BY <1>5, <1>10 DEF Crash
<1>11. ASSUME NEW n \in Nodes, RingChange(n) PROVE AgeInv' /\ Forward
  BY <1>0, <1>2, <1>11 DEF RingChange, localVars, reqVars
<1>12. CASE Tick
  BY <1>0, <1>2, <1>12 DEF Tick, localVars, reqVars
<1>13. CASE Gossip
  BY <1>0, <1>2, <1>13 DEF Gossip, localVars, reqVars
<1>14. CASE UNCHANGED vars
  BY <1>0, <1>2, <1>14 DEF vars, localVars, reqVars
<1> QED BY <1>6, <1>7, <1>8, <1>9, <1>10, <1>11, <1>12, <1>13, <1>14 DEF Next

(* With the lock option memcache never goes back to an earlier scrape, although
   a task may outlive its request by any time. *)
THEOREM CacheForward == Spec => CacheNeverGoesBack
<1>1. Init => LockInv /\ AgeInv
  BY DEF Init, LockInv, NoTaskYet, LockExclusive, Critical, IdleHandler, NoTask,
         AgeInv, ScrapeAge, CacheAge, PassIsNewest
<1>2. TypeOK /\ LockInv /\ AgeInv /\ [Next]_vars => AgeInv'
  BY AgeStep
<1>3. TypeOK /\ LockInv /\ AgeInv /\ [Next]_vars =>
        [LockRequests =>
            \A n \in Nodes :
                localCache[n] # NoEntry /\ localCache'[n] # NoEntry
                    => localCache'[n].value.asof >= localCache[n].value.asof]_vars
  BY AgeStep
<1> QED BY <1>1, <1>2, <1>3, TypeCorrect, LockStep, PTL
        DEF Spec, CacheNeverGoesBack

-----------------------------------------------------------------------------
(* Completeness of what is cached. *)

\* A task that is about to store knows whether its series are complete.
TaskSound ==
    \A r \in Reqs :
        task[r].pc = "store" /\ task[r].data # NoData
            => (task[r].data.whole <=> ~task[r].err)

WholeInv == TaskSound /\ CachedOnlyWhole

(* The store never makes up a value: gossip, push/pull and a process that dies
   leave the cached values or fewer of them. *)
LEMMA StoreKeepsValues ==
    ASSUME KV!KVTypeOK,
           \/ \E m \in pending : \E again \in BOOLEAN : KV!MergeMsg(m, again)
           \/ \E m \in pending : KV!DropMsg(m)
           \/ \E n \in Nodes : \E o \in Nodes : KV!PushPull(n, o)
           \/ \E n \in Nodes : KV!LoseReplica(n)
    PROVE  /\ \A n \in Nodes : kv'[n] # NoEntry =>
                 \/ \E i \in Nodes : kv[i] # NoEntry /\ kv'[n] = kv[i]
                 \/ \E m \in pending : kv'[n] = m.val
           /\ \A x \in pending' : \E m \in pending : x.val = m.val
<1> USE DEF KV!KVTypeOK
<1>1. ASSUME NEW m \in pending, NEW again \in BOOLEAN, KV!MergeMsg(m, again)
      PROVE  /\ \A n \in Nodes : kv'[n] = kv[n] \/ kv'[n] = m.val
             /\ \A x \in pending' : \E y \in pending : x.val = y.val
  <2>1. m.to \in Nodes
    BY DEF KV!Message
  <2> DEFINE peers == IF KV!Accepts(kv[m.to], m.val)
                      THEN Nodes \ {m.to} ELSE {}
             sent == {[to |-> p, val |-> m.val] : p \in peers}
             rest == IF again THEN pending ELSE pending \ {m}
  <2>2. pending' = KV!Enqueue(rest, sent)
    BY <1>1 DEF KV!MergeMsg
  <2>3. \A x \in pending' : x \in pending \/ x \in sent
    BY <2>2 DEF KV!Enqueue
  <2>4. \A x \in sent : x.val = m.val
    OBVIOUS
  <2>5. \A n \in Nodes : kv'[n] = kv[n] \/ kv'[n] = m.val
    BY <1>1, <2>1 DEF KV!MergeMsg, KV!Merge
  <2> HIDE DEF sent
  <2> QED BY <2>3, <2>4, <2>5
<1>2. ASSUME NEW m \in pending, KV!DropMsg(m)
      PROVE  kv' = kv /\ pending' \subseteq pending
  BY <1>2 DEF KV!DropMsg
<1>3. ASSUME NEW n \in Nodes, NEW o \in Nodes, KV!PushPull(n, o)
      PROVE  /\ pending' = pending
             /\ \A i \in Nodes : kv'[i] = kv[i] \/ kv'[i] = kv[o]
  BY <1>3 DEF KV!PushPull, KV!Merge
<1>4. ASSUME NEW n \in Nodes, KV!LoseReplica(n)
      PROVE  /\ pending' \subseteq pending
             /\ \A i \in Nodes : kv'[i] = kv[i] \/ kv'[i] = NoEntry
  BY <1>4 DEF KV!LoseReplica
<1> QED BY <1>1, <1>2, <1>3, <1>4

(* The same of every place a value is cached in. *)
LEMMA CachedKept ==
    ASSUME \A n \in Nodes : localCache'[n] \in {localCache[n], NoEntry},
           \A n \in Nodes : kv'[n] # NoEntry =>
                 \/ \E i \in Nodes : kv[i] # NoEntry /\ kv'[n] = kv[i]
                 \/ \E m \in pending : kv'[n] = m.val,
           \A x \in pending' : \E m \in pending : x.val = m.val
    PROVE  CachedValues' \subseteq CachedValues
  BY DEF CachedValues

(* Only a task stores, and it stores what its own outcome allows. *)
LEMMA WholeStep == TypeOK /\ WholeInv /\ [Next]_vars => WholeInv'
<1> SUFFICES ASSUME TypeOK, WholeInv, [Next]_vars PROVE WholeInv'
  OBVIOUS
<1>0. task \in [Reqs -> Task] /\ home \in [Reqs -> Nodes] /\ KV!KVTypeOK
  BY DEF TypeOK
<1>1. ASSUME CachedValues' \subseteq CachedValues PROVE CachedOnlyWhole'
  BY <1>1 DEF WholeInv, CachedOnlyWhole, KeepsPartial
<1>2. ASSUME UNCHANGED <<localCache, kv, pending>>
      PROVE  CachedValues' \subseteq CachedValues
  BY <1>2 DEF CachedValues
<1>3. ASSUME NEW r \in Reqs, \A q \in Reqs : q # r => task'[q] = task[q],
             task'[r] = task[r] \/ task'[r].pc # "store"
      PROVE  TaskSound'
  BY <1>3 DEF WholeInv, TaskSound
<1>4. ASSUME NEW n \in Nodes, Restart(n) PROVE WholeInv'
  <2>1. \A r \in Reqs : task'[r] = task[r] \/ task'[r].pc = "none"
    BY <1>4 DEF Restart, NoTask
  <2>2. TaskSound'
    BY <2>1 DEF WholeInv, TaskSound
  <2>3. \A i \in Nodes : localCache'[i] \in {localCache[i], NoEntry}
    BY <1>4 DEF Restart, TypeOK
  <2>4. CachedValues' \subseteq CachedValues
    BY <1>0, <1>4, <2>3, StoreKeepsValues, CachedKept DEF Restart
  <2> QED BY <1>1, <2>2, <2>4 DEF WholeInv
<1>5. ASSUME NEW r \in Reqs, Request(r) PROVE WholeInv'
  <2>1. UNCHANGED <<localCache, kv, pending, task>>
    BY <1>5 DEF Request, Reject, Handle, Reply, localVars, kvVars
  <2> QED BY <1>1, <1>2, <1>3, <2>1 DEF WholeInv
<1>6. ASSUME NEW r \in Reqs, Collect(r) PROVE WholeInv'
  <2>1. UNCHANGED <<localCache, kv, pending>>
    BY <1>6 DEF Collect, NotLeader, Leader, ReadCache, Undecodable, CacheHit,
        CacheMiss, ReceiveResult, ReceiveInflight, Deadline, Emit, Respond,
        Reply, localVars, kvVars
  <2>2. task' = task \/ task' = [task EXCEPT ![r] = [NoTask EXCEPT !.pc = "start"]]
    BY <1>6 DEF Collect, NotLeader, Leader, ReadCache, Undecodable, CacheHit,
        CacheMiss, ReceiveResult, ReceiveInflight, Deadline, Emit, Respond,
        Reply
  <2>3. TaskSound'
    BY <1>0, <1>3, <2>2 DEF NoTask
  <2> QED BY <1>1, <1>2, <2>1, <2>3 DEF WholeInv
<1>7. ASSUME NEW r \in Reqs, RunTask(r) PROVE WholeInv'
  <2>1. CASE StoreResult(r)
    <3>1. TaskSound'
      BY <1>0, <1>3, <2>1 DEF StoreResult
    <3>2. CachedValues' \subseteq CachedValues \cup {task[r].data}
      <4>1. CASE RingEnabled
        BY <2>1, <4>1 DEF StoreResult, UpdateKV, KV!NotifyMsg, KV!Enqueue,
                          CachedValues
      <4>2. CASE ~RingEnabled
        BY <1>0, <2>1, <4>2 DEF StoreResult, Set, CachedValues, TypeOK, kvVars
      <4> QED BY <4>1, <4>2
    <3>3. ~KeepsPartial => task[r].data.whole
      <4>1. task[r].pc = "store" /\ task[r].data # NoData
        BY <2>1 DEF StoreResult, Cacheable, HostCacheable, HostFactCacheable
      <4>2. ~KeepsPartial => ~task[r].err
        BY <2>1, CollectorAssumption DEF StoreResult, Cacheable, HostCacheable,
            HostFactCacheable, KeepsPartial
      <4> QED BY <4>1, <4>2 DEF WholeInv, TaskSound
    <3> QED BY <3>1, <3>2, <3>3 DEF WholeInv, CachedOnlyWhole, KeepsPartial
  <2>2. CASE TaskPanic(r)
    BY <1>0, <1>4, <2>2 DEF TaskPanic
  <2>3. ASSUME UNCHANGED <<localCache, kv, pending>>,
               \A q \in Reqs : q # r => task'[q] = task[q],
               task'[r].pc # "store"
        PROVE  WholeInv'
    BY <1>1, <1>2, <1>3, <2>3 DEF WholeInv
  <2> USE DEF localVars, kvVars, NoTask
  <2>4. CASE TaskUnlocked(r)
    BY <1>0, <2>3, <2>4 DEF TaskUnlocked, Task
  <2>5. CASE TaskLock(r)
    BY <1>0, <2>3, <2>5 DEF TaskLock
  <2>6. CASE TaskRefused(r)
    BY <1>0, <2>3, <2>6 DEF TaskRefused
  <2>7. CASE ReportGranted(r)
    BY <1>0, <2>3, <2>7 DEF ReportGranted, Task
  <2>8. CASE ReportRefused(r)
    BY <1>0, <2>3, <2>8 DEF ReportRefused
  <2>9. CASE Notify(r)
    BY <1>0, <2>3, <2>9 DEF Notify
  <2>10. CASE SkipStore(r)
    BY <1>0, <2>3, <2>10 DEF SkipStore
  <2>11. CASE SendResult(r)
    BY <1>0, <2>3, <2>11 DEF SendResult
  <2>12. CASE Unlock(r)
    BY <1>0, <2>3, <2>12 DEF Unlock
  <2> QED BY <1>7, <2>1, <2>2, <2>4, <2>5, <2>6, <2>7, <2>8, <2>9, <2>10, <2>11,
             <2>12 DEF RunTask
<1>8. ASSUME NEW r \in Reqs, ForemanAnswers(r) PROVE WholeInv'
  <2>1. PICK o \in Outcomes(task[r].began) : EndScrape(r, o)
    BY <1>8 DEF ForemanAnswers
  <2>2. o.data \in MaybeData /\ (o.data \in Data => (o.data.whole <=> ~o.err))
    BY <1>0, OutcomeType DEF Task
  <2>3. /\ task'[r].data = o.data /\ task'[r].err = o.err
        /\ \A q \in Reqs : q # r => task'[q] = task[q]
        /\ UNCHANGED <<localCache, kv, pending>>
    BY <1>0, <2>1 DEF EndScrape, Task, localVars, kvVars
  <2>4. TaskSound'
    BY <2>2, <2>3 DEF WholeInv, TaskSound, MaybeData
  <2> QED BY <1>1, <1>2, <2>3, <2>4 DEF WholeInv
<1>9. ASSUME NEW n \in Nodes, Crash(n) PROVE WholeInv'
  BY <1>4, <1>9 DEF Crash
<1>10. ASSUME task' = task, UNCHANGED <<localCache, kv, pending>> PROVE WholeInv'
  <2>1. TaskSound'
    BY <1>10 DEF WholeInv, TaskSound
  <2> QED BY <1>1, <1>2, <1>10, <2>1 DEF WholeInv
<1>11. ASSUME NEW n \in Nodes, RingChange(n) PROVE WholeInv'
  BY <1>10, <1>11 DEF RingChange, localVars, reqVars, kvVars
<1>12. CASE Tick
  BY <1>10, <1>12 DEF Tick, localVars, reqVars, kvVars
<1>13. CASE Gossip
  <2>1. task' = task /\ localCache' = localCache
    BY <1>13 DEF Gossip, localVars, reqVars
  <2>2. CachedValues' \subseteq CachedValues
    BY <1>0, <1>13, <2>1, StoreKeepsValues, CachedKept DEF Gossip
  <2>3. TaskSound'
    BY <2>1 DEF WholeInv, TaskSound
  <2> QED BY <1>1, <2>2, <2>3 DEF WholeInv
<1>14. CASE UNCHANGED vars
  BY <1>10, <1>14 DEF vars, localVars, reqVars, kvVars
<1> QED BY <1>5, <1>6, <1>7, <1>8, <1>9, <1>11, <1>12, <1>13, <1>14 DEF Next

(* No series of a scrape that reported an error are ever cached, neither in a
   process nor anywhere in the ring, unless update-on-partial asks for it. *)
THEOREM OnlyWholeCached == Spec => []CachedOnlyWhole
<1>1. Init => WholeInv
  BY DEF Init, WholeInv, TaskSound, CachedOnlyWhole, CachedValues, NoTask,
         KV!KVInit
<1>2. WholeInv => CachedOnlyWhole
  BY DEF WholeInv
<1> QED BY <1>1, <1>2, TypeCorrect, WholeStep, PTL DEF Spec

-----------------------------------------------------------------------------
(* What the system does to the store in one step: a process stops, the store
   moves a value, or no replica changes. *)
LEMMA StoreSteps ==
    ASSUME TypeOK, [Next]_vars
    PROVE  \/ UNCHANGED kv
           \/ \E m \in pending : \E again \in BOOLEAN : KV!MergeMsg(m, again)
           \/ \E n \in Nodes : \E o \in Nodes : KV!PushPull(n, o)
           \/ \E n \in Nodes : KV!LoseReplica(n)
<1>1. ASSUME NEW r \in Reqs, Request(r) PROVE UNCHANGED kv
  BY <1>1 DEF Request, Reject, Handle, Reply, kvVars
<1>2. ASSUME NEW r \in Reqs, Collect(r) PROVE UNCHANGED kv
  BY <1>2 DEF Collect, NotLeader, Leader, ReadCache, Undecodable, CacheHit,
      CacheMiss, ReceiveResult, ReceiveInflight, Deadline, Emit, Respond,
      Reply, kvVars
<1>3. ASSUME NEW r \in Reqs, RunTask(r)
      PROVE  UNCHANGED kv \/ Restart(home[r])
  <2>1. CASE StoreResult(r)
    BY <2>1 DEF StoreResult, UpdateKV, Set, KV!NotifyMsg, kvVars
  <2>2. CASE TaskPanic(r)
    BY <2>2 DEF TaskPanic
  <2>3. CASE ~StoreResult(r) /\ ~TaskPanic(r)
    BY <1>3, <2>3 DEF RunTask, TaskUnlocked, TaskLock, TaskRefused,
        ReportGranted, ReportRefused, Notify, SkipStore, SendResult, Unlock,
        kvVars
  <2> QED BY <2>1, <2>2, <2>3
<1>4. ASSUME NEW r \in Reqs, ForemanAnswers(r) PROVE UNCHANGED kv
  BY <1>4 DEF ForemanAnswers, EndScrape, kvVars
<1>5. ASSUME NEW n \in Nodes, Restart(n) PROVE KV!LoseReplica(n)
  BY <1>5 DEF Restart
<1>h. \A r \in Reqs : home[r] \in Nodes
  BY DEF TypeOK
<1>6. ASSUME NEW n \in Nodes, RingChange(n) PROVE UNCHANGED kv
  BY <1>6 DEF RingChange, kvVars
<1>7. ASSUME Tick PROVE UNCHANGED kv
  BY <1>7 DEF Tick, kvVars
<1>8. CASE Gossip
  BY <1>8 DEF Gossip, KV!DropMsg
<1>9. CASE UNCHANGED vars
  BY <1>9 DEF vars, kvVars
<1> QED BY <1>1, <1>2, <1>3, <1>4, <1>5, <1>6, <1>7, <1>8, <1>9, <1>h
        DEF Next, Crash

(* However many collectors write, under clocks that disagree, with crashes and
   lost, repeated and reordered updates, no replica of a running instance goes
   back to series created earlier or loses the key (updateKV and Merge). *)
THEOREM StoreNeverOlder == Spec => StoreReplicaNeverOlder
<1> DEFINE Keeps(n) ==
        kv[n] # NoEntry =>
            \/ kv'[n] = NoEntry /\ KV!LoseReplica(n)
            \/ /\ kv'[n] # NoEntry
               /\ kv'[n].createdAt >= kv[n].createdAt
<1>1. TypeOK /\ [Next]_vars => [\A n \in Nodes : Keeps(n)]_(KV!kvVars)
  <2> SUFFICES ASSUME TypeOK, [Next]_vars, NEW n \in Nodes, kv[n] # NoEntry
               PROVE  \/ kv'[n] = NoEntry /\ KV!LoseReplica(n)
                      \/ /\ kv'[n] # NoEntry
                         /\ kv'[n].createdAt >= kv[n].createdAt
    OBVIOUS
  <2>1. /\ kv \in [Nodes -> KV!Cache \cup {NoEntry}]
        /\ pending \subseteq KV!Message
    BY DEF TypeOK, KV!KVTypeOK
  <2>2. kv[n] \in KV!Cache /\ kv[n].createdAt \in Nat
    BY <2>1 DEF KV!Cache
  \* Whatever Merge is given, what it returns is no older.
  <2>3. ASSUME NEW e \in KV!Cache, kv'[n] \in {kv[n], KV!Merge(kv[n], e)}
        PROVE  kv'[n] # NoEntry /\ kv'[n].createdAt >= kv[n].createdAt
    <3>1. e.createdAt \in Nat /\ e # NoEntry
      BY CollectorAssumption DEF KV!Cache
    <3> QED BY <2>2, <2>3, <3>1 DEF KV!Merge, KV!Accepts, KV!Newer
  <2>4. CASE UNCHANGED kv
    BY <2>2, <2>4
  <2>5. ASSUME NEW m \in pending, NEW again \in BOOLEAN, KV!MergeMsg(m, again)
        PROVE  kv'[n] # NoEntry /\ kv'[n].createdAt >= kv[n].createdAt
    <3>1. m.to \in Nodes /\ m.val \in KV!Cache
      BY <2>1 DEF KV!Message
    <3> QED BY <2>1, <2>3, <2>5, <3>1 DEF KV!MergeMsg
  <2>6. ASSUME NEW p \in Nodes, NEW o \in Nodes, KV!PushPull(p, o)
        PROVE  kv'[n] # NoEntry /\ kv'[n].createdAt >= kv[n].createdAt
    <3>1. kv[o] \in KV!Cache
      BY <2>1, <2>6 DEF KV!PushPull
    <3> QED BY <2>1, <2>3, <2>6, <3>1 DEF KV!PushPull
  <2>7. ASSUME NEW p \in Nodes, KV!LoseReplica(p)
        PROVE  kv'[n] = kv[n] \/ (kv'[n] = NoEntry /\ KV!LoseReplica(n))
    BY <2>1, <2>7 DEF KV!LoseReplica
  <2>8. CASE kv'[n] = kv[n]
    BY <2>2, <2>8
  <2> QED BY <2>4, <2>5, <2>6, <2>7, <2>8, StoreSteps
<1> QED BY <1>1, TypeCorrect, PTL
        DEF Spec, StoreReplicaNeverOlder, KV!ReplicaNeverOlder
=============================================================================
