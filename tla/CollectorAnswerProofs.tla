------------------------ MODULE CollectorAnswerProofs ------------------------
(***************************************************************************)
(* Proofs about what a collector's answer says of the series it shows, for *)
(* every interleaving of the handler, its goroutine, the timer and the     *)
(* death of the process.                                                   *)
(***************************************************************************)
EXTENDS CollectorProofs

\* Series taken from a cache are complete, unless partial ones may be cached.
CachedWhole(r) ==
    ~handler[r].served /\ handler[r].data # NoData /\ ~KeepsPartial
        => handler[r].data.whole

\* Until Collect has read the cache its locals are as they were declared.
Untouched(r) ==
    LET h == handler[r]
    IN /\ h.pc \in {"idle", "leader", "cache", "respond"}
            => h.data = NoData /\ ~h.expired /\ ~h.served /\ ~h.timeout
       /\ h.pc \in {"leader", "cache"} => ~errVal[r]

\* Collect has series while it waits exactly when they have expired.
Waiting(r) ==
    LET h == handler[r]
    IN h.pc = "wait" =>
            ~h.served /\ ~h.timeout /\ (h.data # NoData <=> h.expired)

\* A task past its scrape has written errVal, and its series are complete
\* exactly when the scrape reported no error.
TaskReported(r) ==
    LET t == task[r]
    IN t.pc \in {"store", "send"} =>
            /\ errVal[r] = t.err
            /\ t.data # NoData => (t.data.whole <=> ~t.err)
            /\ t.data = NoData => t.err \/ EmptyMatch

\* So does what it put in the result channel, and errVal is final by then.
ResultReported(r) ==
    result[r] # Empty =>
        /\ handler[r].pc = "wait" /\ task[r].pc \in {"none", "unlock"}
        /\ result[r] # NoData => (result[r].whole <=> ~errVal[r])
        /\ result[r] = NoData => errVal[r] \/ EmptyMatch

\* A task that found the lock taken has said so before it tells Collect.
RefusalReported(r) ==
    /\ task[r].pc = "notify" /\ handler[r].pc = "wait" => gauge[r] = "blocked"
    /\ inflight[r] => /\ gauge[r] = "blocked" /\ result[r] = Empty
                      /\ handler[r].pc = "wait" /\ task[r].pc = "none"

\* Series a task delivered are beside the errVal of its scrape.
ServedReported(r) ==
    LET h == handler[r]
    IN h.served => /\ h.pc = "emit" /\ ~h.timeout /\ h.data # NoData
                   /\ h.data.whole <=> ~errVal[r]

\* Collect leaves its wait without a timeout only once the task is past any
\* write it could still read: with a live cached value, or an error, or an
\* empty match, or the lock taken.
Concluded(r) ==
    LET h == handler[r]
    IN /\ h.pc = "emit" /\ ~h.timeout =>
            /\ task[r].pc \in {"none", "unlock"}
            /\ \/ h.served \/ errVal[r] \/ EmptyMatch \/ gauge[r] = "blocked"
               \/ ~h.expired /\ h.data # NoData
       /\ h.pc = "emit" /\ ~h.expired /\ ~h.served /\ h.data # NoData =>
            ~errVal[r] /\ ~h.timeout /\ task[r].pc = "none"

SlotInv(r) ==
    /\ CachedWhole(r) /\ Untouched(r) /\ Waiting(r) /\ TaskReported(r)
    /\ ResultReported(r) /\ RefusalReported(r) /\ ServedReported(r)
    /\ Concluded(r)

AnswerInv ==
    /\ \A r \in Reqs : SlotInv(r)
    /\ PartialReported /\ FallbackOptedIn /\ SilenceExplained

-----------------------------------------------------------------------------
(* A reply without metrics shows no series and claims nothing. *)
LEMMA BareReplies ==
    /\ [kind |-> "badRequest"] \notin Metrics
    /\ [kind |-> "notLeader"] \notin Metrics
    /\ [kind |-> "undecodable"] \notin Metrics
    /\ NoReply \notin Metrics
  BY CollectorAssumption DEF Metrics

(* Replies that stay as they are, or carry no metrics, keep what was said. *)
LEMMA RepliesKept ==
    ASSUME AnswerInv,
           \A q \in Reqs : reply'[q] = reply[q] \/ reply'[q] \notin Metrics
    PROVE  (PartialReported /\ FallbackOptedIn /\ SilenceExplained)'
<1>1. PartialReported'
  BY DEF AnswerInv, PartialReported, KeepsPartial
<1>2. FallbackOptedIn'
  BY DEF AnswerInv, FallbackOptedIn
<1>3. SilenceExplained'
  BY DEF AnswerInv, SilenceExplained
<1> QED BY <1>1, <1>2, <1>3

\* A step moved the locals of no slot but r.
OnlySlot(r) ==
    \A q \in Reqs \ {r} :
        /\ handler'[q] = handler[q] /\ task'[q] = task[q]
        /\ result'[q] = result[q] /\ inflight'[q] = inflight[q]
        /\ errVal'[q] = errVal[q] /\ gauge'[q] = gauge[q]

(* A slot whose locals did not move keeps its invariant. *)
LEMMA SlotKept ==
    ASSUME NEW q \in Reqs, SlotInv(q),
           handler'[q] = handler[q], task'[q] = task[q],
           result'[q] = result[q], inflight'[q] = inflight[q],
           errVal'[q] = errVal[q], gauge'[q] = gauge[q]
    PROVE  SlotInv(q)'
  BY DEF SlotInv, CachedWhole, KeepsPartial, Untouched, Waiting, TaskReported,
         ResultReported, RefusalReported, ServedReported, Concluded

(* A step on one slot leaves what is claimed of the other slots true. *)
LEMMA OtherSlots ==
    ASSUME AnswerInv, NEW r \in Reqs, OnlySlot(r), SlotInv(r)'
    PROVE  \A q \in Reqs : SlotInv(q)'
<1> SUFFICES ASSUME NEW q \in Reqs, q # r PROVE SlotInv(q)'
  OBVIOUS
<1> QED BY SlotKept DEF AnswerInv, OnlySlot

(* A slot without a request, whose goroutine if any runs on, satisfies its
   invariant. *)
LEMMA IdleSlot ==
    ASSUME NEW r \in Reqs,
           handler'[r].data = NoData, handler'[r].expired = FALSE,
           handler'[r].served = FALSE, handler'[r].timeout = FALSE,
           handler'[r].pc \in {"idle", "respond", "leader", "cache"},
           handler'[r].pc \in {"leader", "cache"} => ~errVal'[r],
           result'[r] = Empty, ~inflight'[r],
           TaskReported(r)'
    PROVE  SlotInv(r)'
  BY DEF SlotInv, CachedWhole, KeepsPartial, Untouched, Waiting, 
         ResultReported, RefusalReported, ServedReported, Concluded

(* Series found in the cache are complete when partial ones are not cached. *)
LEMMA FoundWhole ==
    ASSUME TypeOK, CachedOnlyWhole, ~KeepsPartial, NEW r \in Reqs,
           NEW getFails \in BOOLEAN, Lookup(r, getFails) # NoEntry
    PROVE  Decoded(Lookup(r, getFails)).whole
<1>1. Decoded(Lookup(r, getFails)) \in CachedValues
  BY DEF TypeOK, Lookup, Decoded, CachedValues, CacheValue, KV!KVTypeOK,
         KV!Cache
<1> QED BY <1>1 DEF CachedOnlyWhole

(* What Collect's last step says of the series it shows. *)
LEMMA EmitSound ==
    ASSUME TypeOK, AnswerInv, NEW r \in Reqs, Emit(r)
    PROVE  (PartialReported /\ FallbackOptedIn /\ SilenceExplained)'
<1>0. handler[r] \in Handler /\ errVal[r] \in BOOLEAN /\ gauge[r] \in Gauge
  BY DEF TypeOK
<1>1. PICK err \in ErrReads(r) : Reply(r, Answer(r, err))
  BY DEF Emit
<1> DEFINE h == handler[r]
           a == Answer(r, err)
<1>2. err \in BOOLEAN /\ (~h.timeout => err = errVal[r])
  BY <1>0 DEF ErrReads
<1>3. reply' = [reply EXCEPT ![r] = a] /\ h.pc = "emit"
  BY <1>1 DEF Reply, Emit
<1>4. SlotInv(r)
  BY DEF AnswerInv
<1>5. h.data \in MaybeData /\ NoData \notin Data
      /\ {h.served, h.timeout, h.expired, h.useExpired} \subseteq BOOLEAN
  BY <1>0, CollectorAssumption DEF Handler
<1>6. /\ a.err = err /\ a.timeout = h.timeout /\ a.served = h.served
      /\ a.expired = h.expired /\ a.optIn = h.useExpired /\ a.gauge = gauge[r]
      /\ a.usedExpired <=> /\ ~h.served /\ (err \/ h.timeout)
                           /\ CacheEnabled /\ h.useExpired /\ h.data # NoData
      /\ a.series = IF ~h.served /\ (err \/ h.timeout) /\ ~a.usedExpired
                    THEN NoData ELSE h.data
  BY DEF Answer
<1> HIDE DEF a
<1>7. a.series \in Data /\ ~a.series.whole /\ ~KeepsPartial => a.err
  BY <1>2, <1>4, <1>5, <1>6 DEF SlotInv, CachedWhole, ServedReported, MaybeData
<1>8. /\ a.usedExpired <=>
            a.series \in Data /\ ~a.served /\ (a.err \/ a.timeout)
      /\ a.usedExpired => a.optIn /\ a.expired
  BY <1>2, <1>3, <1>4, <1>5, <1>6 DEF SlotInv, Concluded, MaybeData
<1>9. /\ ~EmptyMatch
      /\ \/ a.series = NoData /\ ~a.err /\ ~a.timeout
         \/ a.series \in Data /\ a.expired /\ ~a.served /\ ~a.usedExpired
      => a.gauge = "blocked"
  BY <1>2, <1>3, <1>4, <1>5, <1>6
     DEF SlotInv, Concluded, ServedReported, MaybeData
<1>10. \A q \in Reqs : q # r => reply'[q] = reply[q]
  BY <1>3 DEF TypeOK
<1>11. reply'[r] = a
  BY <1>3 DEF TypeOK
<1>12. PartialReported'
  BY <1>7, <1>10, <1>11 DEF AnswerInv, PartialReported, KeepsPartial
<1>13. FallbackOptedIn'
  BY <1>8, <1>10, <1>11 DEF AnswerInv, FallbackOptedIn
<1>14. SilenceExplained'
  BY <1>9, <1>10, <1>11 DEF AnswerInv, SilenceExplained
<1> QED BY <1>12, <1>13, <1>14

-----------------------------------------------------------------------------
(* A restart puts the slots of the instance back and leaves the others. *)
LEMMA AnswerRestart ==
    ASSUME TypeOK, AnswerInv, NEW n \in Nodes, Restart(n)
    PROVE  AnswerInv'
<1>1. ASSUME NEW q \in Reqs, home[q] # n PROVE SlotInv(q)'
  <2>1. /\ handler'[q] = handler[q] /\ task'[q] = task[q]
        /\ result'[q] = result[q] /\ inflight'[q] = inflight[q]
        /\ errVal'[q] = errVal[q] /\ gauge'[q] = gauge[q]
    BY <1>1 DEF Restart
  <2> QED BY <2>1, SlotKept DEF AnswerInv
<1>2. ASSUME NEW q \in Reqs, home[q] = n PROVE SlotInv(q)'
  <2>1. /\ handler'[q] = IdleHandler /\ task'[q] = NoTask
        /\ result'[q] = Empty /\ inflight'[q] = FALSE
    BY <1>2 DEF Restart
  <2>2. TaskReported(q)'
    BY <2>1 DEF TaskReported, NoTask
  <2>3. /\ handler'[q].pc = "idle" /\ handler'[q].data = NoData
        /\ handler'[q].expired = FALSE /\ handler'[q].served = FALSE
        /\ handler'[q].timeout = FALSE
    BY <2>1 DEF IdleHandler
  <2> QED BY <2>1, <2>2, <2>3, IdleSlot
<1>3. \A q \in Reqs : reply'[q] = reply[q] \/ reply'[q] \notin Metrics
  BY BareReplies DEF Restart
<1> QED BY <1>1, <1>2, <1>3, RepliesKept DEF AnswerInv

(* The request is answered: its locals go, its goroutine if any runs on. *)
LEMMA AnswerReply ==
    ASSUME TypeOK, AnswerInv, NEW r \in Reqs, NEW a, Reply(r, a),
           handler[r].pc # "wait"
    PROVE  \A q \in Reqs : SlotInv(q)'
<1>1. OnlySlot(r)
  BY DEF OnlySlot, Reply, TypeOK
<1>2. SlotInv(r)
  BY DEF AnswerInv
<1>3. handler'[r] = [IdleHandler EXCEPT !.pc = "respond"]
  BY DEF Reply, TypeOK
<1>4. result'[r] = Empty /\ ~inflight'[r]
  BY <1>2 DEF Reply, SlotInv, ResultReported, RefusalReported
<1>5. TaskReported(r)'
  BY <1>2 DEF Reply, SlotInv, TaskReported
<1>6. SlotInv(r)'
  BY <1>3, <1>4, <1>5, IdleSlot DEF IdleHandler
<1> QED BY <1>1, <1>6, OtherSlots

(* Every step of Collect keeps the invariant. *)
LEMMA AnswerCollect ==
    ASSUME TypeOK, NoTaskYet, CachedOnlyWhole, AnswerInv, NEW r \in Reqs,
           Collect(r)
    PROVE  AnswerInv'
<1>0. /\ handler \in [Reqs -> Handler] /\ task \in [Reqs -> Task]
      /\ result \in [Reqs -> MaybeData \cup {Empty}]
      /\ inflight \in [Reqs -> BOOLEAN] /\ errVal \in [Reqs -> BOOLEAN]
      /\ gauge \in [Reqs -> Gauge]
      /\ reply \in [Reqs -> Metrics \cup Bare \cup {NoReply}]
  BY DEF TypeOK
<1>a. handler[r] \in Handler /\ SlotInv(r)
  BY <1>0 DEF AnswerInv
<1>b. NoData \notin Data /\ Empty \notin MaybeData
  BY CollectorAssumption
<1>1. ASSUME reply' = reply, OnlySlot(r), SlotInv(r)' PROVE AnswerInv'
  BY <1>1, OtherSlots, RepliesKept DEF AnswerInv
<1>2. ASSUME NEW a, Reply(r, a), a \notin Metrics, handler[r].pc # "wait"
      PROVE  AnswerInv'
  <2>1. \A q \in Reqs : reply'[q] = reply[q] \/ reply'[q] \notin Metrics
    BY <1>0, <1>2 DEF Reply
  <2> QED BY <1>2, <2>1, AnswerReply, RepliesKept DEF AnswerInv
<1>3. CASE NotLeader(r)
  BY <1>2, <1>3, BareReplies DEF NotLeader
<1>4. CASE Leader(r)
  <2>1. OnlySlot(r) /\ reply' = reply
    BY <1>0, <1>4 DEF OnlySlot, Leader
  <2>2. /\ handler[r].pc = "leader"
        /\ handler'[r] = [handler[r] EXCEPT !.pc = "cache"]
    BY <1>0, <1>4 DEF Leader
  <2>3. SlotInv(r)'
    <3>1. UNCHANGED <<result, inflight, errVal, task>>
      BY <1>4 DEF Leader
    <3>2. TaskReported(r)'
      BY <1>a, <3>1 DEF SlotInv, TaskReported
    <3> QED BY <1>a, <2>2, <3>1, <3>2, IdleSlot
            DEF SlotInv, Untouched, ResultReported, RefusalReported, Handler
  <2> QED BY <1>1, <2>1, <2>3
<1>5. ASSUME NEW getFails \in BOOLEAN, ReadCache(r, getFails) PROVE AnswerInv'
  <2> DEFINE e == Lookup(r, getFails)
  <2>0. e # NoEntry =>
            Decoded(e) \in Data /\ (~KeepsPartial => Decoded(e).whole)
    BY LookupType, FoundWhole
  <2> HIDE DEF e
  <2>1. CASE Undecodable(r, e)
    BY <1>2, <2>1, BareReplies DEF Undecodable
  <2>2. CASE CacheHit(r, e)
    <3>1. OnlySlot(r) /\ reply' = reply
      BY <1>0, <2>2 DEF OnlySlot, CacheHit
    <3>2. /\ handler[r].pc = "cache" /\ e # NoEntry
          /\ handler'[r] =
                [handler[r] EXCEPT !.pc = "emit", !.data = Decoded(e)]
          /\ UNCHANGED <<task, result, inflight, errVal, gauge>>
      BY <1>0, <2>2 DEF CacheHit
    <3>3. task[r].pc = "none"
      BY <3>2 DEF NoTaskYet
    <3>4. SlotInv(r)'
      BY <1>a, <1>b, <2>0, <3>2, <3>3
         DEF SlotInv, CachedWhole, KeepsPartial, Untouched, Waiting,
             TaskReported, ResultReported, RefusalReported, ServedReported,
             Concluded, Handler
    <3> QED BY <1>1, <3>1, <3>4
  <2>3. CASE CacheMiss(r, e)
    <3>1. OnlySlot(r) /\ reply' = reply
      BY <1>0, <2>3 DEF OnlySlot, CacheMiss
    <3>2. /\ handler[r].pc = "cache"
          /\ handler'[r] = [handler[r] EXCEPT
                !.pc = "wait", !.expired = e # NoEntry,
                !.data = IF e = NoEntry THEN NoData ELSE Decoded(e)]
          /\ task'[r].pc = "start"
          /\ UNCHANGED <<result, inflight, errVal, gauge>>
      BY <1>0, <2>3 DEF CacheMiss, NoTask
    <3>3. /\ handler'[r].pc = "wait" /\ (handler'[r].expired <=> e # NoEntry)
          /\ handler'[r].data = IF e = NoEntry THEN NoData ELSE Decoded(e)
          /\ handler'[r].served = FALSE /\ handler'[r].timeout = FALSE
      BY <1>a, <3>2 DEF SlotInv, Untouched, Handler
    <3>4. result[r] = Empty /\ ~inflight[r]
      BY <1>a, <3>2 DEF SlotInv, ResultReported, RefusalReported
    <3>5. SlotInv(r)'
      BY <1>b, <2>0, <3>2, <3>3, <3>4
         DEF SlotInv, CachedWhole, KeepsPartial, Untouched, Waiting,
             TaskReported, ResultReported, RefusalReported, ServedReported,
             Concluded
    <3> QED BY <1>1, <3>1, <3>5
  <2> QED BY <1>5, <2>1, <2>2, <2>3 DEF ReadCache, e
<1>6. CASE ReceiveResult(r)
  <2>1. OnlySlot(r) /\ reply' = reply
    BY <1>0, <1>6 DEF OnlySlot, ReceiveResult
  <2>2. /\ handler[r].pc = "wait" /\ result[r] # Empty /\ result'[r] = Empty
        /\ result[r] # NoData => handler'[r] = [handler[r] EXCEPT
                !.pc = "emit", !.data = result[r], !.served = TRUE]
        /\ result[r] = NoData => handler'[r] = [handler[r] EXCEPT !.pc = "emit"]
        /\ UNCHANGED <<task, inflight, errVal, gauge>>
    BY <1>0, <1>6 DEF ReceiveResult
  <2>3. ~inflight[r]
    BY <1>a, <2>2 DEF SlotInv, RefusalReported
  <2>4. CASE result[r] = NoData
    <3>1. SlotInv(r)'
      BY <1>a, <1>b, <2>2, <2>3, <2>4
         DEF SlotInv, CachedWhole, KeepsPartial, Untouched, Waiting,
             TaskReported, ResultReported, RefusalReported, ServedReported,
             Concluded, Handler
    <3> QED BY <1>1, <2>1, <3>1
  <2>5. CASE result[r] # NoData
    <3>1. /\ handler'[r].pc = "emit" /\ handler'[r].data = result[r]
          /\ handler'[r].served = TRUE /\ handler'[r].timeout = FALSE
      BY <1>a, <2>2, <2>5 DEF SlotInv, Waiting, Handler
    <3>2. SlotInv(r)'
      BY <1>a, <1>b, <2>2, <2>3, <2>5, <3>1
         DEF SlotInv, CachedWhole, KeepsPartial, Untouched, Waiting,
             TaskReported, ResultReported, RefusalReported, ServedReported,
             Concluded
    <3> QED BY <1>1, <2>1, <3>2
  <2> QED BY <2>4, <2>5
<1>7. CASE ReceiveInflight(r)
  <2>1. OnlySlot(r) /\ reply' = reply
    BY <1>0, <1>7 DEF OnlySlot, ReceiveInflight
  <2>2. /\ handler[r].pc = "wait" /\ inflight[r] /\ ~inflight'[r]
        /\ handler'[r] = [handler[r] EXCEPT !.pc = "emit"]
        /\ UNCHANGED <<task, result, errVal, gauge>>
    BY <1>0, <1>7 DEF ReceiveInflight
  <2>3. SlotInv(r)'
    BY <1>a, <1>b, <2>2
       DEF SlotInv, CachedWhole, KeepsPartial, Untouched, Waiting, TaskReported,
           ResultReported, RefusalReported, ServedReported, Concluded, Handler
  <2> QED BY <1>1, <2>1, <2>3
<1>8. CASE Deadline(r)
  <2>1. OnlySlot(r) /\ reply' = reply
    BY <1>0, <1>8 DEF OnlySlot, Deadline
  <2>2. /\ handler[r].pc = "wait" /\ ~inflight'[r] /\ result'[r] = Empty
        /\ handler'[r] = [handler[r] EXCEPT !.pc = "emit", !.timeout = TRUE]
        /\ UNCHANGED <<task, errVal, gauge>>
    BY <1>0, <1>8 DEF Deadline
  <2>3. SlotInv(r)'
    BY <1>a, <1>b, <2>2
       DEF SlotInv, CachedWhole, KeepsPartial, Untouched, Waiting, TaskReported,
           ResultReported, RefusalReported, ServedReported, Concluded, Handler
  <2> QED BY <1>1, <2>1, <2>3
<1>9. CASE Emit(r)
  BY <1>9, EmitSound, AnswerReply DEF Emit, AnswerInv
<1>10. CASE Respond(r)
  <2>1. OnlySlot(r)
    BY <1>0, <1>10 DEF OnlySlot, Respond
  <2>2. \A q \in Reqs : reply'[q] = reply[q] \/ reply'[q] \notin Metrics
    BY <1>0, <1>10, BareReplies DEF Respond
  <2>3. /\ handler[r].pc = "respond" /\ handler'[r] = IdleHandler
        /\ UNCHANGED <<task, result, inflight, errVal>>
    BY <1>0, <1>10 DEF Respond
  <2>4. TaskReported(r)'
    BY <1>a, <2>3 DEF SlotInv, TaskReported
  <2>5. /\ handler'[r].pc = "idle" /\ handler'[r].data = NoData
        /\ handler'[r].expired = FALSE /\ handler'[r].served = FALSE
        /\ handler'[r].timeout = FALSE
    BY <2>3 DEF IdleHandler
  <2>6. result'[r] = Empty /\ ~inflight'[r]
    BY <1>a, <2>3 DEF SlotInv, ResultReported, RefusalReported
  <2>7. SlotInv(r)'
    BY <2>4, <2>5, <2>6, IdleSlot
  <2> QED BY <2>1, <2>2, <2>7, OtherSlots, RepliesKept DEF AnswerInv
<1> QED BY <1>3, <1>4, <1>5, <1>6, <1>7, <1>8, <1>9, <1>10 DEF Collect

(* A task that runs on tells Collect nothing that its slot does not know. *)
LEMMA AnswerTask ==
    ASSUME TypeOK, NoTaskYet, AnswerInv, NEW r \in Reqs,
           RunTask(r) \/ ForemanAnswers(r)
    PROVE  AnswerInv'
<1>0. /\ handler \in [Reqs -> Handler] /\ task \in [Reqs -> Task]
      /\ result \in [Reqs -> MaybeData \cup {Empty}]
      /\ inflight \in [Reqs -> BOOLEAN] /\ errVal \in [Reqs -> BOOLEAN]
      /\ gauge \in [Reqs -> Gauge] /\ home[r] \in Nodes
  BY DEF TypeOK
<1>a. task[r] \in Task /\ SlotInv(r)
  BY <1>0 DEF AnswerInv
<1>b. NoData \notin Data /\ Empty \notin MaybeData
  BY CollectorAssumption
<1>1. ASSUME reply' = reply, OnlySlot(r), SlotInv(r)' PROVE AnswerInv'
  BY <1>1, OtherSlots, RepliesKept DEF AnswerInv
\* The task is not past its scrape and nothing else of the slot moves.
<1>2. ASSUME UNCHANGED <<handler, result, inflight, errVal, gauge, reply>>,
             \A q \in Reqs : q # r => task'[q] = task[q],
             task[r].pc \notin {"none", "unlock"},
             task'[r].pc \notin {"notify", "store", "send"}
      PROVE  AnswerInv'
  <2>1. OnlySlot(r)
    BY <1>2 DEF OnlySlot
  <2>2. SlotInv(r)'
    BY <1>a, <1>2
       DEF SlotInv, CachedWhole, KeepsPartial, Untouched, Waiting, TaskReported,
           ResultReported, RefusalReported, ServedReported, Concluded
  <2> QED BY <1>1, <1>2, <2>1, <2>2
<1>3. CASE TaskUnlocked(r)
  BY <1>0, <1>2, <1>3 DEF TaskUnlocked, Task
<1>4. CASE TaskLock(r)
  BY <1>0, <1>2, <1>4 DEF TaskLock, Task
<1>5. CASE TaskRefused(r)
  BY <1>0, <1>2, <1>5 DEF TaskRefused, Task
<1>6. CASE ReportGranted(r) \/ ReportRefused(r)
  <2>1. OnlySlot(r) /\ reply' = reply
    BY <1>0, <1>6 DEF OnlySlot, ReportGranted, ReportRefused
  <2>2. /\ task[r].pc \in {"granted", "refused"}
        /\ \/ task'[r].pc = "scrape"
           \/ task'[r].pc = "notify" /\ gauge'[r] = "blocked"
        /\ UNCHANGED <<handler, result, inflight, errVal>>
    <3>1. CASE ReportGranted(r)
      BY <1>0, <3>1 DEF ReportGranted, Task
    <3>2. CASE ReportRefused(r)
      BY <1>0, <3>2 DEF ReportRefused, Task
    <3> QED BY <1>6, <3>1, <3>2
  <2>3. SlotInv(r)'
    BY <1>a, <2>2
       DEF SlotInv, CachedWhole, KeepsPartial, Untouched, Waiting, TaskReported,
           ResultReported, RefusalReported, ServedReported, Concluded
  <2> QED BY <1>1, <2>1, <2>3
<1>7. CASE TaskPanic(r)
  BY <1>0, <1>7, AnswerRestart DEF TaskPanic
<1>8. CASE Notify(r)
  <2>1. OnlySlot(r) /\ reply' = reply
    BY <1>0, <1>8 DEF OnlySlot, Notify
  <2>2. /\ task[r].pc = "notify" /\ task'[r].pc = "none"
        /\ inflight'[r] <=> handler[r].pc = "wait"
        /\ UNCHANGED <<handler, result, errVal, gauge>>
    BY <1>0, <1>8 DEF Notify, NoTask
  <2>3. SlotInv(r)'
    BY <1>a, <2>2
       DEF SlotInv, CachedWhole, KeepsPartial, Untouched, Waiting, TaskReported,
           ResultReported, RefusalReported, ServedReported, Concluded
  <2> QED BY <1>1, <2>1, <2>3
<1>9. CASE StoreResult(r) \/ SkipStore(r)
  <2>1. OnlySlot(r) /\ reply' = reply
    BY <1>0, <1>9 DEF OnlySlot, StoreResult, SkipStore
  <2>2. /\ task[r].pc = "store" /\ task'[r] = [task[r] EXCEPT !.pc = "send"]
        /\ UNCHANGED <<handler, result, inflight, errVal, gauge>>
    BY <1>0, <1>9 DEF StoreResult, SkipStore
  <2>3. task'[r].data = task[r].data /\ task'[r].err = task[r].err
        /\ task'[r].pc = "send"
    BY <1>a, <2>2 DEF Task
  <2>4. SlotInv(r)'
    BY <1>a, <2>2, <2>3
       DEF SlotInv, CachedWhole, KeepsPartial, Untouched, Waiting, TaskReported,
           ResultReported, RefusalReported, ServedReported, Concluded
  <2> QED BY <1>1, <2>1, <2>4
<1>10. CASE SendResult(r)
  <2>1. OnlySlot(r) /\ reply' = reply
    BY <1>0, <1>10 DEF OnlySlot, SendResult
  <2>2. /\ task[r].pc = "send" /\ task'[r].pc \in {"none", "unlock"}
        /\ result'[r] = IF handler[r].pc = "wait" THEN task[r].data ELSE Empty
        /\ UNCHANGED <<handler, inflight, errVal, gauge>>
    BY <1>0, <1>10 DEF SendResult, NoTask
  <2>3. SlotInv(r)'
    BY <1>a, <1>b, <2>2
       DEF SlotInv, CachedWhole, KeepsPartial, Untouched, Waiting, TaskReported,
           ResultReported, RefusalReported, ServedReported, Concluded
  <2> QED BY <1>1, <2>1, <2>3
<1>11. CASE Unlock(r)
  <2>1. OnlySlot(r) /\ reply' = reply
    BY <1>0, <1>11 DEF OnlySlot, Unlock
  <2>2. /\ task[r].pc = "unlock" /\ task'[r].pc = "none"
        /\ UNCHANGED <<handler, result, inflight, errVal, gauge>>
    BY <1>0, <1>11 DEF Unlock, NoTask
  <2>3. SlotInv(r)'
    BY <1>a, <2>2
       DEF SlotInv, CachedWhole, KeepsPartial, Untouched, Waiting, TaskReported,
           ResultReported, RefusalReported, ServedReported, Concluded
  <2> QED BY <1>1, <2>1, <2>3
<1>12. CASE ForemanAnswers(r)
  <2>1. PICK o \in Outcomes(task[r].began) : EndScrape(r, o)
    BY <1>12 DEF ForemanAnswers
  <2>2. /\ o.data \in MaybeData /\ o.err \in BOOLEAN
        /\ o.data \in Data => (o.data.whole <=> ~o.err)
        /\ o.data = NoData => o.err \/ EmptyMatch
    BY <1>a, OutcomeType DEF Task
  <2>3. OnlySlot(r) /\ reply' = reply
    BY <1>0, <2>1 DEF OnlySlot, EndScrape
  <2>4. /\ task[r].pc = "scrape" /\ errVal'[r] = o.err /\ task'[r].pc = "store"
        /\ task'[r].data = o.data /\ task'[r].err = o.err
        /\ UNCHANGED <<handler, result, inflight, gauge>>
    BY <1>0, <2>1 DEF EndScrape, Task
  <2>5. handler[r].pc \notin {"leader", "cache"}
    BY <2>4 DEF NoTaskYet
  <2>6. SlotInv(r)'
    BY <1>a, <1>b, <2>2, <2>4, <2>5
       DEF SlotInv, CachedWhole, KeepsPartial, Untouched, Waiting, TaskReported,
           ResultReported, RefusalReported, ServedReported, Concluded, MaybeData
  <2> QED BY <1>1, <2>3, <2>6
<1> QED BY <1>3, <1>4, <1>5, <1>6, <1>7, <1>8, <1>9, <1>10, <1>11, <1>12
        DEF RunTask

(* Every action keeps the invariant. *)
LEMMA AnswerStep ==
    TypeOK /\ LockInv /\ WholeInv /\ AnswerInv /\ [Next]_vars => AnswerInv'
<1> SUFFICES ASSUME TypeOK, LockInv, WholeInv, AnswerInv, [Next]_vars
             PROVE  AnswerInv'
  OBVIOUS
<1>0. NoTaskYet /\ CachedOnlyWhole
  BY DEF LockInv, WholeInv
<1>1. ASSUME NEW r \in Reqs, Request(r) PROVE AnswerInv'
  <2>0. handler[r].pc = "idle" /\ SlotInv(r)
    BY <1>1 DEF Request, Reject, Handle, Free, AnswerInv
  <2>1. ASSUME NEW e \in CallerParams, NEW c \in CallerParams, Reject(r, e, c)
        PROVE  AnswerInv'
    <3>1. \A q \in Reqs : reply'[q] = reply[q] \/ reply'[q] \notin Metrics
      BY <2>1, BareReplies DEF Reject, Reply, TypeOK
    <3> QED BY <2>0, <2>1, <3>1, AnswerReply, RepliesKept DEF Reject, AnswerInv
  <2>2. ASSUME NEW n \in Nodes, NEW e \in CallerParams, NEW c \in CallerParams,
               Handle(r, n, e, c)
        PROVE  AnswerInv'
    <3>1. OnlySlot(r) /\ reply' = reply
      BY <2>2 DEF OnlySlot, Handle, TypeOK
    <3>2. /\ handler'[r].pc \in {"leader", "cache"} /\ ~errVal'[r]
          /\ handler'[r].data = NoData /\ handler'[r].expired = FALSE
          /\ handler'[r].served = FALSE /\ handler'[r].timeout = FALSE
          /\ task'[r].pc = "none" /\ result'[r] = result[r]
          /\ inflight'[r] = inflight[r]
      BY <2>2 DEF Handle, Free, TypeOK, IdleHandler
    <3>3. result[r] = Empty /\ ~inflight[r]
      BY <2>0 DEF SlotInv, ResultReported, RefusalReported
    <3>4. TaskReported(r)'
      BY <3>2 DEF TaskReported
    <3>5. SlotInv(r)'
      BY <3>2, <3>3, <3>4, IdleSlot
    <3> QED BY <3>1, <3>5, OtherSlots, RepliesKept DEF AnswerInv
  <2> QED BY <1>1, <2>1, <2>2 DEF Request
<1>2. ASSUME NEW r \in Reqs, Collect(r) PROVE AnswerInv'
  BY <1>0, <1>2, AnswerCollect
<1>3. ASSUME NEW r \in Reqs, RunTask(r) \/ ForemanAnswers(r) PROVE AnswerInv'
  BY <1>0, <1>3, AnswerTask
<1>4. ASSUME NEW n \in Nodes, Crash(n) PROVE AnswerInv'
  BY <1>4, AnswerRestart DEF Crash
<1>5. ASSUME UNCHANGED reqVars PROVE AnswerInv'
  BY <1>5, SlotKept, RepliesKept DEF reqVars, AnswerInv
<1>6. ASSUME NEW n \in Nodes, RingChange(n) PROVE AnswerInv'
  BY <1>5, <1>6 DEF RingChange
<1>7. CASE Tick \/ Gossip \/ UNCHANGED vars
  BY <1>5, <1>7 DEF Tick, Gossip, vars
<1> QED BY <1>1, <1>2, <1>3, <1>4, <1>6, <1>7 DEF Next

(* The invariant holds of every reachable state. *)
LEMMA AnswersSound == Spec => []AnswerInv
<1>1. Init => LockInv /\ WholeInv
  BY DEF Init, LockInv, NoTaskYet, LockExclusive, Critical, IdleHandler, NoTask,
         WholeInv, TaskSound, CachedOnlyWhole, CachedValues, KV!KVInit
<1>2. Init => AnswerInv
  <2> SUFFICES ASSUME Init PROVE AnswerInv
    OBVIOUS
  <2>1. \A r \in Reqs : SlotInv(r)
    BY DEF Init, IdleHandler, NoTask, SlotInv, CachedWhole, Untouched, Waiting,
           TaskReported, ResultReported, RefusalReported, ServedReported,
           Concluded
  <2>2. \A r \in Reqs : reply[r] \notin Metrics
    BY BareReplies DEF Init
  <2> QED BY <2>1, <2>2
          DEF AnswerInv, PartialReported, FallbackOptedIn, SilenceExplained
<1> QED BY <1>1, <1>2, TypeCorrect, LockStep, WholeStep, AnswerStep, PTL
        DEF Spec

(* No interleaving of the task's write of errVal, its result and the timer
   lets an incomplete list go out without scrape_error. *)
THEOREM PartialNeverSilent == Spec => []PartialReported
<1>1. AnswerInv => PartialReported
  BY DEF AnswerInv
<1> QED BY <1>1, AnswersSound, PTL

(* Cached series go out beside an error or a timeout only to callers that
   opted in, flagged as such, and only when they really had expired. *)
THEOREM FallbackOnlyOnOptIn == Spec => []FallbackOptedIn
<1>1. AnswerInv => FallbackOptedIn
  BY DEF AnswerInv
<1> QED BY <1>1, AnswersSound, PTL

(* An answer that shows nothing, or shows expired series unflagged, is always
   explained by its error, its timeout or the blocked gauge. *)
THEOREM SilenceHasCause == Spec => []SilenceExplained
<1>1. AnswerInv => SilenceExplained
  BY DEF AnswerInv
<1> QED BY <1>1, AnswersSound, PTL
=============================================================================
