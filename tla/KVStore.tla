------------------------------- MODULE KVStore -------------------------------
(***************************************************************************)
(* The memberlist key-value store as the collectors use it: one key, one   *)
(* replica per exporter instance.  A collector hands an update to its own  *)
(* replica with NotifyMsg, the same entry point gossip from a peer takes;  *)
(* an update is merged later, and a replica that accepted it broadcasts it *)
(* to its peers.  Delivery is unreliable: messages are lost, duplicated    *)
(* and reordered, and push/pull exchanges whole states.                    *)
(*                                                                         *)
(* Merge is the code of cache_codec.go.  The transport around it belongs   *)
(* to dskit and is modelled from how the collectors use it.                *)
(***************************************************************************)
EXTENDS Naturals, FiniteSets

CONSTANTS
    Nodes,         \* the exporter instances of the ring
    Contents,      \* what a Cache value may carry in its content field
    NoEntry,       \* the key is absent from a replica
    QueueSize,     \* how many updates may wait at once
    Stamps,        \* the created_at values a writer may use
    UniqueStamps   \* no two live updates carry the same created_at

VARIABLES
    kv,            \* kv[n]: the Cache value in n's replica, or NoEntry
    pending        \* updates handed to a replica and not merged yet

kvVars == <<kv, pending>>

\* The Cache message of cache.proto.
Cache == [content: Contents, createdAt: Nat, expiresAt: Nat]

Message == [to: Nodes, val: Cache]

ASSUME KVAssumption ==
    /\ NoEntry \notin Cache
    /\ QueueSize \in Nat
    /\ Stamps \subseteq Nat
    /\ UniqueStamps \in BOOLEAN

KVTypeOK ==
    /\ kv \in [Nodes -> Cache \cup {NoEntry}]
    /\ pending \subseteq Message

KVInit ==
    /\ kv = [n \in Nodes |-> NoEntry]
    /\ pending = {}

-----------------------------------------------------------------------------
\* Mutant of Newer: an older value is accepted as well.
MutNewerDiffers(other, cur) == other.createdAt # cur.createdAt

\* (*Cache).Merge: an incoming value replaces the local one only when it is
\* strictly newer; older and identical timestamps request no change.
Newer(other, cur) == other.createdAt > cur.createdAt

\* A replica that does not hold the key yet stores whatever comes first.
Accepts(cur, other) == cur = NoEntry \/ Newer(other, cur)

\* Mutant of Merge: the timestamp is taken over, the content is not.
MutMergeStampOnly(cur, other) ==
    IF cur = NoEntry THEN other
    ELSE IF Newer(other, cur) THEN [cur EXCEPT !.createdAt = other.createdAt]
    ELSE cur

Merge(cur, other) == IF Accepts(cur, other) THEN other ELSE cur

-----------------------------------------------------------------------------
\* The queues are bounded, and a full one drops what does not fit.
Enqueue(queued, msgs) ==
    IF Cardinality(queued \cup msgs) <= QueueSize
    THEN queued \cup msgs ELSE queued

\* KV.NotifyMsg: queue an update for n's replica.
NotifyMsg(n, e) ==
    /\ pending' = Enqueue(pending, {[to |-> n, val |-> e]})
    /\ UNCHANGED kv

\* The per-key worker of a replica merges a queued update and, if it changed
\* the value, broadcasts it.  With again the same update is delivered twice.
MergeMsg(m, again) ==
    /\ m \in pending
    /\ kv' = [kv EXCEPT ![m.to] = Merge(kv[m.to], m.val)]
    /\ LET rest == IF again THEN pending ELSE pending \ {m}
           peers == IF Accepts(kv[m.to], m.val) THEN Nodes \ {m.to} ELSE {}
       IN pending' = Enqueue(rest, {[to |-> p, val |-> m.val] : p \in peers})

\* The network loses an update.
DropMsg(m) ==
    /\ m \in pending
    /\ pending' = pending \ {m}
    /\ UNCHANGED kv

\* Mutant of PushPull: only a replica without the key takes one over.
MutPushPullFirst(n, o) ==
    /\ kv[o] # NoEntry /\ kv[n] = NoEntry
    /\ kv' = [kv EXCEPT ![n] = kv[o]]
    /\ UNCHANGED pending

\* Anti-entropy: n merges the whole state of o.
PushPull(n, o) ==
    /\ kv[o] # NoEntry
    /\ kv' = [kv EXCEPT ![n] = Merge(kv[n], kv[o])]
    /\ UNCHANGED pending

\* A process that stops loses its replica and its queue.
LoseReplica(n) ==
    /\ kv' = [kv EXCEPT ![n] = NoEntry]
    /\ pending' = {m \in pending : m.to # n}

-----------------------------------------------------------------------------
Live == {kv[n] : n \in {i \in Nodes : kv[i] # NoEntry}}
            \cup {m.val : m \in pending}

FreshStamp(e) == \A f \in Live : f.createdAt # e.createdAt

\* updateKV of either collector, seen from the store: any content, stamped
\* with the writer's own clock, so stamps need not come in order.
Write(n, e) ==
    /\ UniqueStamps => FreshStamp(e)
    /\ NotifyMsg(n, e)

KVNext ==
    \/ \E n \in Nodes, c \in Contents, t \in Stamps :
            Write(n, [content |-> c, createdAt |-> t, expiresAt |-> t])
    \/ \E m \in pending, again \in BOOLEAN : MergeMsg(m, again)
    \/ \E m \in pending : DropMsg(m)
    \/ \E n, o \in Nodes : PushPull(n, o)
    \/ \E n \in Nodes : LoseReplica(n)

KVSpec == KVInit /\ [][KVNext]_kvVars

\* push/pull runs on a timer in every process (memberlist's PushPullInterval).
KVFairSpec == KVSpec /\ \A n, o \in Nodes : WF_kvVars(PushPull(n, o))

-----------------------------------------------------------------------------
(* Merge is last-writer-wins: as long as its process runs, a replica never
   drops the key nor falls back to a value created earlier, whatever order
   gossip arrives in (cache_codec.go, Merge). *)
ReplicaNeverOlder ==
    [][\A n \in Nodes :
          kv[n] # NoEntry =>
              \/ kv'[n] = NoEntry /\ LoseReplica(n)
              \/ /\ kv'[n] # NoEntry
                 /\ kv'[n].createdAt >= kv[n].createdAt]_kvVars

(* Two replicas that show the same created_at hold the same value.  Merge
   ignores an equal timestamp, so replicas that once disagreed on the content
   behind a timestamp would never reconcile (cache_codec.go, Merge). *)
SameStampSameValue ==
    \A n, o \in Nodes :
        (kv[n] # NoEntry /\ kv[o] # NoEntry
            /\ kv[n].createdAt = kv[o].createdAt) => kv[n] = kv[o]

(* The strengthening of SameStampSameValue that is inductive: it also covers
   the updates still travelling. *)
StampIdentifiesValue ==
    \A e, f \in Live : e.createdAt = f.createdAt => e = f

Agreement == \A n, o \in Nodes : kv[n] = kv[o]

(* Once no process restarts any more, push/pull alone brings all replicas to
   the same value for good, although any number of broadcasts is lost. *)
Converges ==
    (<>[][\A n \in Nodes : ~LoseReplica(n)]_kvVars) => <>[]Agreement
=============================================================================
