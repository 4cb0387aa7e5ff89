---------------------------- MODULE KVStoreProofs ----------------------------
(***************************************************************************)
(* Proofs about the replicated store, for any set of instances, any queue  *)
(* bound and any contents.                                                 *)
(***************************************************************************)
EXTENDS KVStore, TLAPS

(* What Merge returns: the incoming value exactly when it may replace the
   current one, which it never does with an older value. *)
LEMMA MergeResult ==
    ASSUME NEW cur \in Cache \cup {NoEntry}, NEW other \in Cache
    PROVE  /\ Merge(cur, other) \in Cache
           /\ Merge(cur, other) \in {cur, other}
           /\ cur # NoEntry => Merge(cur, other).createdAt >= cur.createdAt
  BY KVAssumption DEF Merge, Accepts, Newer, Cache

(* A bounded queue holds only what was queued or offered. *)
LEMMA EnqueueBound ==
    ASSUME NEW queued, NEW msgs
    PROVE  Enqueue(queued, msgs) \subseteq queued \cup msgs
  BY DEF Enqueue

-----------------------------------------------------------------------------
(* Replicas and queues only ever hold Cache values: every update that gossip,
   push/pull or a collector brings is one. *)
THEOREM KVTypeCorrect == KVSpec => []KVTypeOK
<1>1. KVInit => KVTypeOK
  BY DEF KVInit, KVTypeOK
<1>2. KVTypeOK /\ [KVNext]_kvVars => KVTypeOK'
  <2> SUFFICES ASSUME KVTypeOK, [KVNext]_kvVars PROVE KVTypeOK'
    OBVIOUS
  <2> USE DEF KVTypeOK
  <2>1. ASSUME NEW n \in Nodes, NEW c \in Contents, NEW t \in Stamps,
               Write(n, [content |-> c, createdAt |-> t, expiresAt |-> t])
        PROVE  KVTypeOK'
    <3> DEFINE e == [content |-> c, createdAt |-> t, expiresAt |-> t]
    <3>1. [to |-> n, val |-> e] \in Message
      BY KVAssumption DEF Message, Cache
    <3>2. pending' \subseteq pending \cup {[to |-> n, val |-> e]} /\ kv' = kv
      BY <2>1, EnqueueBound DEF Write, NotifyMsg
    <3> QED BY <3>1, <3>2
  <2>2. ASSUME NEW m \in pending, NEW again \in BOOLEAN, MergeMsg(m, again)
        PROVE  KVTypeOK'
    <3>1. m.to \in Nodes /\ m.val \in Cache
      BY DEF Message
    <3>2. kv' \in [Nodes -> Cache \cup {NoEntry}]
      BY <2>2, <3>1, MergeResult DEF MergeMsg
    <3> DEFINE peers == IF Accepts(kv[m.to], m.val) THEN Nodes \ {m.to} ELSE {}
               sent == {[to |-> p, val |-> m.val] : p \in peers}
               rest == IF again THEN pending ELSE pending \ {m}
    <3>3. sent \subseteq Message
      BY <3>1 DEF Message
    <3>4. pending' \subseteq rest \cup sent
      <4>1. pending' = Enqueue(rest, sent)
        BY <2>2 DEF MergeMsg
      <4> QED BY <4>1, EnqueueBound
    <3> QED BY <3>2, <3>3, <3>4
  <2>3. ASSUME NEW m \in pending, DropMsg(m) PROVE KVTypeOK'
    BY <2>3 DEF DropMsg
  <2>4. ASSUME NEW n \in Nodes, NEW o \in Nodes, PushPull(n, o) PROVE KVTypeOK'
    BY <2>4, MergeResult DEF PushPull
  <2>5. ASSUME NEW n \in Nodes, LoseReplica(n) PROVE KVTypeOK'
    BY <2>5 DEF LoseReplica
  <2>6. CASE UNCHANGED kvVars
    BY <2>6 DEF kvVars
  <2> QED BY <2>1, <2>2, <2>3, <2>4, <2>5, <2>6 DEF KVNext
<1> QED BY <1>1, <1>2, PTL DEF KVSpec

-----------------------------------------------------------------------------
(* Last writer wins: no step of a running instance takes its replica back to
   a value created earlier, nor removes the key. *)
THEOREM NeverOlder == KVSpec => ReplicaNeverOlder
<1> DEFINE Keeps(n) ==
        kv[n] # NoEntry =>
            \/ kv'[n] = NoEntry /\ LoseReplica(n)
            \/ /\ kv'[n] # NoEntry
               /\ kv'[n].createdAt >= kv[n].createdAt
<1>1. KVTypeOK /\ [KVNext]_kvVars => [\A n \in Nodes : Keeps(n)]_kvVars
  <2> SUFFICES ASSUME KVTypeOK, KVNext, NEW n \in Nodes, kv[n] # NoEntry
               PROVE  \/ kv'[n] = NoEntry /\ LoseReplica(n)
                      \/ /\ kv'[n] # NoEntry
                         /\ kv'[n].createdAt >= kv[n].createdAt
    OBVIOUS
  <2>1. kv[n] \in Cache /\ kv[n].createdAt \in Nat
    BY DEF KVTypeOK, Cache
  <2>2. CASE kv'[n] = kv[n]
    BY <2>1, <2>2
  <2>3. ASSUME NEW m \in pending, NEW again \in BOOLEAN, MergeMsg(m, again)
        PROVE  kv'[n] # NoEntry /\ kv'[n].createdAt >= kv[n].createdAt
    <3>1. m.to \in Nodes /\ m.val \in Cache
      BY DEF KVTypeOK, Message
    <3>2. kv'[n] = kv[n] \/ kv'[n] = Merge(kv[n], m.val)
      BY <2>3, <3>1 DEF MergeMsg, KVTypeOK
    <3> QED BY <2>1, <3>1, <3>2, MergeResult, KVAssumption
  <2>4. ASSUME NEW p \in Nodes, NEW o \in Nodes, PushPull(p, o)
        PROVE  kv'[n] # NoEntry /\ kv'[n].createdAt >= kv[n].createdAt
    <3>1. kv[o] \in Cache
      BY <2>4 DEF PushPull, KVTypeOK
    <3>2. kv'[n] = kv[n] \/ kv'[n] = Merge(kv[n], kv[o])
      BY <2>4 DEF PushPull, KVTypeOK
    <3> QED BY <2>1, <3>1, <3>2, MergeResult, KVAssumption
  <2>5. ASSUME NEW p \in Nodes, LoseReplica(p)
        PROVE  kv'[n] = kv[n] \/ (kv'[n] = NoEntry /\ LoseReplica(n))
    BY <2>5 DEF LoseReplica, KVTypeOK
  <2> QED BY <2>2, <2>3, <2>4, <2>5 DEF KVNext, Write, NotifyMsg, DropMsg
<1> QED BY <1>1, KVTypeCorrect, PTL DEF KVSpec, ReplicaNeverOlder

-----------------------------------------------------------------------------
(* If no two updates alive at once carry the same created_at, replicas that
   show the same created_at hold the same value.  StampIdentifiesValue, which
   also speaks of the updates still queued, is the inductive form. *)
THEOREM StampsIdentifyValues ==
    ASSUME UniqueStamps
    PROVE  KVSpec => []SameStampSameValue
<1>1. KVInit => StampIdentifiesValue
  BY DEF KVInit, StampIdentifiesValue, Live
<1>2. KVTypeOK /\ StampIdentifiesValue /\ [KVNext]_kvVars => StampIdentifiesValue'
  <2> SUFFICES ASSUME KVTypeOK, StampIdentifiesValue, [KVNext]_kvVars
               PROVE  StampIdentifiesValue'
    OBVIOUS
  <2>1. ASSUME Live' \subseteq Live PROVE StampIdentifiesValue'
    BY <2>1 DEF StampIdentifiesValue
  <2>2. ASSUME NEW n \in Nodes, NEW c \in Contents, NEW t \in Stamps,
               Write(n, [content |-> c, createdAt |-> t, expiresAt |-> t])
        PROVE  StampIdentifiesValue'
    <3> DEFINE e == [content |-> c, createdAt |-> t, expiresAt |-> t]
    <3>1. pending' \subseteq pending \cup {[to |-> n, val |-> e]} /\ kv' = kv
      BY <2>2, EnqueueBound DEF Write, NotifyMsg
    <3>2. Live' \subseteq Live \cup {e}
      BY <3>1 DEF Live
    <3>3. \A f \in Live : f.createdAt # e.createdAt
      BY <2>2 DEF Write, FreshStamp
    <3> QED BY <3>2, <3>3 DEF StampIdentifiesValue
  <2>3. ASSUME NEW m \in pending, NEW again \in BOOLEAN, MergeMsg(m, again)
        PROVE  Live' \subseteq Live
    <3> DEFINE peers == IF Accepts(kv[m.to], m.val) THEN Nodes \ {m.to} ELSE {}
               sent == {[to |-> p, val |-> m.val] : p \in peers}
               rest == IF again THEN pending ELSE pending \ {m}
    <3>1. m.to \in Nodes /\ m.val \in Live
      BY DEF KVTypeOK, Message, Live
    <3>2. pending' \subseteq pending \cup sent
      <4>1. pending' = Enqueue(rest, sent)
        BY <2>3 DEF MergeMsg
      <4> QED BY <4>1, EnqueueBound
    <3>3. \A x \in pending' : x.val \in Live
      BY <3>1, <3>2 DEF Live
    <3>4. \A i \in Nodes : kv'[i] # NoEntry => kv'[i] \in Live
      BY <2>3, <3>1 DEF MergeMsg, Merge, KVTypeOK, Live
    <3> QED BY <3>3, <3>4 DEF Live
  <2>4. ASSUME NEW m \in pending, DropMsg(m) PROVE Live' \subseteq Live
    BY <2>4 DEF DropMsg, Live
  <2>5. ASSUME NEW n \in Nodes, NEW o \in Nodes, PushPull(n, o)
        PROVE  Live' \subseteq Live
    <3>1. \A i \in Nodes : kv'[i] # NoEntry => kv'[i] \in Live
      BY <2>5 DEF PushPull, Merge, KVTypeOK, Live
    <3> QED BY <2>5, <3>1 DEF PushPull, Live
  <2>6. ASSUME NEW n \in Nodes, LoseReplica(n) PROVE Live' \subseteq Live
    BY <2>6 DEF LoseReplica, KVTypeOK, Live
  <2>7. CASE UNCHANGED kvVars
    BY <2>7 DEF kvVars, StampIdentifiesValue, Live
  <2> QED BY <2>1, <2>2, <2>3, <2>4, <2>5, <2>6, <2>7 DEF KVNext
<1>3. StampIdentifiesValue => SameStampSameValue
  BY DEF StampIdentifiesValue, SameStampSameValue, Live
<1> QED BY <1>1, <1>2, <1>3, KVTypeCorrect, PTL DEF KVSpec
=============================================================================
