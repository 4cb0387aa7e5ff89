----------------------------- MODULE RingProofs -----------------------------
(***************************************************************************)
(* Proofs about the ring: for any number of instances and tokens, any      *)
(* auto-forget period and any bound on the faults.                         *)
(***************************************************************************)
EXTENDS Ring, WellFoundedInduction, TLAPS

-----------------------------------------------------------------------------
(* Entries and their merge. *)

\* a replaces b when the two are merged.
Fresher(a, b) ==
    \/ a.age < b.age
    \/ a.age = b.age /\ a.state = "LEFT"

ClusterFits == Cardinality(cluster) \in DOMAIN MaxFaults

(* The numbers the entries are made of. *)
LEMMA Numbers ==
    ASSUME ClusterFits
    PROVE  /\ Forget \in Nat /\ Forget >= 1
           /\ Bound \in Nat
           /\ AgeMax \in Nat /\ AgeMax > 0
BY RingAssumption DEF ClusterFits, Bound, AgeMax

(* What is in an entry. *)
LEMMA EntryShape ==
    ASSUME ClusterFits, NEW e \in Entry
    PROVE  /\ e = [state |-> e.state, age |-> e.age, token |-> e.token]
           /\ e.age \in 0..AgeMax
           /\ e.state \in {"none", "LEFT", "ACTIVE"}
           /\ e.state = "ACTIVE" => e.token \in Tokens
           /\ e.state # "ACTIVE" => e.token = NoToken
           /\ e.state = "none" => e = Nothing
BY Numbers DEF Entry, Nothing

(* Entries that are written. *)
LEMMA WrittenEntries ==
    ASSUME ClusterFits
    PROVE  /\ Nothing \in Entry /\ Tombstone \in Entry
           /\ \A t \in Tokens : Registered(t) \in Entry
BY Numbers DEF Entry, Nothing, Tombstone, Registered

(* A merge chooses one of the two. *)
LEMMA MergeChooses ==
    ASSUME NEW a, NEW b
    PROVE  MergeEntry(a, b) = IF Fresher(b, a) THEN b ELSE a
BY DEF MergeEntry, Fresher

(* Aging an entry keeps what it says, short of dropping an old tombstone. *)
LEMMA OlderEntry ==
    ASSUME ClusterFits, NEW e \in Entry
    PROVE  /\ Older(e) \in Entry
           /\ Older(e).state = "ACTIVE" => /\ e.state = "ACTIVE"
                                           /\ Older(e).age <= e.age + 1
                                           /\ Older(e).token = e.token
<1>1. AgeMax \in Nat /\ AgeMax > 0
  BY Numbers
<1>2. e.age \in 0..AgeMax
  BY EntryShape
<1>3. CASE e.age + 1 < AgeMax
  <2>1. Older(e) = [e EXCEPT !.age = e.age + 1]
    BY <1>3 DEF Older
  <2>2. e.age + 1 \in 0..AgeMax /\ e # Nothing
    BY <1>1, <1>2, <1>3 DEF Nothing
  <2> QED BY <2>1, <2>2 DEF Entry
<1>4. CASE ~(e.age + 1 < AgeMax) /\ e.state = "ACTIVE"
  <2>1. Older(e) = [e EXCEPT !.age = AgeMax]
    BY <1>4 DEF Older
  <2>2. AgeMax <= e.age + 1
    BY <1>1, <1>2, <1>4
  <2>3. e \in [state: {"ACTIVE"}, age: 0..AgeMax, token: Tokens]
    BY <1>4 DEF Entry, Nothing
  <2> QED BY <1>1, <2>1, <2>2, <2>3 DEF Entry
<1>5. CASE ~(e.age + 1 < AgeMax) /\ e.state # "ACTIVE"
  <2>1. Older(e) = Nothing
    BY <1>5 DEF Older
  <2> QED BY <2>1, WrittenEntries DEF Nothing
<1> QED BY <1>3, <1>4, <1>5

-----------------------------------------------------------------------------
(* Types. *)

DownEmpty == \A i \in Nodes \ Up : \A k \in Nodes : view[i][k] = Nothing

TypeInv == TypeOK /\ ClusterFits /\ DownEmpty

(* The vocabulary of the entries depends on the cluster alone. *)
LEMMA SameCluster ==
    ASSUME cluster' = cluster
    PROVE  /\ Bound' = Bound /\ AgeMax' = AgeMax
           /\ Nothing' = Nothing /\ Entry' = Entry
           /\ ClusterFits' = ClusterFits
BY DEF Bound, AgeMax, Nothing, Entry, ClusterFits

(* Where the parts of a state are. *)
LEMMA Parts ==
    ASSUME TypeInv
    PROVE  /\ ClusterFits
           /\ \A i, k \in Nodes : view[i][k] \in Entry
           /\ \A i \in Up : token[i] \in Tokens
           /\ Up \subseteq Nodes /\ cluster \subseteq Nodes
           /\ faults \in Nat
BY Numbers DEF TypeInv, TypeOK, Up

(* Every step of a running or starting instance writes only its own replica. *)
LEMMA OneReplica ==
    ASSUME TypeInv, NEW i \in Nodes, NEW v \in [Nodes -> Entry],
           view' = [view EXCEPT ![i] = v]
    PROVE  /\ view' \in [Nodes -> [Nodes -> Entry]]
           /\ view'[i] = v
           /\ \A n \in Nodes \ {i} : view'[n] = view[n]
BY DEF TypeInv, TypeOK

(* What a start leaves: the own entry, and for each other instance what some
   connected running replica said. *)
LEMMA StartStep ==
    ASSUME TypeInv, NEW i \in Nodes, Start(i)
    PROVE  /\ Up' = Up \cup {i} /\ i \notin Up
           /\ view' \in [Nodes -> [Nodes -> Entry]]
           /\ \A n \in Nodes \ {i} : view'[n] = view[n]
           /\ \A k \in Nodes \ {i} :
                 \/ view'[i][k] = Nothing
                 \/ \E j \in Up : Connected(i, j) /\ view'[i][k] = view[j][k]
           /\ \E t \in Tokens :
                 /\ token' = [token EXCEPT ![i] = t]
                 /\ view'[i][i] = Registered(t)
                 /\ t \in Fresh \/ \E j \in Nodes : view[j][i].token = t
<1>1. PICK peers \in SUBSET {j \in Up : Connected(i, j)} :
        \E from \in [Nodes -> peers \cup {i}] :
          LET joined == [k \in Nodes |-> view[from[k]][k]]
          IN \E t \in (IF Kept(joined[i]) = {} THEN Fresh
                       ELSE Kept(joined[i])) :
               /\ token' = [token EXCEPT ![i] = t]
               /\ view' = [view EXCEPT ![i] =
                              [joined EXCEPT ![i] = Registered(t)]]
  BY DEF Start
<1>a. PICK from \in [Nodes -> peers \cup {i}] :
        LET joined == [k \in Nodes |-> view[from[k]][k]]
        IN \E t \in (IF Kept(joined[i]) = {} THEN Fresh ELSE Kept(joined[i])) :
             /\ token' = [token EXCEPT ![i] = t]
             /\ view' = [view EXCEPT ![i] =
                            [joined EXCEPT ![i] = Registered(t)]]
  BY <1>1
<1> DEFINE joined == [k \in Nodes |-> view[from[k]][k]]
<1>2. \A k \in Nodes : from[k] \in Nodes /\ view[from[k]][k] \in Entry
  BY Parts
<1>3. joined \in [Nodes -> Entry]
  BY <1>2
<1>4. PICK t \in (IF Kept(joined[i]) = {} THEN Fresh ELSE Kept(joined[i])) :
        /\ token' = [token EXCEPT ![i] = t]
        /\ view' = [view EXCEPT ![i] = [joined EXCEPT ![i] = Registered(t)]]
  BY <1>a
<1> HIDE DEF joined
<1>5. t \in Tokens
  BY <1>3, <1>4, Parts, EntryShape DEF Kept, Fresh
<1>b. t \in Fresh \/ \E j \in Nodes : view[j][i].token = t
  <2>1. joined[i] = view[from[i]][i]
    BY DEF joined
  <2> QED BY <1>2, <1>4, <2>1 DEF Kept
<1> DEFINE new == [joined EXCEPT ![i] = Registered(t)]
<1>6. /\ new \in [Nodes -> Entry] /\ new[i] = Registered(t)
      /\ \A k \in Nodes \ {i} : new[k] = joined[k]
  BY <1>3, <1>5, Parts, WrittenEntries
<1> HIDE DEF new
<1>7. view' = [view EXCEPT ![i] = new]
  BY <1>4 DEF new
<1>8. /\ view' \in [Nodes -> [Nodes -> Entry]]
      /\ view'[i] = new
      /\ \A n \in Nodes \ {i} : view'[n] = view[n]
  BY <1>6, <1>7, OneReplica
<1>9. Up' = Up \cup {i} /\ i \notin Up
  BY DEF Start, Up, TypeInv, TypeOK
<1>10. ASSUME NEW k \in Nodes \ {i}
       PROVE  \/ view'[i][k] = Nothing
              \/ \E j \in Up : Connected(i, j) /\ view'[i][k] = view[j][k]
  <2>1. view'[i][k] = view[from[k]][k]
    BY <1>6, <1>8 DEF joined
  <2>2. CASE from[k] = i
    BY <1>9, <2>1, <2>2 DEF TypeInv, DownEmpty
  <2>3. CASE from[k] # i
    BY <2>1, <2>3
  <2> QED BY <2>2, <2>3
<1> QED BY <1>4, <1>5, <1>6, <1>8, <1>9, <1>10, <1>b

(* What a heartbeat leaves: no entry of the own replica is past the period. *)
LEMMA BeatStep ==
    ASSUME TypeInv, NEW i \in Nodes, Beat(i)
    PROVE  /\ view' \in [Nodes -> [Nodes -> Entry]]
           /\ \A n \in Nodes \ {i} : view'[n] = view[n]
           /\ view'[i][i] = Registered(token[i])
           /\ \A k \in Nodes \ {i} :
                 view'[i][k] = IF Expired(view[i][k]) THEN Tombstone
                               ELSE view[i][k]
<1> DEFINE new == [k \in Nodes |-> IF k = i THEN Heartbeat(i)
                                   ELSE IF Expired(view[i][k]) THEN Tombstone
                                   ELSE view[i][k]]
<1>1. view' = [view EXCEPT ![i] = new]
  BY DEF Beat
<1>2. Heartbeat(i) \in Entry /\ Tombstone \in Entry
  BY Parts, WrittenEntries DEF Beat, Heartbeat
<1>3. new \in [Nodes -> Entry]
  BY <1>2, Parts
<1> HIDE DEF new
<1>4. /\ view' \in [Nodes -> [Nodes -> Entry]]
      /\ view'[i] = new
      /\ \A n \in Nodes \ {i} : view'[n] = view[n]
  BY <1>1, <1>3, OneReplica
<1> QED BY <1>4 DEF new, Heartbeat

(* What a gossip message leaves. *)
LEMMA GossipStep ==
    ASSUME TypeInv, NEW i \in Nodes, NEW j \in Nodes, Gossip(i, j)
    PROVE  /\ view' \in [Nodes -> [Nodes -> Entry]]
           /\ \A n \in Nodes \ {j} : view'[n] = view[n]
           /\ \A k \in Nodes :
                 view'[j][k] = IF Fresher(view[i][k], view[j][k])
                               THEN view[i][k] ELSE view[j][k]
<1> DEFINE new == Merge(view[j], view[i])
<1>1. view' = [view EXCEPT ![j] = new]
  BY DEF Gossip
<1>2. \A k \in Nodes : new[k] = IF Fresher(view[i][k], view[j][k])
                                THEN view[i][k] ELSE view[j][k]
  BY MergeChooses DEF Merge
<1>3. new = [k \in Nodes |-> new[k]]
  BY DEF Merge
<1> HIDE DEF new
<1>4. new \in [Nodes -> Entry]
  BY <1>2, <1>3, Parts
<1> QED BY <1>1, <1>2, <1>4, OneReplica

(* What an exit leaves. *)
LEMMA ExitStep ==
    ASSUME TypeInv, NEW i \in Nodes, Exit(i)
    PROVE  /\ view' \in [Nodes -> [Nodes -> Entry]]
           /\ \A n \in Nodes \ {i} : view'[n] = view[n]
           /\ \A k \in Nodes : view'[i][k] = Nothing
           /\ Up' = Up \ {i}
           /\ faults' = faults + 1
<1> DEFINE new == [k \in Nodes |-> Nothing]
<1>1. view' = [view EXCEPT ![i] = new]
  BY DEF Exit
<1>2. new \in [Nodes -> Entry]
  BY Parts, WrittenEntries
<1>3. Up' = Up \ {i}
  BY DEF Exit, Up, TypeInv, TypeOK
<1> HIDE DEF new
<1>4. /\ view' \in [Nodes -> [Nodes -> Entry]]
      /\ view'[i] = new
      /\ \A n \in Nodes \ {i} : view'[n] = view[n]
  BY <1>1, <1>2, OneReplica
<1>5. \A k \in Nodes : new[k] = Nothing
  BY DEF new
<1> QED BY <1>3, <1>4, <1>5 DEF Exit

(* Every instance is down at first. *)
LEMMA InitType ==
    ASSUME Init
    PROVE  TypeInv
<1>1. ClusterFits /\ cluster \subseteq Nodes
  BY DEF Init, ClusterFits
<1>2. Up = {}
  BY DEF Init, Up
<1>3. view \in [Nodes -> [Nodes -> Entry]]
  BY <1>1, WrittenEntries DEF Init
<1>4. faults \in 0..Bound /\ calmFor \in 0..Settle
  BY <1>1, Numbers DEF Init, Settle
<1>5. TypeOK
  BY <1>1, <1>2, <1>3, <1>4 DEF Init, TypeOK
<1>6. DownEmpty
  BY <1>2 DEF Init, DownEmpty
<1> QED BY <1>1, <1>5, <1>6 DEF TypeInv

(* Every step keeps the types, and leaves nothing in the memory of a process
   that is down. *)
LEMMA TypeStep ==
    ASSUME TypeInv, [Next]_vars
    PROVE  TypeInv'
<1> USE DEF TypeInv
<1>n. /\ Forget \in Nat /\ Bound \in Nat /\ AgeMax \in Nat
  BY Numbers
<1>1. CASE UNCHANGED vars
  BY <1>1, SameCluster DEF vars, TypeOK, Up, DownEmpty, Settle
<1>2. ASSUME NEW i \in cluster, Start(i) PROVE TypeInv'
  <2>1. i \in Nodes /\ cluster' = cluster
    BY <1>2, Parts DEF Start
  <2>2. PICK t \in Tokens : token' = [token EXCEPT ![i] = t]
    BY <1>2, <2>1, StartStep
  <2>3. /\ Up' = Up \cup {i}
        /\ view' \in [Nodes -> [Nodes -> Entry]]
        /\ \A n \in Nodes \ {i} : view'[n] = view[n]
    BY <1>2, <2>1, StartStep
  <2>4. token' \in [Nodes -> Tokens \cup {NoToken}]
    BY <2>1, <2>2 DEF TypeOK
  <2>5. Up' = {n \in Nodes : token'[n] # NoToken}
    BY <2>1, <2>2, <2>3, RingAssumption DEF TypeOK
  <2>6. TypeOK'
    BY <1>2, <1>n, <2>1, <2>3, <2>4, <2>5, SameCluster DEF Start, TypeOK, Settle
  <2>7. DownEmpty'
    BY <2>1, <2>3, SameCluster DEF DownEmpty
  <2> QED BY <2>1, <2>6, <2>7, SameCluster
<1>3. ASSUME NEW i \in cluster, Serve(i) PROVE TypeInv'
  <2>1. cluster' = cluster /\ Up' = Up /\ i \in Nodes
    BY <1>3 DEF Serve, Up, TypeOK
  <2>2. TypeOK'
    BY <1>3, <2>1, SameCluster DEF Serve, TypeOK, Settle
  <2>3. DownEmpty'
    BY <1>3, <2>1, SameCluster DEF Serve, DownEmpty
  <2> QED BY <2>1, <2>2, <2>3, SameCluster
<1>4. ASSUME NEW i \in cluster, Exit(i) PROVE TypeInv'
  <2>1. cluster' = cluster /\ i \in Nodes
    BY <1>4 DEF Exit, TypeOK
  <2>2. /\ view' \in [Nodes -> [Nodes -> Entry]]
        /\ \A n \in Nodes \ {i} : view'[n] = view[n]
        /\ \A k \in Nodes : view'[i][k] = Nothing
        /\ Up' = Up \ {i}
    BY <1>4, <2>1, ExitStep
  <2>3. token' \in [Nodes -> Tokens \cup {NoToken}]
    BY <1>4, <2>1 DEF Exit, TypeOK
  <2>4. Up' = {n \in Nodes : token'[n] # NoToken}
    BY <1>4, <2>1, <2>2 DEF Exit, TypeOK
  <2>5. faults' \in 0..Bound
    BY <1>4, <1>n DEF Exit, TypeOK
  <2>6. TypeOK'
    BY <1>4, <1>n, <2>1, <2>2, <2>3, <2>4, <2>5, SameCluster
    DEF Exit, TypeOK, Settle
  <2>7. DownEmpty'
    BY <2>1, <2>2, SameCluster DEF DownEmpty
  <2> QED BY <2>1, <2>6, <2>7, SameCluster
<1>5. ASSUME NEW i \in cluster, Beat(i) PROVE TypeInv'
  <2>1. cluster' = cluster /\ i \in Nodes /\ Up' = Up /\ i \in Up
    BY <1>5 DEF Beat, TypeOK, Up
  <2>2. /\ view' \in [Nodes -> [Nodes -> Entry]]
        /\ \A n \in Nodes \ {i} : view'[n] = view[n]
    BY <1>5, <2>1, BeatStep
  <2>3. TypeOK'
    BY <1>5, <2>1, <2>2, SameCluster DEF Beat, TypeOK, Settle
  <2>4. DownEmpty'
    BY <2>1, <2>2, SameCluster DEF DownEmpty
  <2> QED BY <2>1, <2>3, <2>4, SameCluster
<1>6. ASSUME NEW i \in cluster, NEW j \in cluster, Gossip(i, j)
      PROVE  TypeInv'
  <2>1. cluster' = cluster /\ i \in Nodes /\ j \in Nodes /\ Up' = Up /\ j \in Up
    BY <1>6 DEF Gossip, TypeOK, Up
  <2>2. /\ view' \in [Nodes -> [Nodes -> Entry]]
        /\ \A n \in Nodes \ {j} : view'[n] = view[n]
    BY <1>6, <2>1, GossipStep
  <2>3. TypeOK'
    BY <1>6, <2>1, <2>2, SameCluster DEF Gossip, TypeOK, Settle
  <2>4. DownEmpty'
    BY <2>1, <2>2, SameCluster DEF DownEmpty
  <2> QED BY <2>1, <2>3, <2>4, SameCluster
<1>7. ASSUME NEW S \in SUBSET cluster, Cut(S) PROVE TypeInv'
  <2>1. cluster' = cluster /\ Up' = Up /\ view' = view
    BY <1>7 DEF Cut, Up
  <2>2. faults' \in 0..Bound /\ calmFor' \in 0..Settle
    BY <1>7, <1>n DEF Cut, TypeOK, Settle
  <2>3. TypeOK'
    BY <1>7, <2>1, <2>2, SameCluster DEF Cut, TypeOK, Settle
  <2>4. DownEmpty'
    BY <2>1, SameCluster DEF DownEmpty
  <2> QED BY <2>1, <2>3, <2>4, SameCluster
<1>8. ASSUME Heal PROVE TypeInv'
  <2>1. cluster' = cluster /\ Up' = Up /\ view' = view
    BY <1>8 DEF Heal, Up
  <2>2. TypeOK'
    BY <1>8, <1>n, <2>1, SameCluster DEF Heal, TypeOK, Settle
  <2>3. DownEmpty'
    BY <2>1, SameCluster DEF DownEmpty
  <2> QED BY <2>1, <2>2, <2>3, SameCluster
<1>9. ASSUME Tick PROVE TypeInv'
  <2>1. cluster' = cluster /\ Up' = Up
    BY <1>9 DEF Tick, Up
  <2>2. view' \in [Nodes -> [Nodes -> Entry]]
    BY <1>9, Parts, OlderEntry DEF Tick
  <2>3. calmFor' \in 0..Settle
    BY <1>9, <1>n DEF Tick, TypeOK, Settle
  <2>4. TypeOK'
    BY <1>9, <2>1, <2>2, <2>3, SameCluster DEF Tick, TypeOK, Settle
  <2>5. Older(Nothing) = Nothing
    BY <1>n DEF Older, Nothing
  <2>6. DownEmpty'
    BY <1>9, <2>1, <2>5, SameCluster, Parts DEF Tick, DownEmpty
  <2> QED BY <2>1, <2>4, <2>6, SameCluster
<1> QED BY <1>1, <1>2, <1>3, <1>4, <1>5, <1>6, <1>7, <1>8, <1>9
        DEF Next, ServeFails, Crash

(* The types of the ring: among them that a process in memory has a token of
   its own exactly while it runs, also when it rejoins and takes over the token
   its last life left in the ring (newRing, OnRingInstanceRegister). *)
THEOREM RingTypeCorrect == Spec => []TypeOK
<1>1. Init => TypeInv
  BY InitType
<1>2. TypeInv /\ [Next]_vars => TypeInv'
  BY TypeStep
<1>3. TypeInv => TypeOK
  BY DEF TypeInv
<1> QED BY <1>1, <1>2, <1>3, PTL DEF Spec
-----------------------------------------------------------------------------
(* Ghosts. *)

\* j keeps k from getting older in i's replica: what it says of k is fresher
\* already, or it has the same old entry and is still to heartbeat.
Answers(j, i, k) ==
    /\ Connected(j, i)
    /\ \/ Fresher(view[j][k], view[i][k])
       \/ /\ j \notin beaten
          /\ view[j][k].state = "ACTIVE"
          /\ view[j][k].age = view[i][k].age

\* An entry older than d may be in a replica for the rest of this period only.
Answered(d) ==
    \A i \in Up : \A k \in Members(i) :
        view[i][k].age > d => \E j \in Up : Answers(j, i, k)

\* No entry of a running replica is older than d.
NoOlder(d) == \A i \in Up : \A k \in Members(i) : view[i][k].age <= d

(* What the replicas hold, as numbers. *)
LEMMA Ages ==
    ASSUME TypeInv
    PROVE  /\ \A n, k \in Nodes : view[n][k].age \in Nat /\ view[n][k] \in Entry
           /\ Forget \in Nat /\ Forget >= 1 /\ faults \in Nat
           /\ Up \subseteq Nodes /\ cluster \subseteq Nodes
BY Parts, EntryShape, Numbers

(* When all have heartbeated and have heard all others, no entry is past its
   time. *)
LEMMA NoneOverdue ==
    ASSUME TypeInv, NEW d \in Nat, Answered(d), Up \subseteq beaten, Delivered
    PROVE  NoOlder(d)
<1> SUFFICES ASSUME NEW i \in Up, NEW k \in Members(i), view[i][k].age > d
             PROVE  FALSE
  BY Ages DEF NoOlder, Members
<1>1. i \in Nodes /\ k \in Nodes
  BY DEF Up, Members
<1>2. PICK j \in Up : Answers(j, i, k)
  BY DEF Answered
<1>3. Fresher(view[j][k], view[i][k])
  BY <1>2 DEF Answers
<1>4. Merge(view[i], view[j]) = view[i]
  BY <1>2 DEF Answers, Delivered
<1>5. Merge(view[i], view[j])[k] = view[j][k]
  BY <1>1, <1>3, MergeChooses DEF Merge
<1>6. view[j][k] = view[i][k]
  BY <1>4, <1>5
<1> QED BY <1>1, <1>3, <1>6, Ages DEF Fresher, Members

(* The period after a tick begins with every instance still to heartbeat. *)
LEMMA AnsweredTick ==
    ASSUME NEW d \in Nat, Tick
    PROVE  Answered(d)'
<1> SUFFICES ASSUME NEW i \in Up', NEW k \in Members(i)' PROVE Answers(i, i, k)'
  BY DEF Answered
<1> QED BY DEF Tick, Answers, Connected, Members

(* Aging makes no entry more than one period older. *)
LEMMA NoOlderTick ==
    ASSUME TypeInv, NEW d \in Nat, NoOlder(d), Tick
    PROVE  NoOlder(d + 1)'
<1> SUFFICES ASSUME NEW i \in Up', NEW k \in Members(i)'
             PROVE  view'[i][k].age <= d + 1
  BY DEF NoOlder
<1>1. i \in Up /\ i \in Nodes /\ k \in Nodes /\ view'[i][k].state = "ACTIVE"
  BY DEF Tick, Up, Members
<1>2. view'[i][k] = Older(view[i][k])
  BY <1>1 DEF Tick
<1>3. view[i][k] \in Entry /\ ClusterFits /\ view[i][k].age \in Nat
  BY <1>1, Ages, Parts
<1>4. /\ view[i][k].state = "ACTIVE"
      /\ view'[i][k].age <= view[i][k].age + 1
  BY <1>1, <1>2, <1>3, OlderEntry
<1>5. Older(view[i][k]).age \in Nat
  BY <1>3, OlderEntry, EntryShape, Numbers
<1>6. view[i][k].age <= d
  BY <1>1, <1>4 DEF NoOlder, Members
<1> QED BY <1>2, <1>3, <1>4, <1>5, <1>6

(* A heartbeat replaces what is past its time, or lets it be fresher. *)
LEMMA AnsweredBeat ==
    ASSUME TypeInv, NEW d \in Nat, d >= Forget, Answered(d),
           NEW s \in cluster, Beat(s)
    PROVE  Answered(d)'
<1>b. /\ \A n, k \in Nodes : view[n][k].age \in Nat
      /\ Forget \in Nat /\ Forget >= 1 /\ Up \subseteq Nodes
  BY Ages
<1>1. s \in Nodes /\ Up' = Up /\ cut' = cut /\ beaten' = beaten \cup {s}
  BY Parts DEF Beat, Up
<1>2. /\ \A n \in Nodes \ {s} : view'[n] = view[n]
      /\ view'[s][s] = Registered(token[s])
      /\ \A m \in Nodes \ {s} :
            view'[s][m] = IF Expired(view[s][m]) THEN Tombstone ELSE view[s][m]
  BY <1>1, BeatStep
<1> SUFFICES ASSUME NEW i \in Up', NEW k \in Nodes,
                    view'[i][k].state = "ACTIVE", view'[i][k].age > d
             PROVE  \E j \in Up' : Answers(j, i, k)'
  BY DEF Answered, Members
<1>3. ASSUME i = s PROVE FALSE
  <2>1. CASE k = s
    BY <1>b, <1>2, <1>3, <2>1 DEF Registered
  <2>2. CASE k # s
    BY <1>b, <1>1, <1>2, <1>3, <2>2 DEF Tombstone, Expired
  <2> QED BY <2>1, <2>2
<1>4. i \in Up /\ view'[i] = view[i] /\ view[i][k].age > 0
      /\ view[i][k].age > Forget
  BY <1>b, <1>1, <1>2, <1>3
<1>5. PICK j \in Up : Answers(j, i, k)
  BY <1>4 DEF Answered, Members
<1>6. Connected(j, i)'
  BY <1>1, <1>5 DEF Answers, Connected
<1>7. CASE j # s
  <2>1. view'[j] = view[j] /\ (j \notin beaten => j \notin beaten')
    BY <1>b, <1>1, <1>2, <1>7
  <2> QED BY <1>1, <1>4, <1>5, <1>6, <2>1 DEF Answers, Fresher
<1>8. CASE j = s
  <2>1. CASE k = s \/ Expired(view[s][k])
    <3>1. view'[j][k].age = 0
      BY <1>1, <1>2, <1>8, <2>1 DEF Registered, Tombstone
    <3> QED BY <1>1, <1>4, <1>5, <1>6, <3>1 DEF Answers, Fresher
  <2>2. CASE ~(k = s \/ Expired(view[s][k]))
    <3>1. view'[j][k] = view[j][k]
      BY <1>1, <1>2, <1>8, <2>2
    <3>2. Fresher(view[j][k], view[i][k])
      BY <1>4, <1>5, <1>8, <2>2 DEF Answers, Expired
    <3> QED BY <1>1, <1>4, <1>5, <1>6, <3>1, <3>2 DEF Answers, Fresher
  <2> QED BY <2>1, <2>2
<1> QED BY <1>7, <1>8

(* Gossip brings an old entry only together with what answers it. *)
LEMMA AnsweredGossip ==
    ASSUME TypeInv, NEW d \in Nat, Answered(d),
           NEW s \in cluster, NEW r \in cluster, Gossip(s, r)
    PROVE  Answered(d)'
<1>b. /\ \A n, k \in Nodes : view[n][k].age \in Nat
      /\ Up \subseteq Nodes
  BY Ages
<1>1. /\ s \in Up /\ r \in Up /\ s # r /\ Connected(s, r)
      /\ Up' = Up /\ cut' = cut /\ beaten' = beaten
  BY DEF Gossip, Up
<1>2. /\ \A n \in Nodes \ {r} : view'[n] = view[n]
      /\ \A m \in Nodes :
            view'[r][m] = IF Fresher(view[s][m], view[r][m])
                          THEN view[s][m] ELSE view[r][m]
  BY <1>b, <1>1, GossipStep
<1> SUFFICES ASSUME NEW i \in Up, NEW k \in Nodes,
                    view'[i][k].state = "ACTIVE", view'[i][k].age > d
             PROVE  \E j \in Up : Answers(j, i, k)'
  BY <1>1 DEF Answered, Members
\* Whose entry it was.
<1>3. PICK o \in Up : view'[i][k] = view[o][k] /\ Connected(o, i)
  BY <1>b, <1>1, <1>2 DEF Connected
<1>4. PICK j \in Up : Answers(j, o, k)
  BY <1>3 DEF Answered, Members
<1>5. Connected(j, i)'
  BY <1>1, <1>3, <1>4 DEF Answers, Connected
<1>6. CASE view'[j][k] = view[j][k]
  BY <1>1, <1>3, <1>4, <1>5, <1>6 DEF Answers
<1>7. CASE view'[j][k] # view[j][k]
  <2>1. view'[j][k] = view[s][k] /\ Fresher(view[s][k], view[j][k])
    BY <1>b, <1>2, <1>7
  <2>2. Fresher(view'[j][k], view[o][k])
    BY <1>b, <1>1, <1>3, <1>4, <2>1 DEF Answers, Fresher
  <2> QED BY <1>1, <1>3, <1>5, <2>2 DEF Answers
<1> QED BY <1>6, <1>7

(* A heartbeat or a message makes no entry older. *)
LEMMA NoOlderKept ==
    ASSUME TypeInv, NEW d \in Nat, NoOlder(d), NEW s \in cluster,
           NEW r \in cluster, Beat(r) \/ Gossip(s, r)
    PROVE  NoOlder(d)'
<1>b. r \in Nodes /\ s \in Nodes /\ Up' = Up
  BY Parts DEF Beat, Gossip, Up
<1> SUFFICES ASSUME NEW i \in Up, NEW k \in Nodes, view'[i][k].state = "ACTIVE"
             PROVE  view'[i][k].age <= d
  BY <1>b DEF NoOlder, Members
<1>0. i \in Nodes
  BY DEF Up
<1>1. CASE i # r
  BY <1>b, <1>0, <1>1, BeatStep, GossipStep DEF NoOlder, Members
<1>2. CASE i = r /\ Beat(r)
  <2>1. CASE k = r
    <3>1. view'[i][k] = Registered(token[r])
      BY <1>b, <1>2, <2>1, BeatStep
    <3> QED BY <3>1 DEF Registered
  <2>2. CASE k # r
    <3>1. view'[r][k] = view[r][k]
      BY <1>b, <1>2, <2>2, BeatStep DEF Tombstone
    <3> QED BY <1>2, <3>1 DEF NoOlder, Members
  <2> QED BY <2>1, <2>2
<1>3. CASE i = r /\ Gossip(s, r)
  <2>1. s \in Up
    BY <1>3 DEF Gossip
  <2> QED BY <1>b, <1>3, <2>1, GossipStep DEF NoOlder, Members
<1> QED BY <1>1, <1>2, <1>3

GhostInv == /\ TypeInv
            /\ GhostsForgotten
            /\ Answered(Forget + faults)

(* A start takes old entries only together with what answers them. *)
LEMMA GhostStart ==
    ASSUME GhostInv, TypeInv', NEW s \in cluster, Start(s)
    PROVE  GhostInv'
<1>b. /\ TypeInv /\ s \in Nodes
      /\ \A n, k \in Nodes : view[n][k].age \in Nat
      /\ Forget \in Nat /\ faults \in Nat /\ Up \subseteq Nodes
  BY Ages DEF GhostInv
<1>1. faults' = faults /\ cut' = cut /\ beaten' = beaten \cup {s}
  BY DEF Start
<1>2. /\ Up' = Up \cup {s} /\ s \notin Up
      /\ \A n \in Nodes \ {s} : view'[n] = view[n]
      /\ \A m \in Nodes \ {s} :
            \/ view'[s][m] = Nothing
            \/ \E j \in Up : Connected(s, j) /\ view'[s][m] = view[j][m]
  BY <1>b, StartStep
<1>3. PICK t \in Tokens : view'[s][s] = Registered(t)
  BY <1>b, StartStep
<1> SUFFICES ASSUME NEW i \in Up', NEW k \in Nodes,
                    view'[i][k].state = "ACTIVE"
             PROVE  /\ view'[i][k].age <= Forget + 1 + faults
                    /\ view'[i][k].age > Forget + faults =>
                          \E j \in Up' : Answers(j, i, k)'
  BY <1>1 DEF GhostInv, GhostsForgotten, Answered, Members
<1>4. CASE i = s /\ k = s
  BY <1>b, <1>3, <1>4 DEF Registered
<1>5. CASE ~(i = s /\ k = s)
  \* Whose entry it was.
  <2>1. PICK o \in Up : Connected(o, i) /\ view'[i][k] = view[o][k]
    <3>1. CASE i # s
      BY <1>b, <1>2, <3>1 DEF Connected
    <3>2. CASE i = s
      <4>1. view'[i][k] # Nothing
        BY DEF Nothing
      <4> QED BY <1>2, <1>5, <3>2, <4>1 DEF Connected
    <3> QED BY <3>1, <3>2
  <2>2. ASSUME NEW j \in Up, Answers(j, o, k) PROVE Answers(j, i, k)'
    <3>1. view'[j] = view[j] /\ (j \notin beaten => j \notin beaten')
      BY <1>b, <1>1, <1>2
    <3>2. Connected(j, i)'
      BY <1>1, <2>1, <2>2 DEF Answers, Connected
    <3> QED BY <2>1, <2>2, <3>1, <3>2 DEF Answers
  <2> QED BY <1>2, <2>1, <2>2
          DEF GhostInv, GhostsForgotten, Answered, Members
<1> QED BY <1>4, <1>5

(* Every step keeps the invariant; a crash or a cut may take the answer away,
   and is charged one period for it. *)
LEMMA GhostStep ==
    ASSUME GhostInv, [Next]_vars
    PROVE  GhostInv'
<1>a. TypeInv /\ TypeInv'
  BY TypeStep DEF GhostInv
<1>b. /\ \A n, k \in Nodes : view[n][k].age \in Nat
      /\ Forget \in Nat /\ Forget >= 1 /\ faults \in Nat /\ Up \subseteq Nodes
  BY <1>a, Ages
<1>c. PICK d \in Nat : d = Forget + faults
  BY <1>b
<1>d. /\ Answered(d) /\ NoOlder(d + 1) /\ d >= Forget
  BY <1>b, <1>c DEF GhostInv, NoOlder, GhostsForgotten
<1>e. faults' = faults /\ Answered(d)' /\ NoOlder(d + 1)' => GhostInv'
  BY <1>a, <1>b, <1>c DEF GhostInv, NoOlder, GhostsForgotten
<1>f. ASSUME faults' = faults + 1, \A i \in Up' : i \in Up /\ view'[i] = view[i]
      PROVE  GhostInv'
  <2>1. \A i \in Up' : \A k \in Members(i)' :
           view'[i][k].age \in Nat /\ view'[i][k].age <= Forget + faults'
    BY <1>b, <1>c, <1>d, <1>f DEF NoOlder, Members
  <2> QED BY <1>a, <1>b, <1>f, <2>1 DEF GhostInv, GhostsForgotten, Answered
<1>1. CASE UNCHANGED vars
  BY <1>1, <1>d, <1>e
  DEF vars, Up, Answered, Answers, Connected, NoOlder, Members
<1>2. ASSUME NEW s \in cluster, Start(s) PROVE GhostInv'
  BY <1>2, <1>a, GhostStart
<1>3. ASSUME NEW s \in cluster, Serve(s) PROVE GhostInv'
  <2>1. Up' = Up
    BY <1>3, <1>a DEF Serve, Up, TypeInv, TypeOK
  <2> QED BY <1>3, <1>d, <1>e, <2>1
          DEF Serve, Answered, Answers, Connected, NoOlder, Members
<1>4. ASSUME NEW s \in cluster, Exit(s) PROVE GhostInv'
  <2>1. s \in Nodes
    BY <1>a, Parts
  <2>2. /\ faults' = faults + 1
        /\ \A i \in Up' : i \in Up /\ view'[i] = view[i]
    BY <1>4, <1>a, <1>b, <2>1, ExitStep
  <2> QED BY <1>f, <2>2
<1>5. ASSUME NEW s \in cluster, Beat(s) PROVE GhostInv'
  <2>1. Answered(d)'
    BY <1>5, <1>a, <1>d, AnsweredBeat
  <2>2. NoOlder(d + 1)'
    BY <1>5, <1>a, <1>d, NoOlderKept
  <2> QED BY <1>5, <1>e, <2>1, <2>2 DEF Beat
<1>6. ASSUME NEW s \in cluster, NEW r \in cluster, Gossip(s, r)
      PROVE  GhostInv'
  <2>1. Answered(d)'
    BY <1>6, <1>a, <1>d, AnsweredGossip
  <2>2. NoOlder(d + 1)'
    BY <1>6, <1>a, <1>d, NoOlderKept
  <2> QED BY <1>6, <1>e, <2>1, <2>2 DEF Gossip
<1>7. ASSUME NEW S \in SUBSET cluster, Cut(S) PROVE GhostInv'
  <2>1. Up' = Up /\ view' = view /\ faults' = faults + 1
    BY <1>7 DEF Cut, Up
  <2> QED BY <1>f, <2>1
<1>8. ASSUME Heal PROVE GhostInv'
  <2>1. /\ Up' = Up /\ view' = view /\ faults' = faults /\ beaten' = beaten
        /\ cut' = {}
    BY <1>8 DEF Heal, Up
  <2>2. \A i, j \in Up, k \in Nodes : Answers(j, i, k) => Answers(j, i, k)'
    BY <2>1 DEF Answers, Connected
  <2>3. Answered(d)' /\ NoOlder(d + 1)'
    BY <1>d, <2>1, <2>2 DEF Answered, NoOlder, Members
  <2> QED BY <1>e, <2>1, <2>3
<1>9. ASSUME Tick PROVE GhostInv'
  <2>1. NoOlder(d)
    BY <1>9, <1>a, <1>d, NoneOverdue DEF Tick
  <2>2. Answered(d)' /\ NoOlder(d + 1)'
    BY <1>9, <1>a, <2>1, AnsweredTick, NoOlderTick
  <2> QED BY <1>9, <1>e, <2>2 DEF Tick
<1> QED BY <1>1, <1>2, <1>3, <1>4, <1>5, <1>6, <1>7, <1>8, <1>9
        DEF Next, ServeFails, Crash

(* No running instance keeps a dead one in its ring beyond the auto-forget
   period, one period to act on it and one for each crash or cut meanwhile:
   whoever rejoins, and from whatever old replica it joins, it cannot bring the
   entry of a dead instance back (NewAutoForgetDelegate, newRing). *)
THEOREM DeadLeaveTheRing == Spec => []GhostsForgotten
<1>1. Init => GhostInv
  <2> SUFFICES ASSUME Init PROVE GhostInv
    OBVIOUS
  <2>1. TypeInv /\ Up = {}
    BY InitType DEF Init, Up
  <2> QED BY <2>1 DEF GhostInv, GhostsForgotten, Answered
<1>2. GhostInv /\ [Next]_vars => GhostInv'
  BY GhostStep
<1>3. GhostInv => GhostsForgotten
  BY DEF GhostInv
<1> QED BY <1>1, <1>2, <1>3, PTL DEF Spec
-----------------------------------------------------------------------------
(* Settling. *)

\* A process or a replica knows t as the token of k.
Held(k, t) ==
    \/ token[k] = t
    \/ \E n \in Nodes : view[n][k].token = t

TokensOwned ==
    \A k, m \in Nodes : \A t \in Tokens : Held(k, t) /\ Held(m, t) => k = m

(* A token only one instance uses is never given to another one. *)
LEMMA TokensStep ==
    ASSUME TypeInv, TokensOwned, [Next]_vars
    PROVE  TokensOwned'
<1>b. \A n, k \in Nodes : view[n][k] \in Entry
  BY Parts
<1>c. NoToken \notin Tokens
  BY RingAssumption
\* Any step but a start only moves tokens between replicas.
<1>a. ASSUME \A k \in Nodes, t \in Tokens : Held(k, t)' => Held(k, t)
      PROVE  TokensOwned'
  BY <1>a DEF TokensOwned
<1>1. CASE UNCHANGED vars
  BY <1>1, <1>a DEF vars, Held
<1>2. ASSUME NEW s \in cluster, Start(s) PROVE TokensOwned'
  <2>1. s \in Nodes
    BY Parts
  <2>2. PICK new \in Tokens :
          /\ token' = [token EXCEPT ![s] = new]
          /\ view'[s][s] = Registered(new)
          /\ new \in Fresh \/ \E j \in Nodes : view[j][s].token = new
    BY <1>2, <2>1, StartStep
  <2>3. /\ \A n \in Nodes \ {s} : view'[n] = view[n]
        /\ \A m \in Nodes \ {s} :
              \/ view'[s][m] = Nothing
              \/ \E j \in Up : view'[s][m] = view[j][m]
    BY <1>2, <2>1, StartStep
  <2>4. /\ Registered(new).token = new /\ Nothing.token = NoToken
        /\ \A k \in Nodes : token'[k] = IF k = s THEN new ELSE token[k]
    BY <2>1, <2>2 DEF Registered, Nothing, TypeInv, TypeOK
  <2>5. ASSUME NEW k \in Nodes, NEW t \in Tokens, Held(k, t)'
        PROVE  Held(k, t) \/ (k = s /\ t = new)
    BY <1>c, <2>1, <2>2, <2>3, <2>4, <2>5, Parts DEF Held
  <2>6. new \in Fresh => \A k \in Nodes : ~Held(k, new)
    BY DEF Fresh, Held
  <2>7. (\E j \in Nodes : view[j][s].token = new) => Held(s, new)
    BY DEF Held
  <2> QED BY <2>1, <2>2, <2>5, <2>6, <2>7 DEF TokensOwned
<1>3. ASSUME NEW s \in cluster, Serve(s) PROVE TokensOwned'
  BY <1>3, <1>a DEF Serve, Held
<1>4. ASSUME NEW s \in cluster, Exit(s) PROVE TokensOwned'
  <2>1. s \in Nodes
    BY Parts
  <2>2. /\ \A n \in Nodes \ {s} : view'[n] = view[n]
        /\ \A k \in Nodes : view'[s][k].token = NoToken
    BY <1>4, <2>1, ExitStep DEF Nothing
  <2>3. \A k \in Nodes : token'[k] \in {token[k], NoToken}
    BY <1>4, <2>1 DEF Exit, TypeInv, TypeOK
  <2> QED BY <1>a, <1>c, <2>2, <2>3 DEF Held
<1>5. ASSUME NEW s \in cluster, Beat(s) PROVE TokensOwned'
  <2>1. s \in Nodes /\ token' = token
    BY <1>5, Parts DEF Beat
  <2>2. /\ \A n \in Nodes \ {s} : view'[n] = view[n]
        /\ view'[s][s] = Registered(token[s])
        /\ \A k \in Nodes \ {s} : view'[s][k] \in {view[s][k], Tombstone}
    BY <1>5, <2>1, BeatStep
  <2>3. Registered(token[s]).token = token[s] /\ Tombstone.token = NoToken
    BY DEF Registered, Tombstone
  <2> QED BY <1>a, <1>c, <2>1, <2>2, <2>3 DEF Held
<1>6. ASSUME NEW s \in cluster, NEW r \in cluster, Gossip(s, r)
      PROVE  TokensOwned'
  <2>1. s \in Nodes /\ r \in Nodes /\ token' = token
    BY <1>6, Parts DEF Gossip
  <2>2. /\ \A n \in Nodes \ {r} : view'[n] = view[n]
        /\ \A k \in Nodes : view'[r][k] \in {view[r][k], view[s][k]}
    BY <1>6, <2>1, GossipStep
  <2> QED BY <1>a, <2>1, <2>2 DEF Held
<1>7. ASSUME NEW S \in SUBSET cluster, Cut(S) PROVE TokensOwned'
  BY <1>7, <1>a DEF Cut, Held
<1>8. ASSUME Heal PROVE TokensOwned'
  BY <1>8, <1>a DEF Heal, Held
<1>9. ASSUME Tick PROVE TokensOwned'
  <2>1. token' = token /\ \A n, k \in Nodes : view'[n][k] = Older(view[n][k])
    BY <1>9 DEF Tick
  <2>2. \A n, k \in Nodes : view'[n][k].token \in {view[n][k].token, NoToken}
    BY <1>b, <2>1, Parts, OlderEntry, EntryShape
  <2> QED BY <1>a, <1>c, <2>1, <2>2 DEF Held
<1> QED BY <1>1, <1>2, <1>3, <1>4, <1>5, <1>6, <1>7, <1>8, <1>9
        DEF Next, ServeFails, Crash

BeatenFresh == \A i \in beaten : view[i][i].age = 0

\* After a calm period each instance is recent in its group, and what is new in
\* the second one is its own heartbeat.
GroupRecent ==
    calmFor >= 1 =>
        \A i \in Up : \A j \in Group(i) :
            /\ view[i][j].age <= 1
            /\ view[i][j].age = 0 => view[i][j] = Registered(token[j])

GroupKnown ==
    calmFor >= 2 =>
        \A i \in Up : \A j \in Group(i) : /\ view[i][j].state = "ACTIVE"
                                          /\ view[i][j].token = token[j]

StrangersAge ==
    \A i \in Up : \A k \in Members(i) \ Group(i) : view[i][k].age >= calmFor

OldAnswered == calmFor >= 1 => Answered(Forget)

OldForgotten == calmFor >= 2 => NoOlder(Forget + 1)

SettleInv ==
    /\ TypeInv /\ TokensOwned
    /\ BeatenFresh /\ GroupRecent /\ GroupKnown
    /\ StrangersAge /\ OldAnswered /\ OldForgotten

(* A start, an end, a cut or a heal begins a new count of calm periods. *)
LEMMA SettleDisturbed ==
    ASSUME SettleInv, TypeInv', TokensOwned', cluster' = cluster,
           calmFor' = 0, BeatenFresh'
    PROVE  SettleInv'
<1>1. ClusterFits /\ view' \in [Nodes -> [Nodes -> Entry]]
  BY SameCluster DEF SettleInv, TypeInv, TypeOK
<1>2. \A n, k \in Nodes : view'[n][k].age \in Nat
  BY <1>1, EntryShape, Numbers
<1>3. StrangersAge'
  BY <1>2 DEF StrangersAge, Members, Up
<1> QED BY <1>3
        DEF SettleInv, GroupRecent, GroupKnown, OldAnswered, OldForgotten

(* A heartbeat. *)
LEMMA SettleBeat ==
    ASSUME SettleInv, TypeInv', TokensOwned', NEW s \in cluster, Beat(s)
    PROVE  SettleInv'
<1>b. /\ TypeInv
      /\ \A n, k \in Nodes : view[n][k].age \in Nat
      /\ Forget \in Nat /\ Forget >= 1 /\ Up \subseteq Nodes
      /\ calmFor \in Nat
  BY Ages DEF SettleInv, TypeInv, TypeOK
<1>1. /\ s \in Nodes /\ s \in Up /\ Up' = Up /\ beaten' = beaten \cup {s}
      /\ cut' = cut /\ calmFor' = calmFor /\ token' = token
  BY <1>b, Parts DEF Beat, Up
<1>2. /\ \A n \in Nodes \ {s} : view'[n] = view[n]
      /\ view'[s][s] = Registered(token[s])
      /\ \A k \in Nodes \ {s} :
            view'[s][k] = IF Expired(view[s][k]) THEN Tombstone ELSE view[s][k]
  BY <1>b, <1>1, BeatStep
<1>3. /\ Registered(token[s]).age = 0 /\ Registered(token[s]).token = token[s]
      /\ Registered(token[s]).state = "ACTIVE" /\ Tombstone.state = "LEFT"
  BY DEF Registered, Tombstone
<1>4. \A i \in Up : Group(i)' = Group(i) /\ i \in Group(i)
  BY <1>1 DEF Group, Connected
\* The entry of a group member is kept or is the own one, renewed.
<1>5. ASSUME NEW i \in Up, NEW j \in Group(i), calmFor >= 1
      PROVE  view'[i][j] = view[i][j] \/ (view'[i][j] = Registered(token[j]))
  <2>1. view[i][j].age <= 1 /\ j \in Nodes
    BY <1>b, <1>5 DEF SettleInv, GroupRecent, Group
  <2>2. ~Expired(view[i][j])
    BY <1>b, <2>1 DEF Expired
  <2> QED BY <1>b, <1>2, <2>1, <2>2
\* The entry of anybody else is kept or removed.
<1>6. ASSUME NEW i \in Up, NEW k \in Nodes \ Group(i)
      PROVE  view'[i][k] = view[i][k] \/ view'[i][k].state = "LEFT"
  BY <1>b, <1>2, <1>3, <1>4
<1>7. BeatenFresh'
  <2>1. beaten \subseteq Nodes
    BY <1>b DEF TypeInv, TypeOK
  <2> QED BY <1>1, <1>2, <1>3, <2>1 DEF SettleInv, BeatenFresh
<1>8. GroupRecent'
  <2> SUFFICES ASSUME calmFor >= 1, NEW i \in Up, NEW j \in Group(i)
               PROVE  /\ view'[i][j].age <= 1
                      /\ view'[i][j].age = 0 => view'[i][j] = Registered(token[j])
    BY <1>1, <1>4 DEF GroupRecent, Registered
  <2>1. CASE view'[i][j] = view[i][j]
    BY <2>1 DEF SettleInv, GroupRecent
  <2>2. CASE view'[i][j] = Registered(token[j])
    BY <2>2 DEF Registered
  <2> QED BY <1>5, <2>1, <2>2
<1>9. GroupKnown'
  <2> SUFFICES ASSUME calmFor >= 2, NEW i \in Up, NEW j \in Group(i)
               PROVE  view'[i][j].state = "ACTIVE" /\ view'[i][j].token = token[j]
    BY <1>1, <1>4 DEF GroupKnown
  <2>1. CASE view'[i][j] = view[i][j]
    BY <2>1 DEF SettleInv, GroupKnown
  <2>2. CASE view'[i][j] = Registered(token[j])
    BY <2>2 DEF Registered
  <2> QED BY <1>b, <1>5, <2>1, <2>2
<1>10. StrangersAge'
  BY <1>1, <1>4, <1>6 DEF SettleInv, StrangersAge, Members
<1>11. OldAnswered'
  BY <1>b, <1>1, AnsweredBeat DEF SettleInv, OldAnswered
<1>12. OldForgotten'
  BY <1>b, <1>1, NoOlderKept DEF SettleInv, OldForgotten
<1> QED BY <1>7, <1>8, <1>9, <1>10, <1>11, <1>12 DEF SettleInv

(* A message between two of a group. *)
LEMMA SettleGossip ==
    ASSUME SettleInv, TypeInv', TokensOwned',
           NEW s \in cluster, NEW r \in cluster, Gossip(s, r)
    PROVE  SettleInv'
<1>b. /\ TypeInv
      /\ \A n, k \in Nodes : view[n][k].age \in Nat
      /\ Forget \in Nat /\ Up \subseteq Nodes /\ calmFor \in Nat
  BY Ages DEF SettleInv, TypeInv, TypeOK
<1>1. /\ s \in Up /\ r \in Up /\ s # r /\ Connected(s, r)
      /\ Up' = Up /\ cut' = cut /\ beaten' = beaten
      /\ calmFor' = calmFor /\ token' = token
  BY DEF Gossip, Up
<1>2. /\ \A n \in Nodes \ {r} : view'[n] = view[n]
      /\ \A m \in Nodes :
            view'[r][m] = IF Fresher(view[s][m], view[r][m])
                          THEN view[s][m] ELSE view[r][m]
  BY <1>b, <1>1, GossipStep
<1>3. \A i \in Up : Group(i)' = Group(i)
  BY <1>1 DEF Group, Connected
<1>4. Group(s) = Group(r)
  BY <1>1 DEF Group, Connected
\* Whose entry it was.
<1>5. \A i \in Up, k \in Nodes :
         \E o \in Up : Group(o) = Group(i) /\ view'[i][k] = view[o][k]
  BY <1>b, <1>1, <1>2, <1>4
<1>6. BeatenFresh'
  <2>1. beaten \subseteq Nodes
    BY <1>b DEF TypeInv, TypeOK
  <2>2. \A i \in beaten : view'[i][i].age = 0
    BY <1>b, <1>1, <1>2, <2>1 DEF SettleInv, BeatenFresh, Fresher
  <2> QED BY <1>1, <2>2 DEF BeatenFresh
<1>7. Group(s) \subseteq Nodes /\ \A i \in Up : Group(i) \subseteq Nodes
  BY <1>b, <1>1 DEF Group
<1>8. GroupRecent'
  <2> SUFFICES ASSUME calmFor >= 1, NEW i \in Up, NEW j \in Group(i)
               PROVE  /\ view'[i][j].age <= 1
                      /\ view'[i][j].age = 0 => view'[i][j] = Registered(token[j])
    BY <1>1, <1>3 DEF GroupRecent, Registered
  <2> QED BY <1>5, <1>7 DEF SettleInv, GroupRecent
<1>9. GroupKnown'
  <2> SUFFICES ASSUME calmFor >= 2, NEW i \in Up, NEW j \in Group(i)
               PROVE  view'[i][j].state = "ACTIVE" /\ view'[i][j].token = token[j]
    BY <1>1, <1>3 DEF GroupKnown
  <2> QED BY <1>5, <1>7 DEF SettleInv, GroupKnown
<1>10. StrangersAge'
  <2> SUFFICES ASSUME NEW i \in Up, NEW k \in Nodes \ Group(i),
                      view'[i][k].state = "ACTIVE"
               PROVE  view'[i][k].age >= calmFor
    BY <1>1, <1>3 DEF StrangersAge, Members
  <2> QED BY <1>5 DEF SettleInv, StrangersAge, Members
<1>11. OldAnswered'
  BY <1>b, <1>1, AnsweredGossip DEF SettleInv, OldAnswered
<1>12. OldForgotten'
  BY <1>b, <1>1, NoOlderKept DEF SettleInv, OldForgotten
<1> QED BY <1>6, <1>8, <1>9, <1>10, <1>11, <1>12 DEF SettleInv

(* The end of a calm period. *)
LEMMA SettleTick ==
    ASSUME SettleInv, TypeInv', TokensOwned', Tick
    PROVE  SettleInv'
<1>b. /\ TypeInv /\ ClusterFits
      /\ \A n, k \in Nodes : view[n][k].age \in Nat /\ view[n][k] \in Entry
      /\ Forget \in Nat /\ Forget >= 1 /\ Up \subseteq Nodes
      /\ calmFor \in Nat /\ AgeMax \in Nat
      /\ AgeMax >= Settle /\ AgeMax > 2 /\ Settle \in Nat
  BY Ages, Numbers DEF SettleInv, TypeInv, TypeOK, AgeMax, Settle
<1>1. /\ Up' = Up /\ cut' = cut /\ beaten' = {} /\ token' = token
      /\ Up \subseteq beaten /\ Delivered
      /\ calmFor' = IF calmFor < Settle THEN calmFor + 1 ELSE calmFor
      /\ \A n, k \in Nodes : view'[n][k] = Older(view[n][k])
  BY DEF Tick, Up
<1>2. \A i \in Up : Group(i)' = Group(i) /\ Group(i) \subseteq Nodes
  BY <1>b, <1>1 DEF Group, Connected
<1>3. ASSUME NEW i \in Up, NEW j \in Group(i)
      PROVE  view[i][j].age = 0
  <2>1. j \in Up /\ Connected(i, j) /\ j \in Nodes /\ i \in Nodes
    BY <1>b DEF Group
  <2>2. view[j][j].age = 0
    BY <1>1, <2>1 DEF SettleInv, BeatenFresh
  <2>3. Merge(view[i], view[j]) = view[i]
    BY <1>1, <2>1 DEF Delivered, Connected
  <2>4. MergeEntry(view[i][j], view[j][j]) = view[i][j]
    BY <2>1, <2>3 DEF Merge
  <2> QED BY <1>b, <2>1, <2>2, <2>4 DEF MergeEntry
<1>4. ASSUME NEW i \in Up, NEW j \in Group(i)
      PROVE  view'[i][j] = [view[i][j] EXCEPT !.age = 1]
  <2>1. Older(view[i][j]) = [view[i][j] EXCEPT !.age = 1]
    BY <1>b, <1>3 DEF Older
  <2>2. view'[i][j] = Older(view[i][j])
    BY <1>b, <1>1, <1>2
  <2> QED BY <2>1, <2>2
<1>5. \A i \in Up : \A j \in Group(i) :
         /\ view'[i][j].age = 1
         /\ view'[i][j].state = view[i][j].state
         /\ view'[i][j].token = view[i][j].token
  <2> SUFFICES ASSUME NEW i \in Up, NEW j \in Group(i)
               PROVE  /\ view'[i][j].age = 1
                      /\ view'[i][j].state = view[i][j].state
                      /\ view'[i][j].token = view[i][j].token
    OBVIOUS
  <2>1. view[i][j] = [state |-> view[i][j].state, age |-> view[i][j].age,
                      token |-> view[i][j].token]
    BY <1>b, <1>2, EntryShape
  <2>2. view'[i][j] = [view[i][j] EXCEPT !.age = 1]
    BY <1>4
  <2> QED BY ONLY <2>1, <2>2
<1>6. BeatenFresh'
  BY <1>1 DEF BeatenFresh
<1>7. GroupRecent'
  BY <1>1, <1>2, <1>5 DEF GroupRecent
<1>8. GroupKnown'
  <2> SUFFICES ASSUME calmFor' >= 2, NEW i \in Up, NEW j \in Group(i)
               PROVE  view[i][j].state = "ACTIVE" /\ view[i][j].token = token[j]
    BY <1>1, <1>2, <1>5 DEF GroupKnown
  <2>1. calmFor >= 1
    BY <1>b, <1>1
  <2>2. view[i][j] = Registered(token[j])
    BY <1>3, <2>1 DEF SettleInv, GroupRecent
  <2> QED BY <2>2 DEF Registered
<1>9. StrangersAge'
  <2> SUFFICES ASSUME NEW i \in Up, NEW k \in Nodes \ Group(i),
                      view'[i][k].state = "ACTIVE"
               PROVE  view'[i][k].age >= calmFor'
    BY <1>1, <1>2 DEF StrangersAge, Members
  <2>1. /\ view'[i][k] = Older(view[i][k]) /\ view[i][k].age \in Nat
        /\ view[i][k] \in Entry
    BY <1>b, <1>1
  <2>2. view[i][k].state = "ACTIVE"
    BY <1>b, <2>1, OlderEntry
  <2>3. view[i][k].age >= calmFor
    BY <2>2 DEF SettleInv, StrangersAge, Members
  <2>4. view'[i][k].age = IF view[i][k].age + 1 < AgeMax
                          THEN view[i][k].age + 1 ELSE AgeMax
    <3>1. view[i][k] = [state |-> view[i][k].state, age |-> view[i][k].age,
                        token |-> view[i][k].token]
      BY <1>b, <2>1, EntryShape
    <3> QED BY <2>1, <2>2, <3>1 DEF Older
  <2>5. calmFor' <= calmFor + 1 /\ calmFor' <= Settle
    BY <1>b, <1>1 DEF SettleInv, TypeInv, TypeOK
  <2>6. calmFor' \in Nat
    BY <1>b, <1>1
  <2> QED BY <1>b, <2>1, <2>3, <2>4, <2>5, <2>6
<1>10. OldAnswered'
  BY <1>b, AnsweredTick DEF OldAnswered
<1>11. OldForgotten'
  <2> SUFFICES ASSUME calmFor' >= 2 PROVE NoOlder(Forget + 1)'
    BY DEF OldForgotten
  <2>1. calmFor >= 1
    BY <1>b, <1>1
  <2>2. NoOlder(Forget)
    BY <1>b, <1>1, <2>1, NoneOverdue DEF SettleInv, OldAnswered
  <2> QED BY <1>b, <2>2, NoOlderTick
<1> QED BY <1>6, <1>7, <1>8, <1>9, <1>10, <1>11 DEF SettleInv

(* Every step keeps the invariant. *)
LEMMA SettleStep ==
    ASSUME SettleInv, [Next]_vars
    PROVE  SettleInv'
<1>a. /\ TypeInv /\ TypeInv' /\ TokensOwned'
      /\ beaten \subseteq Up /\ Up \subseteq Nodes /\ cluster \subseteq Nodes
  BY TypeStep, TokensStep DEF SettleInv, TypeInv, TypeOK, Up
<1>b. BeatenFresh
  BY DEF SettleInv
<1>1. CASE UNCHANGED vars
  BY <1>1, <1>a
  DEF vars, SettleInv, BeatenFresh, GroupRecent, GroupKnown, StrangersAge,
      OldAnswered, OldForgotten, Answered, Answers, Connected, NoOlder,
      Members, Up, Group
<1>2. ASSUME NEW s \in cluster, Start(s) PROVE SettleInv'
  <2>1. PICK t \in Tokens : view'[s][s] = Registered(t)
    BY <1>2, <1>a, StartStep
  <2>2. view'[s][s].age = 0
    BY <2>1 DEF Registered
  <2>3. BeatenFresh'
    BY <1>2, <1>a, <1>b, <2>2, StartStep DEF Start, BeatenFresh
  <2> QED BY <1>2, <1>a, <2>3, SettleDisturbed DEF Start
<1>3. ASSUME NEW s \in cluster, Serve(s) PROVE SettleInv'
  <2>1. Up' = Up
    BY <1>3, <1>a DEF Serve, Up, TypeInv, TypeOK
  <2> QED BY <1>3, <1>a, <2>1
          DEF Serve, SettleInv, BeatenFresh, GroupRecent, GroupKnown,
              StrangersAge, OldAnswered, OldForgotten, Answered, Answers,
              Connected, NoOlder, Members, Group
<1>4. ASSUME NEW s \in cluster, Exit(s) PROVE SettleInv'
  <2>1. BeatenFresh'
    BY <1>4, <1>a, <1>b, ExitStep DEF Exit, BeatenFresh
  <2> QED BY <1>4, <1>a, <2>1, SettleDisturbed DEF Exit
<1>5. ASSUME NEW s \in cluster, Beat(s) PROVE SettleInv'
  BY <1>5, <1>a, SettleBeat
<1>6. ASSUME NEW s \in cluster, NEW r \in cluster, Gossip(s, r)
      PROVE  SettleInv'
  BY <1>6, <1>a, SettleGossip
<1>7. ASSUME NEW S \in SUBSET cluster, Cut(S) PROVE SettleInv'
  BY <1>7, <1>a, <1>b, SettleDisturbed DEF Cut, BeatenFresh
<1>8. ASSUME Heal PROVE SettleInv'
  BY <1>8, <1>a, <1>b, SettleDisturbed DEF Heal, BeatenFresh
<1>9. ASSUME Tick PROVE SettleInv'
  BY <1>9, <1>a, SettleTick
<1> QED BY <1>1, <1>2, <1>3, <1>4, <1>5, <1>6, <1>7, <1>8, <1>9
        DEF Next, ServeFails, Crash

(* Any set of numbers has a least one. *)
LEMMA LeastNumber ==
    ASSUME NEW T \in SUBSET Nat, T # {}
    PROVE  \E x \in T : \A y \in T : x <= y
<1> DEFINE R == OpToRel(<, Nat)
<1>1. IsWellFoundedOn(R, Nat)
  BY NatLessThanWellFounded
<1>2. \A x, y \in Nat : x < y => <<x, y>> \in R
  BY DEF OpToRel
<1> HIDE DEF R
<1>3. PICK x \in T : \A y \in T : ~(<<y, x>> \in R)
  BY <1>1, WFMin
<1>4. \A y \in T : ~(y < x)
  BY <1>2, <1>3, Zenon
<1> QED BY <1>4

(* A settled replica holds the own group, each with the token it has. *)
LEMMA SettledReplica ==
    ASSUME SettleInv, calmFor = Settle, NEW i \in Up
    PROVE  /\ Members(i) = Group(i)
           /\ \A k \in Group(i) : /\ view[i][k].token = token[k]
                                  /\ view[i][k].age <= 1
<1>1. /\ Forget \in Nat /\ calmFor = Forget + 2 /\ Up \subseteq Nodes
      /\ \A n, k \in Nodes : view[n][k].age \in Nat
  BY Ages DEF SettleInv, Settle
<1>2. ASSUME NEW k \in Group(i)
      PROVE  /\ view[i][k].state = "ACTIVE" /\ view[i][k].token = token[k]
             /\ view[i][k].age <= 1 /\ k \in Nodes
  <2>1. calmFor >= 1 /\ calmFor >= 2
    BY <1>1
  <2> QED BY <1>1, <2>1 DEF SettleInv, GroupRecent, GroupKnown, Group
<1>3. ASSUME NEW k \in Members(i) \ Group(i)
      PROVE  FALSE
  <2>1. view[i][k].age >= Forget + 2
    BY <1>1 DEF SettleInv, StrangersAge
  <2>2. view[i][k].age <= Forget + 1
    BY <1>1 DEF SettleInv, OldForgotten, NoOlder
  <2> QED BY <1>1, <2>1, <2>2 DEF Members
<1> QED BY <1>2, <1>3 DEF Members

(* A settled group has one leader. *)
LEMMA SettledGroup ==
    ASSUME SettleInv, calmFor = Settle, NEW i \in Up
    PROVE  Led(i)
<1> DEFINE G == Group(i)
<1>1. /\ i \in G /\ \A j \in G : j \in Up /\ Group(j) = G
      /\ G \subseteq Nodes
  BY DEF Group, Connected, Up
<1>2. ASSUME NEW j \in G
      PROVE  /\ Members(j) = G
             /\ \A k \in G : view[j][k].token = token[k] /\ view[j][k].age <= 1
                             /\ view[j][k].age \in Nat
  <2>1. /\ Members(j) = Group(j)
        /\ \A k \in Group(j) : /\ view[j][k].token = token[k]
                               /\ view[j][k].age <= 1
    BY <1>1, SettledReplica
  <2>2. \A n, k \in Nodes : view[n][k].age \in Nat
    BY Ages DEF SettleInv
  <2> QED BY <1>1, <2>1, <2>2
<1>3. \A k \in G : token[k] \in Tokens /\ token[k] \in Nat
  BY <1>1, Parts, RingAssumption DEF SettleInv
<1>4. \A k, m \in G : token[k] = token[m] => k = m
  <2>1. \A k \in G : Held(k, token[k])
    BY DEF Held
  <2> QED BY <1>1, <1>3, <2>1 DEF SettleInv, TokensOwned
<1>5. PICK l \in G : \A m \in G : token[l] <= token[m]
  <2> DEFINE T == {token[k] : k \in G}
  <2>1. T \in SUBSET Nat /\ T # {}
    BY <1>1, <1>3
  <2> HIDE DEF T
  <2>2. PICK x \in T : \A y \in T : x <= y
    BY <2>1, LeastNumber
  <2> QED BY <2>2 DEF T
<1> HIDE DEF G
<1>6. ASSUME NEW j \in G, NEW timeout \in Timeouts
      PROVE  ringLeader(j, timeout) = {l}
  <2>1. timeout \in Nat /\ timeout >= 1
    BY RingAssumption
  <2>2. Owners(j) = {k \in G : \A m \in G : token[k] <= token[m]}
    BY <1>2 DEF Owners
  <2>3. \A k \in G : (\A m \in G : token[k] <= token[m]) => k = l
    BY <1>3, <1>4, <1>5
  <2>4. Owners(j) = {l}
    BY <1>5, <2>2, <2>3
  <2>5. view[j][l].age <= timeout
    BY <1>2, <2>1
  <2> QED BY <2>4, <2>5 DEF ringLeader
<1>7. \A timeout \in Timeouts :
        /\ Role(l, timeout) = "leader"
        /\ \A j \in G \ {l} : Role(j, timeout) = "follower"
  BY <1>6 DEF Role, isLeader
<1> QED BY <1>5, <1>7 DEF Led, G

(* Whatever happened before, Forget + 2 quiet heartbeat periods leave every
   group of instances that can talk with exactly one leader in the role metric
   and everybody else a follower of it: for any number of instances, tokens and
   faults, and any heartbeat timeout of at least one period (isLeader, Collect
   of nodeRoleCollector). *)
THEOREM OneLeaderInTheEnd == Spec => []SettledRing
<1>1. Init => SettleInv
  <2> SUFFICES ASSUME Init PROVE SettleInv
    OBVIOUS
  <2>1. TypeInv /\ Up = {} /\ beaten = {} /\ calmFor = 0
    BY InitType DEF Init, Up
  <2>2. \A k \in Nodes, t \in Tokens : ~Held(k, t)
    BY RingAssumption DEF Init, Held, Nothing
  <2> QED BY <2>1, <2>2
          DEF SettleInv, TokensOwned, BeatenFresh, GroupRecent, GroupKnown,
              StrangersAge, OldAnswered, OldForgotten
<1>2. SettleInv /\ [Next]_vars => SettleInv'
  BY SettleStep
<1>3. SettleInv => SettledRing
  BY SettledGroup DEF SettledRing
<1> QED BY <1>1, <1>2, <1>3, PTL DEF Spec
=============================================================================
