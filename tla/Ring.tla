-------------------------------- MODULE Ring --------------------------------
(***************************************************************************)
(* The ring the instances of the exporter form (ring.go), and the role     *)
(* each of them reports in foreman_exporter_node_role.  An instance that   *)
(* starts registers itself with one token; the owner of the lowest token   *)
(* is the leader.  The ring is a memberlist value: every process has its   *)
(* own replica, writes its own heartbeat into it, removes the entries of   *)
(* instances that stopped heartbeating, and gossips.  Lifecycler, ring     *)
(* client and memberlist (grafana/dskit) are external and modelled from    *)
(* the settings and delegates ring.go gives them.                          *)
(*                                                                         *)
(* A Tick is one --ring.heartbeat-period; ages are counted in ticks.       *)
(***************************************************************************)
EXTENDS Integers, FiniteSets

CONSTANTS
    Nodes,         \* the instances, with their configured --ring.instance-id
    Tokens,        \* the tokens to draw from
    Forget,        \* ringAutoForgetUnhealthyPeriods
    Timeouts,      \* values of the ring client's heartbeat timeout to look at
    MaxFaults,     \* bound on crashes and partitions, by size of the cluster
    NoToken

VARIABLES
    cluster,       \* the instances that take part; fixed
    proc,          \* proc[i]: the process of i
    token,         \* token[i]: the token its lifecycler keeps in memory
    view,          \* view[i][k]: what i's replica says about k
    beaten,        \* who has heartbeated since the last tick
    cut,           \* one side of a partition of the network, {} for none
    faults,        \* crashes and partitions so far
    calmFor        \* ghost: ticks since the last start, stop or cut

vars == <<cluster, proc, token, view, beaten, cut, faults, calmFor>>

ASSUME RingAssumption ==
    /\ Tokens \subseteq Nat /\ NoToken \notin Tokens
    /\ Forget \in Nat \ {0}
    /\ MaxFaults \in [DOMAIN MaxFaults -> Nat]
    /\ Timeouts \subseteq Nat \ {0}

-----------------------------------------------------------------------------
(* Replicas of the ring. *)

Bound == MaxFaults[Cardinality(cluster)]

\* Ages from here on are not told apart.
AgeMax == Forget + 2 + Bound

Nothing == [state |-> "none", age |-> AgeMax, token |-> NoToken]
Entry == [state: {"ACTIVE"}, age: 0..AgeMax, token: Tokens]
         \cup [state: {"LEFT"}, age: 0..AgeMax, token: {NoToken}]
         \cup {Nothing}
Tombstone == [state |-> "LEFT", age |-> 0, token |-> NoToken]
Registered(t) == [state |-> "ACTIVE", age |-> 0, token |-> t]

\* Desc.Merge for one instance: the later timestamp wins, and LEFT a tie.
MergeEntry(mine, theirs) ==
    IF \/ theirs.age < mine.age
       \/ theirs.age = mine.age /\ theirs.state = "LEFT"
    THEN theirs ELSE mine

Merge(mine, theirs) == [k \in Nodes |-> MergeEntry(mine[k], theirs[k])]

\* An old tombstone is dropped in the end.
Older(e) ==
    IF e.age + 1 < AgeMax THEN [e EXCEPT !.age = e.age + 1]
    ELSE IF e.state = "ACTIVE" THEN [e EXCEPT !.age = AgeMax]
    ELSE Nothing

Up == {i \in Nodes : proc[i] # "down"}

Connected(i, j) == (i \in cut) = (j \in cut)

-----------------------------------------------------------------------------
(* Who leads, and the role metric. *)

Members(i) == {k \in Nodes : view[i][k].state = "ACTIVE"}

\* Who owns leaderToken in i's replica: no token is 0, so the lowest.
Owners(i) ==
    {k \in Members(i) : \A m \in Members(i) :
                            view[i][k].token <= view[i][m].token}

\* ringLeader: an error, {}, when the owner looks unhealthy or there is none.
ringLeader(i, timeout) == {k \in Owners(i) : view[i][k].age <= timeout}

isLeader(i, timeout) == i \in ringLeader(i, timeout)

\* nodeRoleCollector.
Role(i, timeout) ==
    CASE ringLeader(i, timeout) = {} -> "unknown"
      [] isLeader(i, timeout) -> "leader"
      [] OTHER -> "follower"

-----------------------------------------------------------------------------
Init ==
    /\ cluster \in {S \in SUBSET Nodes : Cardinality(S) \in DOMAIN MaxFaults}
    /\ proc = [i \in Nodes |-> "down"]
    /\ token = [i \in Nodes |-> NoToken]
    /\ view = [i \in Nodes |-> [k \in Nodes |-> Nothing]]
    /\ beaten = {} /\ cut = {}
    /\ faults = 0 /\ calmFor = 0

\* A random token, of those no replica and no process knows.
Fresh ==
    Tokens \ ({token[i] : i \in Nodes}
              \cup {view[i][k].token : i \in Nodes, k \in Nodes})

\* Mutant of Kept: the entry is not looked for.
MutKeptBlind(own) == {own.token}

\* An instance the ring still knows keeps the token it had.
Kept(own) == IF own.state = "ACTIVE" THEN {own.token} ELSE {}

\* newRing: join the members that answer, if any does, and register.  For each
\* instance the latest entry counts; a replica that is down says nothing.  The
\* write is retried until it is later than the tombstone it replaces.  A start
\* that fails before it has registered leaves no trace.
Start(i) ==
    /\ proc[i] = "down"
    /\ \E peers \in SUBSET {j \in Up : Connected(i, j)} :
         \E from \in [Nodes -> peers \cup {i}] :
            LET joined == [k \in Nodes |-> view[from[k]][k]]
            IN /\ \A j \in peers : Merge(joined, view[j]) = joined
               /\ joined[i] # Tombstone
               /\ \E t \in (IF Kept(joined[i]) = {} THEN Fresh
                            ELSE Kept(joined[i])) :
                    /\ token' = [token EXCEPT ![i] = t]
                    /\ view' = [view EXCEPT ![i] =
                                   [joined EXCEPT ![i] = Registered(t)]]
    /\ proc' = [proc EXCEPT ![i] = "registered"]
    /\ beaten' = beaten \cup {i}
    /\ calmFor' = 0
    /\ UNCHANGED <<cluster, cut, faults>>

\* The rest of main, up to the web server that listens.
Serve(i) ==
    /\ proc[i] = "registered"
    /\ proc' = [proc EXCEPT ![i] = "serving"]
    /\ UNCHANGED <<cluster, token, view, beaten, cut, faults, calmFor>>

\* A process ends without leaving the ring: os.Exit and a signal run none of
\* the deferred stops.
Exit(i) ==
    /\ faults < Bound
    /\ proc' = [proc EXCEPT ![i] = "down"]
    /\ token' = [token EXCEPT ![i] = NoToken]
    /\ view' = [view EXCEPT ![i] = [k \in Nodes |-> Nothing]]
    /\ beaten' = beaten \ {i}
    /\ faults' = faults + 1
    /\ calmFor' = 0
    /\ UNCHANGED <<cluster, cut>>

\* The ring client or the web server fails after the instance has registered.
ServeFails(i) == proc[i] = "registered" /\ Exit(i)

Crash(i) == proc[i] = "serving" /\ Exit(i)

\* Mutant of Expired: nobody is forgotten.
MutExpiredNever(e) == FALSE

Expired(e) == e.state = "ACTIVE" /\ e.age > Forget

\* Mutant of Heartbeat: an instance found removed stays out.
MutHeartbeatOut(i) ==
    IF view[i][i].state = "ACTIVE" THEN Registered(token[i]) ELSE view[i][i]

\* The own entry, inserted again when somebody removed it.
Heartbeat(i) == Registered(token[i])

\* One heartbeat of the lifecycler, auto-forget first.
Beat(i) ==
    /\ i \in Up \ beaten
    /\ view' = [view EXCEPT ![i] = [k \in Nodes |->
                    IF k = i THEN Heartbeat(i)
                    ELSE IF Expired(view[i][k]) THEN Tombstone
                    ELSE view[i][k]]]
    /\ beaten' = beaten \cup {i}
    /\ UNCHANGED <<cluster, proc, token, cut, faults, calmFor>>

\* j hears what i knows.
Gossip(i, j) ==
    /\ i \in Up /\ j \in Up \ {i}
    /\ Connected(i, j)
    /\ view' = [view EXCEPT ![j] = Merge(@, view[i])]
    /\ UNCHANGED <<cluster, proc, token, beaten, cut, faults, calmFor>>

\* The network splits in two, and comes together again.
Cut(S) ==
    /\ cut = {} /\ faults < Bound
    /\ cut' = S
    /\ faults' = faults + 1 /\ calmFor' = 0
    /\ UNCHANGED <<cluster, proc, token, view, beaten>>

Heal ==
    /\ cut # {}
    /\ cut' = {} /\ calmFor' = 0
    /\ UNCHANGED <<cluster, proc, token, view, beaten, faults>>

\* Gossip has reached every connected instance: it has nothing left to learn.
Delivered ==
    \A i, j \in Up : Connected(i, j) => Merge(view[j], view[i]) = view[j]

\* Calm from here on is not told apart.
Settle == Forget + 2

\* Every process heartbeats in every period, and is done starting up; what it
\* says spreads within the period.
Tick ==
    /\ Up \subseteq beaten
    /\ \A i \in Nodes : proc[i] # "registered"
    /\ Delivered
    /\ view' = [i \in Nodes |-> [k \in Nodes |-> Older(view[i][k])]]
    /\ beaten' = {}
    /\ calmFor' = IF calmFor < Settle THEN calmFor + 1 ELSE calmFor
    /\ UNCHANGED <<cluster, proc, token, cut, faults>>

Next ==
    \/ \E i \in cluster :
        \/ Start(i) \/ Serve(i) \/ ServeFails(i) \/ Crash(i)
        \/ Beat(i)
    \/ \E i, j \in cluster : Gossip(i, j)
    \/ \E S \in (SUBSET cluster) \ {{}, cluster} : Cut(S)
    \/ Heal
    \/ Tick

Spec == Init /\ [][Next]_vars

-----------------------------------------------------------------------------
(* Properties. *)

TypeOK ==
    /\ cluster \subseteq Nodes
    /\ proc \in [Nodes -> {"down", "registered", "serving"}]
    /\ token \in [Nodes -> Tokens \cup {NoToken}]
    /\ Up = {i \in Nodes : token[i] # NoToken}
    /\ view \in [Nodes -> [Nodes -> Entry]]
    /\ beaten \subseteq Up /\ cut \subseteq Nodes
    /\ faults \in 0..Bound /\ calmFor \in 0..Settle

\* The running instances i can talk to, itself included.
Group(i) == {j \in Up : Connected(i, j)}

\* One of them reports to be the leader and all others to follow.
Led(i) ==
    \A timeout \in Timeouts : \E l \in Group(i) :
        /\ Role(l, timeout) = "leader"
        /\ \A j \in Group(i) \ {l} : Role(j, timeout) = "follower"

(* Forget + 2 heartbeat periods after the last start, crash, cut or heal
   at the latest, each group of instances that can talk to each other has
   exactly one leader and the role metric of every other says follower: no
   dead leader, no half-started one and no removed entry of a running instance
   is still in the way (isLeader, Collect of nodeRoleCollector). *)
SettledRing == calmFor = Settle => \A i \in Up : Led(i)

(* A dead instance is out of every running replica one period after the
   auto-forget period, however others start, crash or rejoin meanwhile: nobody
   brings its entry back.  A replica that has just started may take the entry
   over from one that dies, or is cut off, before it forgets: each crash or cut
   delays by one period at most (NewAutoForgetDelegate). *)
GhostsForgotten ==
    \A i \in Up : \A k \in Members(i) : view[i][k].age <= Forget + 1 + faults
=============================================================================
