---------------------------- MODULE RetryProofs ----------------------------
(***************************************************************************)
(* Proofs about the retrying client and its token bucket, for any number   *)
(* of slots, any settings and any answers of Foreman.                      *)
(***************************************************************************)
EXTENDS Retry, FiniteSetTheorems, TLAPS

(* What NewHTTPClient is configured with, and the bucket it makes of it: deep
   enough for a token when there is a limit. *)
LEMMA Settings ==
    ASSUME conf \in Configs
    PROVE  /\ conf.every \in Nat /\ conf.burst \in Int /\ conf.retryMax \in Int
           /\ conf.retryMaxWait \in 0..MaxInt
           /\ Depth \in Nat
           /\ Limited => conf.every >= 1 /\ Depth >= conf.every
<1>1. /\ conf.every \in Nat /\ conf.burst \in Int /\ conf.retryMax \in Int
      /\ conf.retryMaxWait \in 0..MaxInt
  BY RetryAssumption DEF Config
<1>2. CASE Limited
  <2>1. conf.every >= 1
    BY <1>1, <1>2 DEF Limited
  <2>2. Second \div conf.every \in Int
    BY <1>1, <2>1, RetryAssumption
  <2>3. resolveBurst \in Nat /\ resolveBurst >= 1
    BY <1>1, <2>2 DEF resolveBurst, Greater
  <2>4. \A b, e \in Nat : b >= 1 => b * e \in Nat /\ b * e >= e
    OBVIOUS
  <2> QED BY <1>1, <1>2, <2>1, <2>3, <2>4 DEF Depth
<1> QED BY <1>1, <1>2 DEF Depth

-----------------------------------------------------------------------------
(* How long to wait. *)

(* Wrapping never leaves the durations. *)
LEMMA WrapType ==
    ASSUME NEW x \in Int
    PROVE  Wrap(x) \in Int /\ Wrap(x) <= MaxInt
<1>1. MaxInt \in Nat
  BY RetryAssumption
<1> DEFINE m == 2 * (MaxInt + 1)
           y == x + MaxInt + 1
<1>2. m \in Nat /\ m > 0 /\ y \in Int
  BY <1>1
<1>3. \A a \in Int, b \in Nat : b > 0 => a % b \in 0..(b - 1)
  OBVIOUS
<1>4. y % m \in 0..(m - 1)
  BY <1>2, <1>3
<1> QED BY <1>1, <1>4 DEF Wrap

(* What parseRetryAfter and the library find in a header is a duration; the
   library finds more only in a date of another zone, and that date then. *)
LEMMA ParsedDelay ==
    ASSUME NEW resp \in Responses
    PROVE  LET h == resp.retryAfter
               p == parseRetryAfter(h)
               q == parseRetryAfterHeader(h)
               zoned == h # NoHeader /\ h.form = "zoned"
           IN /\ p.ok \in BOOLEAN /\ p.sleep \in Int
              /\ ~zoned => q = p
              /\ zoned => /\ ~p.ok /\ q.ok /\ q.sleep = Until(h.value)
                          /\ Until(h.value) \in Nat
<1> DEFINE h == resp.retryAfter
<1>0. MaxInt \in Nat /\ Second \in Nat
  BY RetryAssumption
<1>1. h \in [form: {"seconds", "date", "zoned"}, value: Int]
              \cup {[form |-> "text"], NoHeader}
  BY RetryAssumption DEF Response
<1> HIDE DEF h
<1>2. CASE h = NoHeader \/ h.form = "text"
  <2>1. parseRetryAfter(h) = NoDelay /\ parseRetryAfterHeader(h) = NoDelay
    BY <1>2 DEF parseRetryAfter, parseRetryAfterHeader
  <2> QED BY <1>2, <2>1 DEF h, NoDelay
<1>3. ASSUME h # NoHeader, h.form \in {"date", "zoned"}
      PROVE  h.value \in Int /\ Until(h.value) \in Nat
  <2>1. h.value \in Int
    BY <1>1, <1>3
  <2> QED BY <1>0, <2>1 DEF Until, Lesser, Greater
<1>4. CASE h # NoHeader /\ h.form = "date"
  <2>1. /\ parseRetryAfter(h) = [ok |-> TRUE, sleep |-> Until(h.value)]
        /\ parseRetryAfterHeader(h) = parseRetryAfter(h)
    BY <1>4 DEF parseRetryAfter, parseRetryAfterHeader
  <2> QED BY <1>3, <1>4, <2>1 DEF h
<1>5. CASE h # NoHeader /\ h.form = "zoned"
  <2>1. /\ parseRetryAfter(h) = NoDelay
        /\ parseRetryAfterHeader(h) = [ok |-> TRUE, sleep |-> Until(h.value)]
    BY <1>5 DEF parseRetryAfter, parseRetryAfterHeader
  <2> QED BY <1>3, <1>5, <2>1 DEF h, NoDelay
<1>6. CASE h # NoHeader /\ h.form = "seconds"
  <2>1. h.value * Second \in Int
    BY <1>0, <1>1, <1>6
  <2>2. Wrap(h.value * Second) \in Int
    BY <2>1, WrapType
  <2>3. /\ parseRetryAfter(h) =
              IF h.value < 0 \/ h.value > MaxInt THEN NoDelay
              ELSE [ok |-> TRUE, sleep |-> Wrap(h.value * Second)]
        /\ parseRetryAfterHeader(h) = parseRetryAfter(h)
    BY <1>6 DEF parseRetryAfter, parseRetryAfterHeader
  <2> QED BY <1>6, <2>2, <2>3 DEF h, NoDelay
<1> QED BY <1>1, <1>2, <1>4, <1>5, <1>6 DEF h

(* A backoff is no longer than the caps, or than what Foreman asks for in a
   header that only the library reads. *)
LEMMA BackoffWindow ==
    ASSUME conf \in Configs, NEW resp \in Responses, NEW n \in Nat
    PROVE  LET sleep == Greater(retryAfterBackoff(n, resp), 0)
           IN /\ sleep \in Nat /\ Foreign(resp) \in Nat
              /\ conf.retryMaxWait > 0 =>
                    sleep <= Greater(conf.retryMaxWait, RetryWaitMax)
                                + Foreign(resp)
<1> DEFINE h == resp.retryAfter
           p == parseRetryAfter(h)
           q == parseRetryAfterHeader(h)
           zoned == h # NoHeader /\ h.form = "zoned"
           d == DefaultBackoff(n, resp)
           doubled == RetryWaitMin * 2^n
           exp == IF doubled \in 0..RetryWaitMax THEN doubled ELSE RetryWaitMax
<1>1. conf.retryMaxWait \in Nat /\ RetryWaitMax \in Nat
  BY Settings, RetryAssumption
<1>2. exp \in Nat /\ exp <= RetryWaitMax
  BY <1>1
<1>3. /\ p.ok \in BOOLEAN /\ p.sleep \in Int
      /\ ~zoned => q = p
      /\ zoned => /\ ~p.ok /\ q.ok /\ q.sleep = Until(h.value)
                  /\ Until(h.value) \in Nat
  BY ParsedDelay
<1>4. d = IF Throttled(resp) /\ q.ok THEN q.sleep ELSE exp
  BY DEF DefaultBackoff
<1>5. Foreign(resp) = IF Throttled(resp) /\ zoned THEN Until(h.value) ELSE 0
  BY DEF Foreign
<1>6. retryAfterBackoff(n, resp) =
          IF Throttled(resp) /\ p.ok THEN Capped(p.sleep) ELSE d
  BY DEF retryAfterBackoff
<1>7. /\ Capped(p.sleep) \in Int
      /\ conf.retryMaxWait > 0 => Capped(p.sleep) <= conf.retryMaxWait
  BY <1>1, <1>3 DEF Capped
<1> HIDE DEF h, p, q, zoned, d, exp
<1>8. CASE Throttled(resp) /\ p.ok
  <2>1. ~zoned
    BY <1>3, <1>8
  <2> QED BY <1>1, <1>5, <1>6, <1>7, <1>8, <2>1 DEF Greater
<1>9. CASE ~(Throttled(resp) /\ p.ok) /\ Throttled(resp) /\ zoned
  BY <1>1, <1>3, <1>4, <1>5, <1>6, <1>9 DEF Greater
<1>10. CASE ~(Throttled(resp) /\ p.ok) /\ ~(Throttled(resp) /\ zoned)
  <2>1. d = exp
    BY <1>3, <1>4, <1>10
  <2> QED BY <1>1, <1>2, <1>5, <1>6, <1>10, <2>1 DEF Greater
<1> QED BY <1>8, <1>9, <1>10

-----------------------------------------------------------------------------
(* Types. *)

ReqType ==
    [pc: {"idle", "limiter", "denied", "send", "flight", "backoff"},
     attempt: 0..Greater(conf.retryMax, 0), wait: Nat]

\* Only a reservation and a backoff wait, and a backoff leads to a retry that
\* is still allowed.
WaitsForCause ==
    \A s \in Slots :
        /\ req[s].pc \notin {"send", "backoff"} => req[s].wait = 0
        /\ req[s].pc = "backoff" => req[s].attempt < conf.retryMax

BaseInv == TypeOK /\ WaitsForCause

(* Every action keeps the types, and the waits have their cause. *)
LEMMA BaseStep == BaseInv /\ [Next]_vars => BaseInv'
<1> SUFFICES ASSUME BaseInv, [Next]_vars PROVE BaseInv'
  OBVIOUS
<1>0. /\ conf \in Configs /\ tokens \in Int /\ tokens <= Depth
      /\ req \in [Slots -> ReqType] /\ meter \in Nat
      /\ slept \in [Slots -> Nat] /\ foreign \in [Slots -> Nat]
      /\ WaitsForCause
  BY DEF BaseInv, TypeOK, ReqType
<1>a. /\ conf.every \in Nat /\ conf.retryMax \in Int /\ Depth \in Nat
      /\ Limited => conf.every >= 1
  BY <1>0, Settings
<1>b. conf' = conf => ReqType' = ReqType /\ Depth' = Depth
  BY DEF ReqType, Depth, Limited, resolveBurst
<1>c. conf' = conf
  BY DEF Next, Do, Run, Allow, Denied, Wait, Send, Again, Answer, Finish,
         Backoff, Tick, vars
<1>1. ASSUME tokens' \in Int, tokens' <= Depth, meter' \in Nat,
             slept' \in [Slots -> Nat], foreign' \in [Slots -> Nat],
             req' \in [Slots -> ReqType], WaitsForCause'
      PROVE  BaseInv'
  BY <1>0, <1>1, <1>b, <1>c DEF BaseInv, TypeOK, ReqType
\* One request moves.
<1>2. ASSUME NEW s \in Slots, NEW x, req' = [req EXCEPT ![s] = x], x \in ReqType,
             x.pc \notin {"send", "backoff"} => x.wait = 0,
             x.pc = "backoff" => x.attempt < conf.retryMax
      PROVE  req' \in [Slots -> ReqType] /\ WaitsForCause'
  BY <1>0, <1>2, <1>c DEF WaitsForCause
<1>3. ASSUME NEW s \in Slots, Do(s) PROVE BaseInv'
  <2>1. [IdleReq EXCEPT !.pc = "limiter"] \in ReqType
    BY <1>a DEF IdleReq, ReqType, Greater
  <2> QED BY <1>0, <1>1, <1>2, <1>3, <2>1 DEF Do, ghosts, IdleReq
<1>4. ASSUME NEW s \in Slots, Run(s) PROVE BaseInv'
  <2>0. req[s] \in ReqType
    BY <1>0
  <2>1. CASE Allow(s)
    <3>1. [req[s] EXCEPT !.pc = "send"] \in ReqType
      BY <2>0 DEF ReqType
    <3>2. tokens' \in Int /\ tokens' <= Depth
      BY <1>0, <1>a, <2>1 DEF Allow
    <3> QED BY <1>0, <1>1, <1>2, <2>0, <2>1, <3>1, <3>2 DEF Allow, ghosts, ReqType
  <2>2. CASE Denied(s)
    <3>1. /\ [req[s] EXCEPT !.pc = "denied"] \in ReqType
          /\ [req[s] EXCEPT !.pc = "denied"].wait = 0
      BY <1>0, <2>0, <2>2 DEF ReqType, Denied, WaitsForCause
    <3> QED BY <1>0, <1>1, <1>2, <2>0, <2>2, <3>1 DEF Denied, ghosts, ReqType
  <2>3. CASE Wait(s)
    <3> DEFINE p == PaidIn(conf.every - tokens)
    <3>0. p \in Nat
      BY <1>0, <1>a DEF PaidIn, Greater
    <3> HIDE DEF p
    <3>1. [req[s] EXCEPT !.pc = "send", !.wait = p] \in ReqType
      BY <2>0, <3>0 DEF ReqType
    <3>2. tokens' \in Int /\ tokens' <= Depth
      BY <1>0, <1>a, <2>3 DEF Wait
    <3>3. req' = [req EXCEPT ![s] = [req[s] EXCEPT !.pc = "send", !.wait = p]]
      BY <2>3 DEF Wait, p
    <3> QED BY <1>0, <1>1, <1>2, <2>0, <2>3, <3>1, <3>2, <3>3
            DEF Wait, ghosts, ReqType
  <2>4. CASE Send(s)
    <3>1. [req[s] EXCEPT !.pc = "flight"] \in ReqType
      BY <2>0 DEF ReqType
    <3>2. [req[s] EXCEPT !.pc = "flight"].wait = 0
      BY <2>0, <2>4 DEF ReqType, Send
    <3>3. meter' \in Nat
      BY <1>0, <1>a, <2>4 DEF Send
    <3> QED BY <1>0, <1>1, <1>2, <2>0, <2>4, <3>1, <3>2, <3>3 DEF Send, ReqType
  <2>5. CASE Again(s)
    <3>1. req[s].attempt + 1 \in 0..Greater(conf.retryMax, 0)
      BY <1>0, <1>a, <2>0, <2>5 DEF Again, WaitsForCause, ReqType, Greater
    <3>2. /\ req'[s] \in ReqType /\ req'[s].wait = 0 /\ req'[s].pc = "limiter"
          /\ req' = [req EXCEPT ![s] = req'[s]]
      BY <1>0, <2>0, <2>5, <3>1 DEF Again, ReqType
    <3> QED BY <1>0, <1>1, <1>2, <2>5, <3>2 DEF Again, ghosts
  <2> QED BY <1>4, <2>1, <2>2, <2>3, <2>4, <2>5 DEF Run
<1>5. ASSUME NEW s \in Slots, Answer(s) PROVE BaseInv'
  <2>0. req[s] \in ReqType
    BY <1>0
  <2>1. ASSUME NEW resp \in Responses, Finish(s, resp) PROVE BaseInv'
    <3>1. IdleReq \in ReqType
      BY <1>a DEF IdleReq, ReqType, Greater
    <3>2. slept' \in [Slots -> Nat] /\ foreign' \in [Slots -> Nat]
      BY <1>0, <2>1 DEF Finish
    <3> QED BY <1>0, <1>1, <1>2, <2>1, <3>1, <3>2 DEF Finish, IdleReq
  <2>2. ASSUME NEW resp \in Responses, Backoff(s, resp) PROVE BaseInv'
    <3> DEFINE sleep == Greater(retryAfterBackoff(req[s].attempt, resp), 0)
               x == [req[s] EXCEPT !.pc = "backoff", !.wait = sleep]
    <3>1. req[s].attempt \in Nat /\ req[s].attempt < conf.retryMax
      BY <1>a, <2>0, <2>2 DEF Backoff, Exhausted, ReqType
    <3>2. sleep \in Nat /\ Foreign(resp) \in Nat
      BY <1>0, <3>1, BackoffWindow
    <3>3. /\ req' = [req EXCEPT ![s] = x]
          /\ slept' = [slept EXCEPT ![s] = @ + sleep]
          /\ foreign' = [foreign EXCEPT ![s] = @ + Foreign(resp)]
          /\ UNCHANGED <<tokens, meter>>
      BY <2>2 DEF Backoff
    <3> HIDE DEF sleep
    <3>4. /\ x \in ReqType /\ x.pc = "backoff" /\ x.attempt < conf.retryMax
      BY <2>0, <3>1, <3>2 DEF ReqType
    <3>5. slept' \in [Slots -> Nat] /\ foreign' \in [Slots -> Nat]
      BY <1>0, <3>2, <3>3
    <3> HIDE DEF x
    <3> QED BY <1>0, <1>1, <1>2, <3>3, <3>4, <3>5
  <2> QED BY <1>5, <2>1, <2>2 DEF Answer
<1>6. CASE Tick
  <2>1. tokens' \in Int /\ tokens' <= Depth
    BY <1>0, <1>a, <1>6 DEF Tick, Lesser
  <2>2. meter' \in Nat /\ slept' \in [Slots -> Nat] /\ foreign' \in [Slots -> Nat]
    BY <1>0, <1>6 DEF Tick, Down, Greater
  <2>3. ASSUME NEW s \in Slots
        PROVE  /\ req'[s] \in ReqType /\ req'[s].pc = req[s].pc
               /\ req'[s].attempt = req[s].attempt
               /\ req[s].wait = 0 => req'[s].wait = 0
    <3>1. req[s] \in ReqType
      BY <1>0
    <3>2. req'[s] = [req[s] EXCEPT !.wait = Down(req[s].wait)]
      BY <1>6 DEF Tick
    <3>3. /\ Down(req[s].wait) \in Nat
          /\ req[s].wait = 0 => Down(req[s].wait) = 0
      BY <3>1 DEF Down, Greater, ReqType
    <3> QED BY <3>1, <3>2, <3>3 DEF ReqType
  <2>4. req' \in [Slots -> ReqType]
    BY <1>6, <2>3 DEF Tick
  <2>5. WaitsForCause'
    BY <1>0, <1>c, <2>3 DEF WaitsForCause
  <2> QED BY <1>1, <2>1, <2>2, <2>4, <2>5
<1>7. CASE UNCHANGED vars
  BY <1>0, <1>7 DEF vars, ghosts, BaseInv, TypeOK, ReqType, WaitsForCause, Depth,
      Limited, resolveBurst
<1> QED BY <1>3, <1>4, <1>5, <1>6, <1>7 DEF Next

(* The first states satisfy the base invariant. *)
LEMMA InitBase == Init => BaseInv
<1> SUFFICES ASSUME Init PROVE BaseInv
  OBVIOUS
<1>1. conf \in Configs /\ tokens = Depth
  BY DEF Init
<1>2. Depth \in Nat /\ conf.retryMax \in Int
  BY <1>1, Settings
<1>3. IdleReq \in ReqType
  BY <1>2 DEF IdleReq, ReqType, Greater
<1> QED BY <1>1, <1>2, <1>3
        DEF Init, BaseInv, TypeOK, WaitsForCause, IdleReq, ReqType

(* Every variable keeps its type; no request is ever retried more often than
   --retry-max allows, and the bucket never exceeds its depth. *)
THEOREM RetryTypeCorrect == Spec => []TypeOK
<1>1. BaseInv => TypeOK
  BY DEF BaseInv
<1> QED BY <1>1, InitBase, BaseStep, PTL DEF Spec

-----------------------------------------------------------------------------
\* The slots that hold a token and may use it in w units at the earliest.
Reserved(w) == {s \in Slots : req[s].pc = "send" /\ req[s].wait >= w}

\* What the bucket, the attempts about to leave and the meter hold together
\* is one bucket at most.
Conserved ==
    Limited => meter + tokens + conf.every * Cardinality(Reserved(0)) <= Depth

\* Reservations line up behind one another: the bucket owes the ones that
\* must still wait w units at least so much that w more will not free another.
Staggered ==
    Limited =>
        \A w \in Nat \ {0} :
            Reserved(w) # {} =>
                tokens + conf.every * Cardinality(Reserved(w)) + w
                    <= conf.every

\* What the bucket owes is owed to slots that still wait for it.
Covered ==
    Limited =>
        \A w \in Nat :
            tokens + w + conf.every * Cardinality(Reserved(w + 1)) >= 0

PaceInv == Conserved /\ Staggered /\ Covered

(* Sets of slots can be counted, one slot more or less at a time. *)
LEMMA SlotCount ==
    ASSUME NEW S \in SUBSET Slots
    PROVE  /\ IsFiniteSet(S) /\ Cardinality(S) \in Nat
           /\ S # {} => Cardinality(S) >= 1
           /\ \A T \in SUBSET S : Cardinality(T) <= Cardinality(S)
<1>1. IsFiniteSet(S)
  BY RetryAssumption, FS_Subset
<1>2. Cardinality(S) \in Nat
  BY <1>1, FS_CardinalityType
<1>3. S # {} => Cardinality(S) >= 1
  BY <1>1, <1>2, FS_EmptySet
<1>4. \A T \in SUBSET S : Cardinality(T) <= Cardinality(S)
  BY <1>1, FS_Subset
<1> QED BY <1>1, <1>2, <1>3, <1>4

(* One slot more or less in a set of slots. *)
LEMMA OneSlot ==
    ASSUME NEW S \in SUBSET Slots, NEW s \in Slots
    PROVE  /\ s \notin S => Cardinality(S \cup {s}) = Cardinality(S) + 1
           /\ s \in S => Cardinality(S \ {s}) = Cardinality(S) - 1
  BY SlotCount, FS_AddElement, FS_RemoveElement

(* A token more or less costs conf.every. *)
LEMMA TokenCost ==
    ASSUME NEW c \in Nat, NEW n \in Nat
    PROVE  /\ c * n \in Nat
           /\ c * (n + 1) = c * n + c
           /\ n >= 1 => c * (n - 1) = c * n - c
           /\ \A m \in 0..n : c * m <= c * n
  OBVIOUS

(* A slot takes a token, and may use it in x units: the token leaves the
   bucket for the attempts about to leave, and a slot that has to wait lines
   up behind all the others. *)
LEMMA TokenTaken ==
    ASSUME BaseInv, PaceInv, conf' = conf, meter' = meter,
           NEW s \in Slots, NEW x \in Nat, req[s].pc # "send",
           req'[s].pc = "send", req'[s].wait = x,
           \A q \in Slots : q # s => req'[q] = req[q],
           Limited => tokens' = tokens - conf.every,
           Limited => x = Greater(conf.every - tokens, 0)
    PROVE  PaceInv'
<1> SUFFICES ASSUME Limited PROVE (Conserved /\ Staggered /\ Covered)'
  BY DEF PaceInv, Conserved, Staggered, Covered, Limited
<1> DEFINE c == conf.every
           N(w) == Cardinality(Reserved(w))
<1>0. /\ c \in Nat /\ c >= 1 /\ tokens \in Int /\ meter \in Nat /\ Depth \in Nat
      /\ Depth' = Depth /\ req \in [Slots -> ReqType]
  BY Settings DEF BaseInv, TypeOK, Depth, Limited, resolveBurst, ReqType
<1>1. \A w \in Nat : Reserved(w)' = IF w <= x THEN Reserved(w) \cup {s}
                                    ELSE Reserved(w)
  BY DEF Reserved
<1>2. \A w \in Nat : Reserved(w) \in SUBSET Slots /\ s \notin Reserved(w)
  BY DEF Reserved
<1>3. \A w \in Nat : /\ N(w) \in Nat
                     /\ Reserved(w) # {} => N(w) >= 1
                     /\ Cardinality(Reserved(w) \cup {s}) = N(w) + 1
  BY <1>2, SlotCount, OneSlot
<1>4. \A w \in Nat : c * N(w) \in Nat /\ c * (N(w) + 1) = c * N(w) + c
  BY <1>0, <1>3, TokenCost
<1>5. tokens' = tokens - c /\ conf'.every = c /\ meter' = meter
  OBVIOUS
<1>6. Conserved'
  <2>1. Cardinality(Reserved(0))' = N(0) + 1
    BY <1>1, <1>3
  <2>2. meter + tokens + c * N(0) <= Depth
    BY DEF PaceInv, Conserved
  <2>3. meter' + tokens' + conf'.every * Cardinality(Reserved(0))' <= Depth'
    BY <1>0, <1>4, <1>5, <2>1, <2>2
  <2> QED BY <2>3 DEF Conserved
<1>7. Staggered'
  <2> SUFFICES ASSUME NEW w \in Nat \ {0}, Reserved(w)' # {}
               PROVE  tokens' + conf'.every * Cardinality(Reserved(w))' + w
                        <= conf'.every
    BY DEF Staggered
  <2>1. Reserved(w) # {} => tokens + c * N(w) + w <= c
    BY DEF PaceInv, Staggered
  <2>2. CASE w <= x
    <3>1. Cardinality(Reserved(w))' = N(w) + 1
      BY <1>1, <1>3, <2>2
    <3>2. tokens + c * N(w) + w <= c
      <4>1. CASE Reserved(w) # {}
        BY <2>1, <4>1
      <4>2. CASE Reserved(w) = {}
        <5>1. N(w) = 0 /\ c * N(w) = 0
          BY <1>0, <4>2, FS_EmptySet
        <5>2. w <= c - tokens
          BY <1>0, <2>2 DEF Greater
        <5> QED BY <1>0, <5>1, <5>2
      <4> QED BY <4>1, <4>2
    <3> QED BY <1>0, <1>4, <1>5, <3>1, <3>2
  <2>3. CASE ~(w <= x)
    <3>1. Reserved(w)' = Reserved(w)
      BY <1>1, <2>3
    <3> QED BY <1>0, <1>3, <1>4, <1>5, <2>1, <3>1
  <2> QED BY <2>2, <2>3
<1>8. Covered'
  <2> SUFFICES ASSUME NEW w \in Nat
               PROVE  tokens' + w
                        + conf'.every * Cardinality(Reserved(w + 1))' >= 0
    BY DEF Covered
  <2>0. w + 1 \in Nat
    OBVIOUS
  <2>1. tokens + w + c * N(w + 1) >= 0
    BY DEF PaceInv, Covered
  <2>2. CASE w + 1 <= x
    <3>1. Cardinality(Reserved(w + 1))' = N(w + 1) + 1
      BY <1>1, <1>3, <2>0, <2>2
    <3> QED BY <1>0, <1>4, <1>5, <2>0, <2>1, <3>1
  <2>3. CASE ~(w + 1 <= x)
    <3>1. Reserved(w + 1)' = Reserved(w + 1)
      BY <1>1, <2>0, <2>3
    <3>2. w >= c - tokens
      BY <1>0, <2>3 DEF Greater
    <3> QED BY <1>0, <1>4, <1>5, <2>0, <3>1, <3>2
  <2> QED BY <2>2, <2>3
<1> QED BY <1>6, <1>7, <1>8

(* Every action keeps the invariant. *)
LEMMA PaceStep == BaseInv /\ PaceInv /\ [Next]_vars => PaceInv'
<1> SUFFICES ASSUME BaseInv, PaceInv, [Next]_vars PROVE PaceInv'
  OBVIOUS
<1>0. /\ conf \in Configs /\ tokens \in Int /\ tokens <= Depth /\ meter \in Nat
      /\ req \in [Slots -> ReqType] /\ WaitsForCause
  BY DEF BaseInv, TypeOK, ReqType
<1>a. /\ conf.every \in Nat /\ Depth \in Nat
      /\ Limited => conf.every >= 1 /\ conf.every <= Depth
  BY <1>0, Settings
<1>b. conf' = conf
  BY DEF Next, Do, Run, Allow, Denied, Wait, Send, Again, Answer, Finish,
         Backoff, Tick, vars
<1>c. Depth' = Depth /\ Limited' = Limited
  BY <1>b DEF Depth, Limited, resolveBurst
<1>d. ASSUME NEW w \in Nat
      PROVE  /\ Cardinality(Reserved(w)) \in Nat
             /\ conf.every * Cardinality(Reserved(w)) \in Nat
  <2>1. Reserved(w) \in SUBSET Slots
    BY DEF Reserved
  <2> QED BY <1>a, <2>1, SlotCount, TokenCost
\* No token is taken or used.
<1>1. ASSUME UNCHANGED <<tokens, meter>>, NEW s \in Slots,
             \A q \in Slots : q # s => req'[q] = req[q],
             req[s].pc # "send", req'[s].pc # "send"
      PROVE  PaceInv'
  <2>1. \A w : Reserved(w)' = Reserved(w)
    BY <1>1 DEF Reserved
  <2> QED BY <1>1, <1>b, <1>c, <2>1
          DEF PaceInv, Conserved, Staggered, Covered
<1>2. ASSUME NEW s \in Slots, Do(s) \/ Denied(s) \/ Again(s) PROVE PaceInv'
  <2>1. /\ UNCHANGED <<tokens, meter>> /\ req[s].pc # "send"
        /\ req'[s].pc # "send" /\ \A q \in Slots : q # s => req'[q] = req[q]
    <3>1. CASE Do(s)
      BY <1>0, <3>1 DEF Do, ghosts, IdleReq
    <3>2. CASE Denied(s)
      BY <1>0, <3>2 DEF Denied, ghosts, ReqType
    <3>3. CASE Again(s)
      BY <1>0, <3>3 DEF Again, ghosts, ReqType
    <3> QED BY <1>2, <3>1, <3>2, <3>3
  <2> QED BY <1>1, <2>1
<1>3. ASSUME NEW s \in Slots, Answer(s) PROVE PaceInv'
  <2>1. /\ UNCHANGED <<tokens, meter>> /\ req[s].pc # "send"
        /\ req'[s].pc # "send" /\ \A q \in Slots : q # s => req'[q] = req[q]
    <3>1. PICK resp \in Responses : Finish(s, resp) \/ Backoff(s, resp)
      BY <1>3 DEF Answer
    <3>2. CASE Finish(s, resp)
      BY <1>0, <3>2 DEF Finish, IdleReq
    <3>3. CASE Backoff(s, resp)
      BY <1>0, <3>3 DEF Backoff, ReqType
    <3> QED BY <3>1, <3>2, <3>3
  <2> QED BY <1>1, <2>1
<1>4. ASSUME NEW s \in Slots, Allow(s) PROVE PaceInv'
  <2>1. /\ req[s].pc = "limiter" /\ req[s].wait = 0
        /\ req'[s].pc = "send" /\ req'[s].wait = 0
        /\ \A q \in Slots : q # s => req'[q] = req[q]
        /\ meter' = meter
    BY <1>0, <1>4 DEF Allow, ghosts, ReqType, WaitsForCause
  <2>2. Limited => tokens' = tokens - conf.every
                   /\ 0 = Greater(conf.every - tokens, 0)
    BY <1>0, <1>4, <1>a DEF Allow, Greater
  <2> QED BY <1>b, <2>1, <2>2, TokenTaken
<1>5. ASSUME NEW s \in Slots, Wait(s) PROVE PaceInv'
  <2>1. /\ req[s].pc = "denied" /\ req'[s].pc = "send"
        /\ req'[s].wait = Greater(conf.every - tokens, 0)
        /\ \A q \in Slots : q # s => req'[q] = req[q]
        /\ meter' = meter /\ tokens' = tokens - conf.every
    BY <1>0, <1>5 DEF Wait, ghosts, ReqType, PaidIn
  <2>2. Greater(conf.every - tokens, 0) \in Nat
    BY <1>0, <1>a DEF Greater
  <2> QED BY <1>b, <2>1, <2>2, TokenTaken
<1>6. ASSUME NEW s \in Slots, Send(s) PROVE PaceInv'
  <2>1. /\ req[s].pc = "send" /\ req[s].wait = 0 /\ req'[s].pc = "flight"
        /\ \A q \in Slots : q # s => req'[q] = req[q]
        /\ tokens' = tokens /\ (Limited => meter' = meter + conf.every)
    BY <1>0, <1>6 DEF Send, ReqType
  <2>2. Reserved(0)' = Reserved(0) \ {s} /\ s \in Reserved(0)
    BY <1>0, <2>1 DEF Reserved
  <2>3. \A w \in Nat \ {0} : Reserved(w)' = Reserved(w)
    BY <1>0, <2>1 DEF Reserved
  <2>4. /\ Cardinality(Reserved(0))' = Cardinality(Reserved(0)) - 1
        /\ Cardinality(Reserved(0)) >= 1
    BY <2>2, SlotCount, OneSlot DEF Reserved
  <2>5. conf.every * (Cardinality(Reserved(0)) - 1)
            = conf.every * Cardinality(Reserved(0)) - conf.every
    BY <1>a, <1>d, <2>4, TokenCost
  <2>6. Conserved'
    <3> SUFFICES ASSUME Limited
                 PROVE  meter' + tokens' + conf'.every * Cardinality(Reserved(0))'
                            <= Depth'
      BY <1>c DEF Conserved
    <3>1. meter + tokens + conf.every * Cardinality(Reserved(0)) <= Depth
      BY DEF PaceInv, Conserved
    <3> QED BY <1>0, <1>a, <1>b, <1>c, <1>d, <2>1, <2>4, <2>5, <3>1
  <2>7. Staggered'
    BY <1>b, <1>c, <2>1, <2>3 DEF PaceInv, Staggered
  <2>8. Covered'
    <3>1. \A w \in Nat : Reserved(w + 1)' = Reserved(w + 1)
      BY <2>3
    <3> QED BY <1>b, <1>c, <2>1, <3>1 DEF PaceInv, Covered
  <2> QED BY <2>6, <2>7, <2>8 DEF PaceInv
<1>7. CASE Tick
  <2> SUFFICES ASSUME Limited PROVE (Conserved /\ Staggered /\ Covered)'
    BY <1>c DEF PaceInv, Conserved, Staggered, Covered
  <2>1. ASSUME NEW q \in Slots
        PROVE  /\ req'[q].pc = req[q].pc /\ req'[q].wait = Down(req[q].wait)
               /\ req[q].pc = "send" => req[q].wait >= 1
    BY <1>0, <1>7 DEF Tick, ReqType, Prompt
  <2>2. \A w \in Nat : Reserved(w)' = Reserved(w + 1)
    BY <1>0, <2>1 DEF Reserved, Down, Greater, ReqType
  <2>3. Reserved(1) = Reserved(0)
    BY <1>0, <2>1 DEF Reserved, ReqType
  <2>4. tokens' = Lesser(tokens + 1, Depth) /\ meter' = Greater(meter - 1, 0)
    BY <1>7 DEF Tick, Down
  <2>5. Conserved'
    <3>1. meter + tokens + conf.every * Cardinality(Reserved(0)) <= Depth
      BY DEF PaceInv, Conserved
    <3>2. Cardinality(Reserved(0))' = Cardinality(Reserved(0))
      BY <2>2, <2>3
    <3>3. CASE Reserved(0) = {}
      <4>1. conf.every * Cardinality(Reserved(0)) = 0
        BY <1>a, <3>3, FS_EmptySet
      <4>2. meter' + tokens' + conf.every * Cardinality(Reserved(0)) <= Depth
        BY <1>0, <1>a, <2>4, <3>1, <4>1 DEF Lesser, Greater
      <4> QED BY <1>b, <1>c, <3>2, <4>2 DEF Conserved
    <3>4. CASE Reserved(0) # {}
      <4>1. tokens + conf.every * Cardinality(Reserved(0)) + 1 <= conf.every
        BY <2>3, <3>4 DEF PaceInv, Staggered
      <4>2. meter' + tokens' + conf.every * Cardinality(Reserved(0)) <= Depth
        BY <1>0, <1>a, <1>d, <2>4, <3>1, <4>1 DEF Lesser, Greater
      <4> QED BY <1>b, <1>c, <3>2, <4>2 DEF Conserved
    <3> QED BY <3>3, <3>4
  <2>6. Staggered'
    <3> SUFFICES ASSUME NEW w \in Nat \ {0}, Reserved(w)' # {}
                 PROVE  tokens' + conf'.every * Cardinality(Reserved(w))' + w
                            <= conf'.every
      BY DEF Staggered
    <3>1. Reserved(w)' = Reserved(w + 1) /\ w + 1 \in Nat \ {0}
      BY <2>2
    <3>2. tokens + conf.every * Cardinality(Reserved(w + 1)) + (w + 1)
            <= conf.every
      BY <3>1 DEF PaceInv, Staggered
    <3>3. tokens' <= tokens + 1 /\ tokens' \in Int
      BY <1>0, <1>a, <2>4 DEF Lesser
    <3>4. conf.every * Cardinality(Reserved(w + 1)) \in Nat
      BY <1>d
    <3> QED BY <1>0, <1>a, <1>b, <3>1, <3>2, <3>3, <3>4
  <2>7. Covered'
    <3> SUFFICES ASSUME NEW w \in Nat
                 PROVE  tokens' + w
                          + conf'.every * Cardinality(Reserved(w + 1))' >= 0
      BY DEF Covered
    <3>1. Reserved(w + 1)' = Reserved((w + 1) + 1)
      BY <2>2
    <3>2. tokens + (w + 1) + conf.every * Cardinality(Reserved((w + 1) + 1)) >= 0
      BY DEF PaceInv, Covered
    <3>3. conf.every * Cardinality(Reserved((w + 1) + 1)) \in Nat
      BY <1>d
    <3> QED BY <1>0, <1>a, <1>b, <2>4, <3>1, <3>2, <3>3 DEF Lesser
  <2> QED BY <2>5, <2>6, <2>7
<1>8. CASE UNCHANGED vars
  BY <1>8 DEF vars, ghosts, PaceInv, Conserved, Staggered, Covered, Reserved,
      Limited, Depth, resolveBurst
<1> QED BY <1>2, <1>3, <1>4, <1>5, <1>6, <1>7, <1>8 DEF Next, Run

(* For any number of slots, any rate and burst, and however fast paths,
   reservations and retries interleave, the traffic Foreman sees stays within
   the configured rate and burst. *)
THEOREM TrafficPaced == Spec => []Paced
<1>1. Init => PaceInv
  <2> SUFFICES ASSUME Init PROVE PaceInv
    OBVIOUS
  <2>1. \A w : Reserved(w) = {}
    BY DEF Init, IdleReq, Reserved
  <2>2. conf.every \in Nat /\ Depth \in Nat
    BY Settings DEF Init
  <2>3. conf.every * Cardinality({}) = 0
    BY <2>2, FS_EmptySet
  <2>4. tokens = Depth /\ meter = 0
    BY DEF Init
  <2>5. Conserved
    BY <2>1, <2>2, <2>3, <2>4 DEF Conserved
  <2>6. Staggered
    BY <2>1 DEF Staggered
  <2>7. Covered
    BY <2>1, <2>2, <2>3, <2>4 DEF Covered
  <2> QED BY <2>5, <2>6, <2>7 DEF PaceInv
<1>2. BaseInv /\ PaceInv => Paced
  <2> SUFFICES ASSUME BaseInv, PaceInv, Limited PROVE meter <= Depth
    BY DEF Paced
  <2> DEFINE all == Cardinality(Reserved(0))
             late == Cardinality(Reserved(1))
  <2>1. /\ conf.every \in Nat /\ Depth \in Nat /\ tokens \in Int /\ meter \in Nat
        /\ req \in [Slots -> ReqType]
    BY Settings DEF BaseInv, TypeOK, ReqType
  <2>2. Reserved(0) \in SUBSET Slots /\ Reserved(1) \in SUBSET Reserved(0)
    BY <2>1 DEF Reserved, ReqType
  <2>3. all \in Nat /\ late \in 0..all
    <3>1. Reserved(1) \in SUBSET Slots
      BY <2>2
    <3> QED BY <2>2, <3>1, SlotCount
  <2>4. meter + tokens + conf.every * all <= Depth
    BY DEF PaceInv, Conserved
  <2>5. tokens + conf.every * late >= 0
    <3>1. tokens + 0 + conf.every * Cardinality(Reserved(0 + 1)) >= 0
      BY DEF PaceInv, Covered
    <3> QED BY <2>1, <3>1
  <2>6. /\ conf.every * late <= conf.every * all
        /\ conf.every * all \in Nat /\ conf.every * late \in Nat
    BY <2>1, <2>3, TokenCost
  <2> HIDE DEF all, late
  <2> QED BY <2>1, <2>4, <2>5, <2>6
<1> QED BY <1>1, <1>2, InitBase, BaseStep, PaceStep, PTL DEF Spec

-----------------------------------------------------------------------------
(* Sleeping. *)

\* The longest sleep before one retry when there is a cap.
LongestSleep == Greater(conf.retryMaxWait, RetryWaitMax)

\* The sleeps of s's request so far, the one it is in included.
Sleeps(s) ==
    IF req[s].pc = "idle" THEN 0
    ELSE IF req[s].pc = "backoff" THEN req[s].attempt + 1
    ELSE req[s].attempt

SleepsBounded(s) ==
    conf.retryMaxWait > 0 => slept[s] <= Sleeps(s) * LongestSleep + foreign[s]

SleepInv == \A s \in Slots : SleepsBounded(s)

(* Every action keeps the invariant. *)
LEMMA SleepStep == BaseInv /\ SleepInv /\ [Next]_vars => SleepInv'
<1> SUFFICES ASSUME BaseInv, SleepInv, [Next]_vars PROVE SleepInv'
  OBVIOUS
<1> USE DEF SleepInv
<1>0. /\ conf \in Configs /\ req \in [Slots -> ReqType]
      /\ slept \in [Slots -> Nat] /\ foreign \in [Slots -> Nat]
  BY DEF BaseInv, TypeOK, ReqType
<1>a. conf' = conf
  BY DEF Next, Do, Run, Allow, Denied, Wait, Send, Again, Answer, Finish,
         Backoff, Tick, vars
<1>b. LongestSleep \in Nat /\ LongestSleep' = LongestSleep
  BY <1>0, <1>a, Settings, RetryAssumption DEF LongestSleep, Greater
\* A slot whose request sleeps neither more nor longer.
<1>1. ASSUME NEW q \in Slots, slept'[q] = slept[q], foreign'[q] = foreign[q],
             Sleeps(q)' = Sleeps(q)
      PROVE  SleepsBounded(q)'
  BY <1>1, <1>a, <1>b DEF SleepsBounded
\* A slot nothing happens to.
<1>2. ASSUME NEW q \in Slots, slept'[q] = slept[q], foreign'[q] = foreign[q],
             req'[q] = req[q]
      PROVE  SleepsBounded(q)'
  BY <1>2, <1>a, <1>b DEF SleepsBounded, Sleeps
\* The request of s goes on, and does not begin a sleep.
<1>3. ASSUME NEW s \in Slots, UNCHANGED <<slept, foreign>>,
             \A q \in Slots : q # s => req'[q] = req[q],
             req'[s].pc \notin {"idle", "backoff"},
             req'[s].attempt = Sleeps(s)
      PROVE  SleepInv'
  <2>1. Sleeps(s)' = Sleeps(s)
    BY <1>3 DEF Sleeps
  <2> QED BY <1>1, <1>2, <1>3, <2>1
<1>4. ASSUME NEW s \in Slots, Do(s) PROVE SleepInv'
  <2>1. /\ UNCHANGED <<slept, foreign>> /\ req[s].pc = "idle"
        /\ req'[s].pc = "limiter" /\ req'[s].attempt = 0
        /\ \A q \in Slots : q # s => req'[q] = req[q]
    BY <1>0, <1>4 DEF Do, ghosts, IdleReq
  <2> QED BY <1>3, <2>1 DEF Sleeps
<1>5. ASSUME NEW s \in Slots, Run(s) PROVE SleepInv'
  <2>1. CASE Allow(s)
    BY <1>0, <1>3, <2>1 DEF Allow, ghosts, ReqType, Sleeps
  <2>2. CASE Denied(s)
    BY <1>0, <1>3, <2>2 DEF Denied, ghosts, ReqType, Sleeps
  <2>3. CASE Wait(s)
    BY <1>0, <1>3, <2>3 DEF Wait, ghosts, ReqType, Sleeps
  <2>4. CASE Send(s)
    BY <1>0, <1>3, <2>4 DEF Send, ReqType, Sleeps
  <2>5. CASE Again(s)
    BY <1>0, <1>3, <2>5 DEF Again, ghosts, ReqType, Sleeps
  <2> QED BY <1>5, <2>1, <2>2, <2>3, <2>4, <2>5 DEF Run
<1>6. ASSUME NEW s \in Slots, Answer(s) PROVE SleepInv'
  <2>1. ASSUME NEW resp \in Responses, Finish(s, resp) PROVE SleepInv'
    <3>1. /\ slept'[s] = 0 /\ foreign'[s] = 0 /\ req'[s] = IdleReq
          /\ \A q \in Slots : q # s => /\ req'[q] = req[q] /\ slept'[q] = slept[q]
                                       /\ foreign'[q] = foreign[q]
      BY <1>0, <2>1 DEF Finish
    <3>2. Sleeps(s)' = 0 /\ 0 * LongestSleep = 0
      BY <1>b, <3>1 DEF Sleeps, IdleReq
    <3>3. SleepsBounded(s)'
      BY <1>b, <3>1, <3>2 DEF SleepsBounded, IdleReq
    <3> QED BY <1>2, <3>1, <3>3
  <2>2. ASSUME NEW resp \in Responses, Backoff(s, resp) PROVE SleepInv'
    <3> DEFINE sleep == Greater(retryAfterBackoff(req[s].attempt, resp), 0)
    <3>0. /\ req[s].attempt \in Nat /\ req[s] \in ReqType /\ slept[s] \in Nat
          /\ foreign[s] \in Nat
      BY <1>0 DEF ReqType
    <3>1. /\ sleep \in Nat /\ Foreign(resp) \in Nat
          /\ conf.retryMaxWait > 0 => sleep <= LongestSleep + Foreign(resp)
      BY <1>0, <3>0, BackoffWindow DEF LongestSleep
    <3>2. /\ req[s].pc = "flight"
          /\ req' = [req EXCEPT ![s] =
                        [@ EXCEPT !.pc = "backoff", !.wait = sleep]]
          /\ slept' = [slept EXCEPT ![s] = @ + sleep]
          /\ foreign' = [foreign EXCEPT ![s] = @ + Foreign(resp)]
      BY <2>2 DEF Backoff
    <3> HIDE DEF sleep
    <3>3. /\ req'[s].pc = "backoff" /\ req'[s].wait = sleep
          /\ req'[s].attempt = req[s].attempt
          /\ slept'[s] = slept[s] + sleep
          /\ foreign'[s] = foreign[s] + Foreign(resp)
          /\ \A q \in Slots : q # s => /\ req'[q] = req[q] /\ slept'[q] = slept[q]
                                       /\ foreign'[q] = foreign[q]
      BY <1>0, <3>0, <3>2 DEF ReqType
    <3>4. Sleeps(s) = req[s].attempt /\ Sleeps(s)' = req[s].attempt + 1
      BY <3>2, <3>3 DEF Sleeps
    <3>5. (req[s].attempt + 1) * LongestSleep
            = req[s].attempt * LongestSleep + LongestSleep
      BY <1>b, <3>0
    <3>6. conf.retryMaxWait > 0 =>
            slept[s] <= req[s].attempt * LongestSleep + foreign[s]
      BY <3>4 DEF SleepsBounded
    <3>7. req[s].attempt * LongestSleep \in Nat
      BY <1>b, <3>0
    <3>8. SleepsBounded(s)'
      <4> SUFFICES ASSUME conf.retryMaxWait > 0
                   PROVE  slept'[s] <= (req[s].attempt + 1) * LongestSleep
                                          + foreign'[s]
        BY <1>a, <1>b, <3>4 DEF SleepsBounded
      <4> QED BY <1>b, <3>0, <3>1, <3>3, <3>5, <3>6, <3>7
    <3> QED BY <1>2, <3>3, <3>8
  <2> QED BY <1>6, <2>1, <2>2 DEF Answer
<1>7. CASE Tick
  <2> SUFFICES ASSUME NEW q \in Slots
               PROVE  SleepsBounded(q)'
    OBVIOUS
  <2>1. /\ req'[q].pc = req[q].pc /\ req'[q].attempt = req[q].attempt
        /\ UNCHANGED <<slept, foreign>>
    BY <1>0, <1>7 DEF Tick, ReqType
  <2>2. Sleeps(q)' = Sleeps(q)
    BY <2>1 DEF Sleeps
  <2> QED BY <1>1, <2>1, <2>2
<1>8. CASE UNCHANGED vars
  BY <1>2, <1>8 DEF vars, ghosts
<1> QED BY <1>4, <1>5, <1>6, <1>7, <1>8 DEF Next

(* Under a cap no request sleeps longer in total than its retries allow, for
   any number of seconds, those that overflow a duration included, and for any
   HTTP date; a date in another zone adds what it asks for and no more. *)
THEOREM SleepsCapped == Spec => []SleepCapped
<1>1. Init => SleepInv
  <2> SUFFICES ASSUME Init, NEW s \in Slots
               PROVE  SleepsBounded(s)
    BY DEF SleepInv
  <2>1. req[s] = IdleReq /\ slept[s] = 0 /\ foreign[s] = 0
    BY DEF Init
  <2>2. LongestSleep \in Nat
    BY Settings, RetryAssumption DEF Init, LongestSleep, Greater
  <2> QED BY <2>1, <2>2 DEF SleepsBounded, Sleeps, IdleReq
<1>2. BaseInv /\ SleepInv => SleepCapped
  <2> SUFFICES ASSUME BaseInv, SleepInv, conf.retryMaxWait > 0, NEW s \in Slots
               PROVE  slept[s] <= Greater(conf.retryMax, 0) * LongestSleep
                                    + foreign[s]
    BY DEF SleepCapped, LongestSleep
  <2>1. /\ conf \in Configs /\ req[s] \in ReqType
        /\ slept[s] \in Nat /\ foreign[s] \in Nat
        /\ req[s].pc = "backoff" => req[s].attempt < conf.retryMax
    BY DEF BaseInv, TypeOK, ReqType, WaitsForCause
  <2>2. LongestSleep \in Nat /\ conf.retryMax \in Int
    BY <2>1, Settings, RetryAssumption DEF LongestSleep, Greater
  <2>3. /\ Sleeps(s) \in 0..Greater(conf.retryMax, 0)
        /\ Greater(conf.retryMax, 0) \in Nat
    BY <2>1, <2>2 DEF Sleeps, ReqType, Greater
  <2>4. \A m, n, l \in Nat : m <= n => m * l <= n * l /\ m * l \in Nat
    OBVIOUS
  <2>5. /\ Sleeps(s) * LongestSleep <= Greater(conf.retryMax, 0) * LongestSleep
        /\ Sleeps(s) * LongestSleep \in Nat
        /\ Greater(conf.retryMax, 0) * LongestSleep \in Nat
    BY <2>2, <2>3, <2>4
  <2>6. slept[s] <= Sleeps(s) * LongestSleep + foreign[s]
    BY DEF SleepInv, SleepsBounded
  <2> QED BY <2>1, <2>5, <2>6
<1> QED BY <1>1, <1>2, InitBase, BaseStep, SleepStep, PTL DEF Spec
=============================================================================
