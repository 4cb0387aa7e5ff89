------------------------------- MODULE Retry -------------------------------
(***************************************************************************)
(* The HTTP client under every call to Foreman: DoWithContext, the retry   *)
(* loop with retryAfterBackoff, and the token bucket each attempt passes   *)
(* before it reaches Foreman.  The loop itself (hashicorp/go-retryablehttp)*)
(* and the bucket (golang.org/x/time/rate) are external and modelled from  *)
(* the settings NewHTTPClient gives them.                                  *)
(*                                                                         *)
(* Durations are signed integers up to MaxInt, a Go time.Duration scaled   *)
(* down; a Tick is one unit, small enough for the limiter to gain a token  *)
(* in a whole number of them.  A slot is one place of a collector's        *)
(* semaphore: it carries one request at a time, retries included.          *)
(***************************************************************************)
EXTENDS Integers, FiniteSets

CONSTANTS
    Slots,         \* places of the semaphores, --concurrency per collector
    Second,        \* units of a second
    MaxInt,        \* the longest duration, and the greatest int of Atoi
    RetryWaitMin, RetryWaitMax,   \* bounds of the exponential backoff
    Configs,       \* the clients to look at, see Config
    Responses,     \* how an attempt may end, see Response
    NoHeader       \* the answer has no Retry-After

VARIABLES
    conf,          \* the settings of the client; fixed
    tokens,        \* the bucket, in units of time to fill it that far;
                   \* negative while reservations are not covered
    req,           \* req[s]: the request in slot s
    meter,         \* ghost: a meter at Foreman, one token per attempt, which
                   \* drains at the configured rate
    slept,         \* ghost: slept[s]: how long s's request slept so far
    foreign        \* ghost: foreign[s]: the delays s's request was asked for in
                   \* headers that only retryablehttp reads

ghosts == <<meter, slept, foreign>>
vars == <<conf, tokens, req, ghosts>>

Config == [every: Nat,           \* units to gain a token; 0: no limit
           burst: Int,           \* --foreman.rate-limit-burst
           retryMax: Int,        \* --retry-max
           retryMaxWait: Nat]    \* --foreman.retry-max-wait, 0 for no cap

\* How an attempt ends; the header is a number, an HTTP date that far ahead, a
\* date in another zone than GMT, which is no HTTP date, or other text.
Response ==
    [status: {"2xx", "4xx", "501", "5xx", "429", "503", "refused", "badTLS"},
     retryAfter: [form: {"seconds", "date", "zoned"}, value: Int]
                    \cup {[form |-> "text"], NoHeader}]

ASSUME RetryAssumption ==
    /\ IsFiniteSet(Slots)
    /\ Second \in Nat \ {0} /\ MaxInt \in Nat
    /\ RetryWaitMin \in Nat /\ RetryWaitMax \in Nat
    /\ RetryWaitMin <= RetryWaitMax /\ RetryWaitMax <= MaxInt
    /\ \A c \in Configs : c \in Config /\ c.retryMaxWait <= MaxInt
    /\ \A r \in Responses : r \in Response

Lesser(a, b) == IF a < b THEN a ELSE b
Greater(a, b) == IF a < b THEN b ELSE a

-----------------------------------------------------------------------------
(* How long to wait. *)

\* Signed arithmetic from -MaxInt - 1 to MaxInt.
Wrap(x) == ((x + MaxInt + 1) % (2 * (MaxInt + 1))) - (MaxInt + 1)

\* time.Until, for a date that is not in the past.
Until(ahead) == Lesser(Greater(ahead, 0), MaxInt)

NoDelay == [ok |-> FALSE, sleep |-> 0]

\* parseRetryAfter: the delay, and whether there is one.  Seconds are parsed
\* as an int and multiplied by a second without a look at the result.
parseRetryAfter(h) ==
    IF h = NoHeader \/ h.form \in {"text", "zoned"} THEN NoDelay
    ELSE IF h.form = "date" THEN [ok |-> TRUE, sleep |-> Until(h.value)]
    ELSE IF h.value < 0 \/ h.value > MaxInt THEN NoDelay
    ELSE [ok |-> TRUE, sleep |-> Wrap(h.value * Second)]

\* The status codes whose header counts.
Throttled(resp) == resp.status \in {"429", "503"}

\* The library's own reading of the header: numbers in the same way, and dates
\* in any zone.
parseRetryAfterHeader(h) ==
    IF h # NoHeader /\ h.form = "zoned"
    THEN [ok |-> TRUE, sleep |-> Until(h.value)] ELSE parseRetryAfter(h)

\* retryablehttp.DefaultBackoff: a header it can read, as it is; otherwise
\* doubled with each attempt, the maximum when that exceeds it or fits no
\* duration.
DefaultBackoff(attempt, resp) ==
    LET header == parseRetryAfterHeader(resp.retryAfter)
        doubled == RetryWaitMin * 2^attempt
    IN IF Throttled(resp) /\ header.ok THEN header.sleep
       ELSE IF doubled \in 0..RetryWaitMax THEN doubled ELSE RetryWaitMax

\* Mutant of Capped: the cap is forgotten.
MutCappedNever(sleep) == sleep

Capped(sleep) ==
    IF conf.retryMaxWait > 0 /\ sleep > conf.retryMaxWait
    THEN conf.retryMaxWait ELSE sleep

retryAfterBackoff(attempt, resp) ==
    LET header == parseRetryAfter(resp.retryAfter)
    IN IF Throttled(resp) /\ header.ok
       THEN Capped(header.sleep) ELSE DefaultBackoff(attempt, resp)

\* retryablehttp.DefaultRetryPolicy.
ShouldRetry(resp) == resp.status \in {"429", "503", "5xx", "refused"}

-----------------------------------------------------------------------------
(* The token bucket. *)

Limited == conf.every > 0

\* About a second of traffic unless it is set.
resolveBurst ==
    IF conf.burst > 0 THEN conf.burst
    ELSE Greater(Second \div conf.every, 1)

Depth == IF Limited THEN resolveBurst * conf.every ELSE 0

\* When the bucket, which gains one in a unit, has paid off a debt of d.
PaidIn(d) == Greater(d, 0)

-----------------------------------------------------------------------------
IdleReq == [pc |-> "idle", attempt |-> 0, wait |-> 0]

Init ==
    /\ conf \in Configs
    /\ tokens = Depth
    /\ req = [s \in Slots |-> IdleReq]
    /\ meter = 0
    /\ slept = [s \in Slots |-> 0]
    /\ foreign = [s \in Slots |-> 0]

\* DoWithContext.
Do(s) ==
    /\ req[s].pc = "idle"
    /\ req' = [req EXCEPT ![s] = [IdleReq EXCEPT !.pc = "limiter"]]
    /\ UNCHANGED <<conf, tokens, ghosts>>

\* RoundTrip: the fast path, with a token or without a limiter.
Allow(s) ==
    /\ req[s].pc = "limiter"
    /\ Limited => tokens >= conf.every
    /\ tokens' = IF Limited THEN tokens - conf.every ELSE tokens
    /\ req' = [req EXCEPT ![s] = [@ EXCEPT !.pc = "send"]]
    /\ UNCHANGED <<conf, ghosts>>

\* No token: another request may be served before this one reserves its own.
Denied(s) ==
    /\ req[s].pc = "limiter"
    /\ Limited /\ tokens < conf.every
    /\ req' = [req EXCEPT ![s] = [@ EXCEPT !.pc = "denied"]]
    /\ UNCHANGED <<conf, tokens, ghosts>>

\* Mutant of Wait: the request asks again instead of reserving a token.
MutWaitPolls(s) ==
    /\ req[s].pc = "denied"
    /\ req' = [req EXCEPT ![s] = [@ EXCEPT !.pc = "limiter"]]
    /\ UNCHANGED <<conf, tokens, ghosts>>

\* limiter.Wait never fails: the context is never done and a token never
\* exceeds the depth.
Wait(s) ==
    /\ req[s].pc = "denied"
    /\ tokens' = tokens - conf.every
    /\ req' = [req EXCEPT ![s] =
                  [@ EXCEPT !.pc = "send", !.wait = PaidIn(conf.every - tokens)]]
    /\ UNCHANGED <<conf, ghosts>>

Send(s) ==
    /\ req[s].pc = "send"
    /\ req[s].wait = 0
    /\ req' = [req EXCEPT ![s] = [@ EXCEPT !.pc = "flight"]]
    /\ meter' = IF Limited THEN meter + conf.every ELSE meter
    /\ UNCHANGED <<conf, tokens, slept, foreign>>

\* Mutant of Exhausted: one retry too many.
MutExhaustedLate(s) == conf.retryMax - req[s].attempt < 0

Exhausted(s) == conf.retryMax - req[s].attempt <= 0

\* The request is over: an answer to decode, an error to report, or retries
\* used up.  Decoding may fail as well, which is not retried.
Finish(s, resp) ==
    /\ req[s].pc = "flight"
    /\ ~ShouldRetry(resp) \/ Exhausted(s)
    /\ req' = [req EXCEPT ![s] = IdleReq]
    /\ slept' = [slept EXCEPT ![s] = 0]
    /\ foreign' = [foreign EXCEPT ![s] = 0]
    /\ UNCHANGED <<conf, tokens, meter>>

\* What Foreman asks for in a header that only the library reads.
Foreign(resp) ==
    LET h == resp.retryAfter
    IN IF Throttled(resp) /\ h # NoHeader /\ h.form = "zoned"
       THEN Until(h.value) ELSE 0

\* A timer set to nothing, or to less, fires at once.
Backoff(s, resp) ==
    /\ req[s].pc = "flight"
    /\ ShouldRetry(resp) /\ ~Exhausted(s)
    /\ LET sleep == Greater(retryAfterBackoff(req[s].attempt, resp), 0)
       IN /\ req' = [req EXCEPT ![s] =
                        [@ EXCEPT !.pc = "backoff", !.wait = sleep]]
          /\ slept' = [slept EXCEPT ![s] = @ + sleep]
    /\ foreign' = [foreign EXCEPT ![s] = @ + Foreign(resp)]
    /\ UNCHANGED <<conf, tokens, meter>>

\* Mutant of Again: the limiter sits above the retry loop.
MutAgainUnpaced(s) ==
    /\ req[s].pc = "backoff"
    /\ req[s].wait = 0
    /\ req' = [req EXCEPT ![s] =
                  [@ EXCEPT !.pc = "send",
                            !.attempt = req[s].attempt + 1]]
    /\ UNCHANGED <<conf, tokens, ghosts>>

\* The next attempt goes through RoundTrip again.
Again(s) ==
    /\ req[s].pc = "backoff"
    /\ req[s].wait = 0
    /\ req' = [req EXCEPT ![s] =
                  [@ EXCEPT !.pc = "limiter",
                            !.attempt = req[s].attempt + 1]]
    /\ UNCHANGED <<conf, tokens, ghosts>>

-----------------------------------------------------------------------------
Answer(s) == \E resp \in Responses : Finish(s, resp) \/ Backoff(s, resp)

Run(s) == Allow(s) \/ Denied(s) \/ Wait(s) \/ Send(s) \/ Again(s)

\* A goroutine that can go on does so within the unit: it waits for Foreman,
\* for a timer, or for work.
Prompt ==
    \A s \in Slots :
        \/ req[s].pc \in {"idle", "flight"}
        \/ req[s].pc \in {"send", "backoff"} /\ req[s].wait > 0

Down(n) == Greater(n - 1, 0)

Tick ==
    /\ Prompt
    /\ tokens' = IF Limited THEN Lesser(tokens + 1, Depth) ELSE tokens
    /\ req' = [s \in Slots |->
                  [req[s] EXCEPT !.wait = Down(req[s].wait)]]
    /\ meter' = Down(meter)
    /\ UNCHANGED <<conf, slept, foreign>>

Next ==
    \/ \E s \in Slots : Do(s) \/ Run(s) \/ Answer(s)
    \/ Tick

\* The scheduler runs every goroutine, Foreman answers or refuses, and time
\* passes however busy the other slots are.
Spec ==
    /\ Init /\ [][Next]_vars
    /\ \A s \in Slots : WF_vars(Run(s)) /\ WF_vars(Answer(s))
    /\ SF_vars(Tick)

-----------------------------------------------------------------------------
(* Properties. *)

TypeOK ==
    /\ conf \in Configs
    /\ tokens \in Int /\ tokens <= Depth
    /\ req \in [Slots -> [pc: {"idle", "limiter", "denied", "send", "flight",
                               "backoff"},
                          attempt: 0..Greater(conf.retryMax, 0), wait: Nat]]
    /\ meter \in Nat
    /\ slept \in [Slots -> Nat] /\ foreign \in [Slots -> Nat]

(* Foreman never sees more than the configured burst above the configured
   rate, retries included: a meter there that drains at the rate and takes one
   token per attempt never rises above the depth of the bucket, however Allow
   and Wait of different slots interleave (rateLimitedRoundTripper). *)
Paced == Limited => meter <= Depth

(* With a cap, a request never sleeps longer in total than its retries allow,
   whatever seconds or HTTP date Foreman names, seconds that overflow a duration
   included: its slot is not lost for hours (retryAfterBackoff).  Only a date
   in another zone adds to that, and no more than it asks for: the library reads
   it where the client does not, and knows no cap (foreman.go:263). *)
SleepCapped ==
    conf.retryMaxWait > 0 =>
        \A s \in Slots :
            slept[s] <= Greater(conf.retryMax, 0)
                            * Greater(conf.retryMaxWait, RetryWaitMax)
                          + foreign[s]

(* A request ends after its last retry although other slots keep taking
   tokens: a reservation is never overtaken for good. *)
EveryRequestEnds == \A s \in Slots : req[s].pc # "idle" ~> req[s].pc = "idle"
=============================================================================
