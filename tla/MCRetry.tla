------------------------------ MODULE MCRetry ------------------------------
(* Two slots; durations up to 15 units, so that nine seconds of two units wrap
   round to a negative one. *)
EXTENDS Retry

Header(form, value) == [form |-> form, value |-> value]
With(status, header) == [status |-> status, retryAfter |-> header]

(* An answer; a refusal for good; retries without a header, with one that does
   not count, and with each kind that does: a delay, one beyond the cap, one
   that overflows, one no int can hold, a negative one, dates past and to
   come, in GMT and in another zone, text. *)
ManyResponses ==
    {With("2xx", NoHeader), With("4xx", NoHeader), With("501", NoHeader),
     With("5xx", Header("seconds", 3)), With("refused", NoHeader),
     With("badTLS", NoHeader), With("429", NoHeader)}
    \cup {With("429", Header("seconds", n)) : n \in {-1, 1, 3, 9, 16}}
    \cup {With("503", Header("date", d)) : d \in {-1, 2}}
    \cup {With("429", Header("zoned", d)) : d \in {-1, 5}}
    \cup {With("503", [form |-> "text"])}

Usual == [every |-> 2, burst |-> 0, retryMax |-> 2, retryMaxWait |-> 3]

\* A token in two units; a deeper bucket; no cap and two tokens a second; no
\* limit at all and no retry.
ManyConfigs ==
    {Usual, [Usual EXCEPT !.burst = 2, !.retryMax = 1],
     [Usual EXCEPT !.every = 1, !.retryMax = 1, !.retryMaxWait = 0],
     [Usual EXCEPT !.every = 0, !.retryMax = -1]}
=============================================================================
