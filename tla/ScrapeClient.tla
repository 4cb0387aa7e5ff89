---------------------------- MODULE ScrapeClient ----------------------------
(***************************************************************************)
(* What the collectors rely on when they ask the Foreman client for hosts  *)
(* or facts: every call returns, and while Foreman's hosts stay the same   *)
(* what it returns without an error is everything.  How the client pages,  *)
(* batches, retries and fans out is left to HostList and FactValues, which *)
(* implement this module; Outcomes of Collector is its Answers.            *)
(***************************************************************************)

VARIABLES
    calling,       \* the call is under way
    calm,          \* Foreman has not changed since the call began
    answer         \* what the last call returned

clientVars == <<calling, calm, answer>>

\* All of it; some of it, or nothing, beside an error; nothing to report.
Answers == {[data |-> "whole", err |-> FALSE], [data |-> "some", err |-> TRUE],
            [data |-> "none", err |-> TRUE], [data |-> "none", err |-> FALSE]}

\* Nothing is promised of an answer that Foreman's changes may have spoilt.
Spoilt == [data |-> "any", err |-> TRUE]

ClientInit == calling \in BOOLEAN /\ calm \in BOOLEAN /\ answer = Spoilt

Call ==
    /\ ~calling
    /\ calling' /\ calm'
    /\ answer' = Spoilt

Disturb ==
    /\ ~calm'
    /\ answer' = Spoilt
    /\ UNCHANGED calling

Return ==
    /\ calling
    /\ ~calling'
    /\ answer' \in IF calm THEN Answers ELSE {Spoilt}
    /\ UNCHANGED calm

ClientNext == Call \/ Disturb \/ Return

\* What a call may answer, and that it answers at all.
ClientSafety == ClientInit /\ [][ClientNext]_clientVars

ClientSpec == ClientSafety /\ (calling ~> ~calling)
=============================================================================
