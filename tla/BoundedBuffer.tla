---------------------------- MODULE BoundedBuffer ----------------------------
(***************************************************************************)
(* What internal/ingest promises of Submit, whatever the number of         *)
(* concurrent callers: a request's events enter the buffer all at once or  *)
(* not at all, the caller learns which, and the buffer never holds more    *)
(* than the ceiling (INGEST_EVENT_BUFFER).  IngestChannel is the detailed  *)
(* specification that implements this one.                                 *)
(***************************************************************************)
EXTENDS Naturals, FiniteSets

CONSTANTS
    Request,     \* the batches handed to Submit, each once
    EventsOf,    \* the events of each batch
    Ceiling      \* the most events the buffer may hold

VARIABLES
    outcome,     \* what the caller of Submit has been told
    held         \* the events accepted and not yet released by the consumer

vars == <<outcome, held>>

Init ==
    /\ outcome = [r \in Request |-> "open"]
    /\ held = {}

Decide(r, answer) ==
    /\ outcome[r] = "open"
    /\ outcome' = [outcome EXCEPT ![r] = answer]

Accept(r) ==
    /\ Decide(r, "accepted")
    /\ Cardinality(held \cup EventsOf[r]) <= Ceiling
    /\ held' = held \cup EventsOf[r]

\* Refused with ErrChannelFull, or failed by a panic: nothing is held.
Decline(r) ==
    /\ Decide(r, "refused") \/ Decide(r, "failed")
    /\ UNCHANGED held

Release ==
    /\ \E S \in SUBSET held : S # {} /\ held' = held \ S
    /\ UNCHANGED outcome

Next ==
    \/ \E r \in Request : Accept(r) \/ Decline(r)
    \/ Release

Spec == Init /\ [][Next]_vars
=============================================================================
