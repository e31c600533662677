-------------------------- MODULE MCIngestPipeline --------------------------
(* Small instances of IngestPipeline for TLC. *)
EXTENDS IngestPipeline, TLC

CONSTANTS e1, e2, e3, r1, r2, i1, i2

\* One process: a batch of two events and one of one.
MCEvent == {e1, e2, e3}
MCRequest == {r1, r2}
MCEventsOf == r1 :> {e1, e2} @@ r2 :> {e3}

\* Two processes: one batch of one event.
MCOneEvent == {e1}
MCOneRequest == {r1}
MCOneEventsOf == r1 :> {e1}
=============================================================================
