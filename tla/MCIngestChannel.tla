--------------------------- MODULE MCIngestChannel ---------------------------
(* A small instance of IngestChannel for TLC. *)
EXTENDS IngestChannel, TLC

CONSTANTS e1, e2, e3, e4, e5, r1, r2, r3, r4

MCEvent == {e1, e2, e3, e4, e5}
MCRequest == {r1, r2, r3, r4}

\* A batch of FlushEvents (split when the buffer is not empty), two of one
\* event that do not both fit beside it under the ceiling of 4, an empty one.
MCEventsOf == r1 :> {e1, e2, e3} @@ r2 :> {e4} @@ r3 :> {e5} @@ r4 :> {}
=============================================================================
