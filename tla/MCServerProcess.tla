-------------------------- MODULE MCServerProcess ---------------------------
(* A small instance of ServerProcess for TLC. *)
EXTENDS ServerProcess, TLC

CONSTANTS e1, e2, e3, r1, r2

MCEvent == {e1, e2, e3}
MCRequest == {r1, r2}
MCUnparkable == {e3}
MCEventsOf == r1 :> {e1, e2} @@ r2 :> {e3}
=============================================================================
