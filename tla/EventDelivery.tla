---------------------------- MODULE EventDelivery ----------------------------
(***************************************************************************)
(* What ingest promises of each event, seen from outside: how far it has   *)
(* got on its way from the client to ClickHouse and which moves are legal. *)
(*                                                                         *)
(*   client       not accepted yet (or refused: the client keeps it)       *)
(*   held         accepted, in the memory of a process                     *)
(*   parked       in the dead-letter queue, to be replayed                 *)
(*   quarantined  in the dead-letter queue, given up on but kept           *)
(*   landed       in ClickHouse                                            *)
(*   lost         nowhere                                                  *)
(*                                                                         *)
(* An event is lost only from memory: once it is in a database it stays in *)
(* one.  Landed is final, so no event is ever taken back.                  *)
(***************************************************************************)
CONSTANT Event

VARIABLE stage

Init == stage = [e \in Event |-> "client"]

Legal == { <<"client", "held">>,
           <<"held", "parked">>, <<"held", "landed">>, <<"held", "lost">>,
           <<"parked", "landed">>, <<"parked", "quarantined">>,
           <<"quarantined", "landed">> }

\* Some events make the same move together.
Move ==
    \E S \in SUBSET Event, move \in Legal :
        /\ S # {}
        /\ \A e \in S : stage[e] = move[1]
        /\ stage' = [e \in Event |-> IF e \in S THEN move[2] ELSE stage[e]]

Spec == Init /\ [][Move]_stage
=============================================================================
