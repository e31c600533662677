-------------------------- MODULE MCAnalysisAccess --------------------------
(* A small instance of AnalysisAccess for TLC. *)
EXTENDS AnalysisAccess, TLC

CONSTANTS u1, u2, t1, t2, p1, p2

\* Two teams with a project each, the second still to be created; u2 starts
\* outside both.
MCTeamOf == p1 :> t1 @@ p2 :> t2
MCFounder == {<<u1, t1>>, <<u1, t2>>}
MCExisting == {p1}
=============================================================================
