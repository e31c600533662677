---------------------------- MODULE MCWebSession ----------------------------
(* WebSession for TLC: its .cfg files give every constant a value. *)
EXTENDS WebSession
=============================================================================
