---------------------------- MODULE MCOAuthFlow ----------------------------
(* OAuthFlow for TLC: its .cfg file gives every constant a value. *)
EXTENDS OAuthFlow
=============================================================================
