--------------------------- MODULE MCInviteSignup ---------------------------
(* A small instance of InviteSignup for TLC. *)
EXTENDS InviteSignup

CONSTANTS ann, bob, cat, t1

\* One founder and two strangers.
MCFounder == {<<ann, t1>>}
=============================================================================
