--------------------------- MODULE InviteContract ---------------------------
(***************************************************************************)
(* What an invite promises: a member of a team issues it, and it makes one *)
(* person a member of that team, once, in the same step that uses it up.   *)
(* A stranger who accepts it gets an account and a personal team in that   *)
(* step too, or nothing at all.                                            *)
(***************************************************************************)
CONSTANTS Person, Team, Invite, Founder, None

VARIABLES
    account,   \* the persons with an account
    belongs,   \* (person, team); a person's own team bears the person's name
    leads,     \* [Invite -> the team it leads to, or None: not issued]
    taken      \* [Invite -> who has used it, or None]

cvars == <<account, belongs, leads, taken>>

Init ==
    /\ account = {f[1] : f \in Founder}
    /\ belongs = Founder
    /\ leads = [i \in Invite |-> None]
    /\ taken = [i \in Invite |-> None]

Issue(u, i, t) ==
    /\ <<u, t>> \in belongs
    /\ leads[i] = None
    /\ leads' = [leads EXCEPT ![i] = t]
    /\ UNCHANGED <<account, belongs, taken>>

Use(p, i) ==
    /\ leads[i] # None
    /\ taken[i] = None
    /\ taken' = [taken EXCEPT ![i] = p]
    /\ UNCHANGED leads

\* Someone with an account joins the team.
Claim(p, i) ==
    /\ p \in account
    /\ Use(p, i)
    /\ belongs' = belongs \cup {<<p, leads[i]>>}
    /\ UNCHANGED account

\* A stranger joins it.
Enroll(p, i) ==
    /\ p \notin account
    /\ Use(p, i)
    /\ account' = account \cup {p}
    /\ belongs' = belongs \cup {<<p, p>>, <<p, leads[i]>>}

Next ==
    \/ \E u \in Person, i \in Invite, t \in Team : Issue(u, i, t)
    \/ \E p \in Person, i \in Invite : Claim(p, i) \/ Enroll(p, i)

Spec == Init /\ [][Next]_cvars
=============================================================================
