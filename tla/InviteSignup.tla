---------------------------- MODULE InviteSignup ----------------------------
(***************************************************************************)
(* Invites and the accounts they open: POST /invites/{token}, by a         *)
(* stranger (signup) or by someone signed in (join), and a login that      *)
(* carries an invite.  All three end in one transaction that uses the      *)
(* invite up.                                                              *)
(*                                                                         *)
(* A request is a handler and happens once.  Each statement of its         *)
(* transaction is a step; what the transaction has written and not yet     *)
(* committed nobody else sees, but a statement that would write the same   *)
(* row waits for it to end (READ COMMITTED and unique indexes).  NOW() is  *)
(* the time at which the transaction began.  Any call may fail, and a      *)
(* commit may take effect although its reply is lost.  The personal team a *)
(* signup creates is named after the person.  Sessions are WebSession's.   *)
(***************************************************************************)
CONSTANTS
    Person,    \* emails, normalised
    Team, Invite, Request,
    Founder,   \* the memberships there are at the start
    Operator,  \* who opened the accounts there are at the start
    None

ASSUME InviteAssumption ==
    /\ Founder \subseteq Person \X Team
    /\ Person \cap Team = {}
    /\ None \notin Request \cup Person \cup Team \cup Invite \cup {Operator}
    /\ None \notin {"signup", "join", "login", "joined", "invalid", "taken", "error"}
    /\ Operator \notin Request

VARIABLES
    user,     \* [Person -> the request whose signup inserted the row, Operator, or None]
    member,   \* team_memberships
    invite,   \* team_invites
    request

vars == <<user, member, invite, request>>

\* team: None before the row is inserted.  by: the request that consumed it.
\* known: the URL was shown to the member who asked for it.
InviteType ==
    [team : Team \cup {None}, by : Request \cup {None}, expired : BOOLEAN, known : BOOLEAN]

\* wrote: the rows of the open transaction.  fresh: the invite had not expired
\* when the transaction began.  History: late, it had been used up or had
\* expired when the request arrived.
RequestType ==
    [pc : {"idle", "session", "begin", "user", "reread", "invite", "member", "commit", "done"},
     kind : {"signup", "join", "login", None},
     person : Person \cup {None}, invite : Invite \cup {None},
     wrote : SUBSET {"user", "invite", "member"}, fresh : BOOLEAN, late : BOOLEAN,
     answer : {"joined", "invalid", "taken", "error", None}]

Idle == [pc |-> "idle", kind |-> None, person |-> None, invite |-> None, wrote |-> {},
         fresh |-> FALSE, late |-> FALSE, answer |-> None]

Init ==
    /\ user = [p \in Person |-> IF \E t \in Team : <<p, t>> \in Founder THEN Operator ELSE None]
    /\ member = Founder
    /\ invite = [i \in Invite |-> [team |-> None, by |-> None, expired |-> FALSE, known |-> FALSE]]
    /\ request = [q \in Request |-> Idle]

\* The team the request's invite leads to.
Target(q) == invite[request[q].invite].team

\* consumed_at IS NULL.
Open(i) == invite[i].team # None /\ invite[i].by = None
-----------------------------------------------------------------------------
(* Issuing *)

\* postTeamInvites.  Nobody leaves a team, so that its membership checks and
\* the guarded insert are one step.  When the reply to the insert or the list
\* of members fails the row stays, and nobody ever sees the URL.
Issue(u, i, t) ==
    /\ <<u, t>> \in member
    /\ invite[i].team = None
    /\ \E known \in BOOLEAN :
          invite' = [invite EXCEPT ![i].team = t, ![i].known = known]
    /\ UNCHANGED <<user, member, request>>

\* InviteTTL has passed.
Expire(i) ==
    /\ invite[i].team # None
    /\ ~invite[i].expired
    /\ invite' = [invite EXCEPT ![i].expired = TRUE]
    /\ UNCHANGED <<user, member, request>>
-----------------------------------------------------------------------------
(* Requests *)

\* Someone with the URL posts it.  Only a person with an account is signed in
\* or passes Authenticate.
Arrive(q, kind, p, i) ==
    /\ request[q].pc = "idle"
    /\ invite[i].known
    /\ kind # "signup" => user[p] # None
    /\ request' = [request EXCEPT ![q] =
          [Idle EXCEPT !.pc = IF kind = "login" THEN "session" ELSE "begin", !.kind = kind,
                       !.person = p, !.invite = i, !.late = ~Open(i) \/ invite[i].expired]]
    /\ UNCHANGED <<user, member, invite>>

Goto(q, label) == request' = [request EXCEPT ![q].pc = label]

\* Mutant: the transaction is left open.
FinishLeaks(q, answer) ==
    request' = [request EXCEPT ![q].pc = "done", ![q].answer = answer]

\* The handler returns; the deferred rollback ends what was not committed.
Finish(q, answer) ==
    request' = [request EXCEPT ![q].pc = "done", ![q].answer = answer, ![q].wrote = {}]

\* CreateSession: first for a login, last for a signup.
CreateSession(q) ==
    /\ request[q].pc = "session"
    /\ IF request[q].kind = "login" THEN Goto(q, "begin") ELSE Finish(q, "joined")
    /\ UNCHANGED <<user, member, invite>>

\* Mutant: the expiry is not asked for.
BeginFresh(q) ==
    /\ request[q].pc = "begin"
    /\ request' = [request EXCEPT ![q].pc = IF request[q].kind = "signup" THEN "user" ELSE "invite",
                                  ![q].fresh = TRUE]
    /\ UNCHANGED <<user, member, invite>>

\* BeginTx fixes NOW().
Begin(q) ==
    /\ request[q].pc = "begin"
    /\ request' = [request EXCEPT ![q].pc = IF request[q].kind = "signup" THEN "user" ELSE "invite",
                                  ![q].fresh = ~invite[request[q].invite].expired]
    /\ UNCHANGED <<user, member, invite>>

Write(q, row, label) ==
    request' = [request EXCEPT ![q].wrote = @ \cup {row}, ![q].pc = label]

\* The other open transactions that hold a lock on such a row.
Holders(q, row) == {r \in Request \ {q} : row \in request[r].wrote}

\* CreateUser, and the team and membership that only this transaction knows of.
\* The email has an account: nothing was written, and the page is shown again.
CreateUser(q) ==
    LET p == request[q].person IN
    /\ request[q].pc = "user"
    /\ \A r \in Holders(q, "user") : request[r].person # p
    /\ IF user[p] # None THEN Goto(q, "reread") ELSE Write(q, "user", "invite")
    /\ UNCHANGED <<user, member, invite>>

\* renderAnonInviteError: the page names the team of an invite that is active
\* still; otherwise it says that the invite is invalid.
Reread(q) ==
    LET i == request[q].invite IN
    /\ request[q].pc = "reread"
    /\ Finish(q, IF Open(i) /\ ~invite[i].expired THEN "taken" ELSE "invalid")
    /\ UNCHANGED <<user, member, invite>>

\* Mutant: the invite is read first and marked with the commit.
ConsumeUnlocked(q) ==
    LET i == request[q].invite IN
    /\ request[q].pc = "invite"
    /\ IF Open(i) /\ request[q].fresh THEN Write(q, "invite", "member") ELSE Finish(q, "invalid")
    /\ UNCHANGED <<user, member, invite>>

\* ConsumeInviteByHash: after waiting, the condition is evaluated again.
Consume(q) ==
    LET i == request[q].invite IN
    /\ request[q].pc = "invite"
    /\ \A r \in Holders(q, "invite") : request[r].invite # i
    /\ IF Open(i) /\ request[q].fresh THEN Write(q, "invite", "member") ELSE Finish(q, "invalid")
    /\ UNCHANGED <<user, member, invite>>

\* CreateTeamMembershipIfMissing, and the read of the team.
AddMember(q) ==
    /\ request[q].pc = "member"
    /\ \A r \in Holders(q, "member") : <<request[r].person, Target(r)>> # <<request[q].person, Target(q)>>
    /\ Write(q, "member", "commit")
    /\ UNCHANGED <<user, member, invite>>

\* What the transaction wrote becomes visible.
Land(q) ==
    LET r == request[q] IN
    /\ user' = IF "user" \in r.wrote THEN [user EXCEPT ![r.person] = q] ELSE user
    /\ member' = member \cup (IF "user" \in r.wrote THEN {<<r.person, r.person>>} ELSE {})
                        \cup (IF "member" \in r.wrote THEN {<<r.person, Target(q)>>} ELSE {})
    /\ invite' = IF "invite" \in r.wrote THEN [invite EXCEPT ![r.invite].by = q] ELSE invite

Commit(q) ==
    /\ request[q].pc = "commit"
    /\ Land(q)
    /\ IF request[q].kind = "signup"
       THEN request' = [request EXCEPT ![q].pc = "session", ![q].wrote = {}]
       ELSE Finish(q, "joined")

\* The commit takes effect, its reply is lost: 500.
CommitUnheard(q) ==
    /\ request[q].pc = "commit"
    /\ Land(q)
    /\ Finish(q, "error")

\* A call fails: 500, and the transaction, if one is open, is rolled back.
Fail(q) ==
    /\ request[q].pc \notin {"idle", "done"}
    /\ Finish(q, "error")
    /\ UNCHANGED <<user, member, invite>>

Proceed(q) ==
    \/ CreateSession(q) \/ Begin(q) \/ CreateUser(q) \/ Reread(q)
    \/ Consume(q) \/ AddMember(q) \/ Commit(q)
-----------------------------------------------------------------------------
Next ==
    \/ \E u \in Person, i \in Invite, t \in Team : Issue(u, i, t)
    \/ \E i \in Invite : Expire(i)
    \/ \E q \in Request :
          \/ \E kind \in {"signup", "join", "login"}, p \in Person, i \in Invite : Arrive(q, kind, p, i)
          \/ Proceed(q) \/ CommitUnheard(q) \/ Fail(q)

\* A handler goes on when its call returns; nobody has to come, and no call
\* has to fail.
Spec == Init /\ [][Next]_vars
FairSpec == Spec /\ \A q \in Request : WF_vars(Proceed(q))
-----------------------------------------------------------------------------
\* What a transaction has written is what its handler has got to, and nothing
\* stays written when the handler has returned.
Written(r) ==
    CASE r.pc = "commit" -> {"invite", "member"}
      [] r.pc = "member" -> {"invite"}
      [] OTHER -> {}

TypeOK ==
    /\ user \in [Person -> Request \cup {Operator, None}]
    /\ member \subseteq Person \X (Team \cup Person)
    /\ invite \in [Invite -> InviteType]
    /\ request \in [Request -> RequestType]
    /\ \A q \in Request :
          LET r == request[q] IN
          /\ r.pc = "idle" => r = Idle
          /\ r.pc # "idle" => r.kind # None /\ r.person # None /\ r.invite # None /\ Target(q) # None
          /\ r.pc = "done" <=> r.answer # None
          /\ r.wrote = Written(r) \cup
                (IF r.kind = "signup" /\ r.pc \in {"invite", "member", "commit"} THEN {"user"} ELSE {})

\* Whatever races, fails or expires: an answer is true when it is given and
\* for ever after.  Who is told to have joined is a member, through this very
\* request, which found the invite unused and in time; who is told that the
\* invite is no longer valid, or the email registered, has changed nothing.
AnswersTrue ==
    \A q \in Request :
        LET r == request[q]
            changed == (\E p \in Person : user[p] = q) \/ (\E i \in Invite : invite[i].by = q)
        IN
        /\ r.answer = "joined" =>
              /\ invite[r.invite].by = q /\ ~r.late
              /\ user[r.person] # None /\ <<r.person, Target(q)>> \in member
              /\ r.kind = "signup" => user[r.person] = q /\ <<r.person, r.person>> \in member
        /\ r.answer \in {"invalid", "taken"} => ~changed
        /\ r.answer = "taken" => user[r.person] # None

\* The invite and the memberships it makes change together: see InviteContract.
Contract == INSTANCE InviteContract WITH
    account <- {p \in Person : user[p] # None},
    belongs <- member,
    leads <- [i \in Invite |-> invite[i].team],
    taken <- [i \in Invite |-> IF invite[i].by = None THEN None ELSE request[invite[i].by].person]
ImplementsInviteContract == Contract!Spec

\* Transactions that wait for each other's rows do not wait for ever: a
\* request is answered, also when no call ever fails.
ClaimsEnd == \A q \in Request : request[q].pc # "idle" ~> request[q].pc = "done"
=============================================================================
