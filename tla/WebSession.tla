----------------------------- MODULE WebSession -----------------------------
(***************************************************************************)
(* The browser sessions of one user: login, the middleware in front of     *)
(* every page (lookup, sliding renewal, the must_change_password gate),    *)
(* logout, the change of password, the operator's reset of it, and the     *)
(* sweep of expired rows.  Sessions of other users have rows of their own: *)
(* every statement names one session or one user.                          *)
(*                                                                         *)
(* A request is a handler; each call it makes on Postgres is a step, and   *)
(* any call may fail, before or after it took effect.  What a request is   *)
(* answered is not kept: once answered it is idle again.  A cookie's       *)
(* Max-Age is the client's to keep, so an id once handed out may be shown  *)
(* at any time.  The clocks of server and database agree.                  *)
(***************************************************************************)
EXTENDS Integers

CONSTANTS
    Session,               \* ids; a UUID is used once
    Request,
    SlidingWindow, MaxLifetime,
    None,
    MaxTime, MaxPassword   \* bounds: the clock, and the passwords ever set

ASSUME SessionAssumption ==
    /\ SlidingWindow \in Nat \ {0}
    /\ MaxLifetime \in Nat \ {0}
    /\ MaxTime \in Nat
    /\ MaxPassword \in Nat \ {0}
    /\ None \notin Nat \cup Session

VARIABLES
    now,
    created,     \* [Session -> created_at, or None until the row is inserted]
    expires,     \* [Session -> expires_at, or None when there is no row]
    held,        \* the sessions whose id was sent to the client
    password,    \* users.password_hash: the number of the password in force
    mustChange,  \* users.must_change_password
    request

rows == <<created, expires, held>>
account == <<password, mustChange>>
vars == <<now, rows, account, request>>

Page == {"content", "account/password", "logout"}
Label == {"idle", "signing", "inserted", "arrived", "read", "stale", "renewing", "handling", "verified"}

\* session: the one the request shows or opens.  expiry: its expires_at, as
\* read and then as renewed.  flag: must_change_password as the lookup read
\* it.  seen: the password the request was verified against.  History: late,
\* the session was over when the request arrived; forced, the flag has been up
\* ever since it arrived.
RequestType ==
    [pc : Label, page : Page \cup {None}, session : Session \cup {None}, expiry : Nat,
     flag : BOOLEAN, seen : Nat, late : BOOLEAN, forced : BOOLEAN]

Fresh == [pc |-> "idle", page |-> None, session |-> None, expiry |-> 0,
          flag |-> FALSE, seen |-> 0, late |-> FALSE, forced |-> FALSE]

Init ==
    /\ now = 0
    /\ created = [s \in Session |-> None]
    /\ expires = [s \in Session |-> None]
    /\ held = {}
    /\ password = 1
    /\ mustChange = TRUE     \* create-user.sql
    /\ request = [r \in Request |-> Fresh]

Least(a, b) == IF a < b THEN a ELSE b

\* A session is over when its row was deleted or its lifetime has passed.
Over(s) == created[s] # None /\ (expires[s] = None \/ created[s] + MaxLifetime <= now)

\* The request is answered.
Answer(r) == request' = [request EXCEPT ![r] = Fresh]
-----------------------------------------------------------------------------
(* POST /login; a stranger who accepts an invite is signed in the same way *)

\* Authenticate: the password shown is the one in force.
Authenticate(r) ==
    /\ request[r].pc = "idle"
    /\ request' = [request EXCEPT ![r].pc = "signing"]
    /\ UNCHANGED <<now, rows, account>>

\* CreateSession's insert.  A reply may be lost.  The bound on the clock leaves
\* a session time to end.
Insert(r) ==
    /\ request[r].pc = "signing"
    /\ now + MaxLifetime < MaxTime
    /\ \E s \in Session :
          /\ created[s] = None
          /\ created' = [created EXCEPT ![s] = now]
          /\ expires' = [expires EXCEPT ![s] = now + Least(SlidingWindow, MaxLifetime)]
          /\ \/ request' = [request EXCEPT ![r].pc = "inserted", ![r].session = s]
             \/ Answer(r)
    /\ UNCHANGED <<now, held, account>>

\* GetUserByID and the cookie.  If the call fails the row stays, and nobody
\* ever knows its id.
Fetch(r) ==
    /\ request[r].pc = "inserted"
    /\ held' \in {held, held \cup {request[r].session}}
    /\ Answer(r)
    /\ UNCHANGED <<now, created, expires, account>>

Login(r) == Authenticate(r) \/ Insert(r) \/ Fetch(r)
-----------------------------------------------------------------------------
(* authMiddleware *)

Arrive(r, s, p) ==
    /\ request[r].pc = "idle"
    /\ request' = [request EXCEPT ![r] =
          [pc |-> "arrived", page |-> p, session |-> s, expiry |-> 0, flag |-> FALSE, seen |-> 0,
           late |-> Over(s), forced |-> mustChange]]
    /\ UNCHANGED <<now, rows, account>>

\* Mutant: the flag binds only a session that has just begun.
LookupFlagOfLogin(r) ==
    LET s == request[r].session IN
    /\ request[r].pc = "arrived"
    /\ IF expires[s] = None THEN Answer(r)
       ELSE request' = [request EXCEPT ![r].pc = "read", ![r].expiry = expires[s],
                                       ![r].flag = mustChange /\ created[s] = now]
    /\ UNCHANGED <<now, rows, account>>

\* GetSessionWithUser: the session and its user in one read.
Lookup(r) ==
    LET s == request[r].session IN
    /\ request[r].pc = "arrived"
    /\ IF expires[s] = None THEN Answer(r)
       ELSE request' = [request EXCEPT ![r].pc = "read", ![r].expiry = expires[s], ![r].flag = mustChange]
    /\ UNCHANGED <<now, rows, account>>

\* Mutant: the cap counts from now.
RenewedForEver(s) == Least(now + SlidingWindow, now + MaxLifetime)

\* TouchSession's target.
Renewed(s) == Least(now + SlidingWindow, created[s] + MaxLifetime)

\* Past the middleware, or redirected by the gate to the change of password.
Admitted(r) ==
    IF request[r].flag /\ request[r].page = "content" THEN Fresh
    ELSE [pc |-> "handling", page |-> request[r].page, session |-> request[r].session, expiry |-> 0,
          flag |-> FALSE, seen |-> 0, late |-> request[r].late, forced |-> request[r].forced]

\* LookupSession and TouchSession compare what was read: the row may have
\* changed since, and may change before the next call gets there.
Judge(r) ==
    LET new == Renewed(request[r].session)
        old == request[r].expiry
    IN
    /\ request[r].pc = "read"
    /\ \/ /\ old <= now
          /\ request' = [request EXCEPT ![r].pc = "stale"]
       \/ /\ now < old /\ old < new
          /\ request' = [request EXCEPT ![r].pc = "renewing", ![r].expiry = new]
       \/ /\ now < old /\ new <= old
          /\ request' = [request EXCEPT ![r] = Admitted(r)]
    /\ UNCHANGED <<now, rows, account>>

Without(s) == [expires EXCEPT ![s] = None]

\* The expired row is deleted by its id, renewed or not.
DeleteStale(r) ==
    /\ request[r].pc = "stale"
    /\ expires' \in {expires, Without(request[r].session)}
    /\ Answer(r)
    /\ UNCHANGED <<now, created, held, account>>

\* Mutant: INSERT ... ON CONFLICT DO UPDATE.
RenewUpserts(r) ==
    /\ request[r].pc = "renewing"
    /\ expires' \in {expires, [expires EXCEPT ![request[r].session] = request[r].expiry]}
    /\ request' = [request EXCEPT ![r] = Admitted(r)]
    /\ UNCHANGED <<now, created, held, account>>

\* TouchSession's UPDATE.  No row is no error, and an error only a warning.
Renew(r) ==
    LET s == request[r].session IN
    /\ request[r].pc = "renewing"
    /\ \/ UNCHANGED expires
       \/ expires[s] # None /\ expires' = [expires EXCEPT ![s] = request[r].expiry]
    /\ request' = [request EXCEPT ![r] = Admitted(r)]
    /\ UNCHANGED <<now, created, held, account>>

\* The lookup fails: 500.
LookupFails(r) ==
    /\ request[r].pc = "arrived"
    /\ Answer(r)
    /\ UNCHANGED <<now, rows, account>>

Middleware(r) == Lookup(r) \/ LookupFails(r) \/ Judge(r) \/ DeleteStale(r) \/ Renew(r)
-----------------------------------------------------------------------------
(* The pages *)

Handling(r, p) == request[r].pc = "handling" /\ request[r].page = p

ShowContent(r) ==
    /\ Handling(r, "content")
    /\ Answer(r)
    /\ UNCHANGED <<now, rows, account>>

\* A failed DELETE is only a warning: the cookie is cleared all the same.
Logout(r) ==
    /\ Handling(r, "logout")
    /\ expires' \in {expires, Without(request[r].session)}
    /\ Answer(r)
    /\ UNCHANGED <<now, created, held, account>>

\* ChangePassword reads the user and compares the current password, or the
\* form is refused.
VerifyPassword(r) ==
    /\ Handling(r, "account/password")
    /\ \/ request' = [request EXCEPT ![r].pc = "verified", ![r].seen = password]
       \/ Answer(r)
    /\ UNCHANGED <<now, rows, account>>

\* UpdateUserPassword: WHERE id = $1, whatever was seen.
WritePassword(r) ==
    /\ request[r].pc = "verified"
    /\ \/ /\ password < MaxPassword
          /\ password' = password + 1
          /\ mustChange' = FALSE
          /\ request' = [q \in Request |-> IF q = r THEN Fresh ELSE [request[q] EXCEPT !.forced = FALSE]]
       \/ Answer(r) /\ UNCHANGED account
    /\ UNCHANGED <<now, rows>>

Handle(r) == ShowContent(r) \/ Logout(r) \/ VerifyPassword(r) \/ WritePassword(r)
-----------------------------------------------------------------------------
(* The operator, the scheduler and the clock *)

\* scripts/operator/reset-password.sql.  Sessions are left alone.
ResetPassword ==
    /\ password < MaxPassword
    /\ password' = password + 1
    /\ mustChange' = TRUE
    /\ UNCHANGED <<now, rows, request>>

\* cmd/maintenance: DELETE FROM sessions WHERE expires_at < NOW().
Sweep ==
    /\ expires' = [s \in Session |-> IF expires[s] # None /\ expires[s] < now THEN None ELSE expires[s]]
    /\ UNCHANGED <<now, created, held, account, request>>

Tick ==
    /\ now < MaxTime
    /\ now' = now + 1
    /\ UNCHANGED <<rows, account, request>>
-----------------------------------------------------------------------------
Next ==
    \/ \E r \in Request : Login(r) \/ Middleware(r) \/ Handle(r)
    \/ \E r \in Request, s \in held, p \in Page : Arrive(r, s, p)
    \/ ResetPassword
    \/ Sweep
    \/ Tick

Spec == Init /\ [][Next]_vars

\* Time passes, and the scheduler keeps running a sweep that succeeds.
FairSpec == Spec /\ WF_vars(Tick) /\ WF_vars(Sweep)
-----------------------------------------------------------------------------
TypeOK ==
    /\ now \in Nat
    /\ created \in [Session -> Nat \cup {None}]
    /\ expires \in [Session -> Nat \cup {None}]
    /\ held \subseteq Session
    /\ password \in Nat
    /\ mustChange \in BOOLEAN
    /\ request \in [Request -> RequestType]
    /\ \A s \in Session :
          /\ s \in held \/ expires[s] # None => created[s] # None
          /\ expires[s] # None => expires[s] <= created[s] + MaxLifetime

LetIn(r) == request[r].pc \in {"renewing", "handling", "verified"}

\* auth/service.go: "hard cap of 30 days from CreatedAt", and a logout is one.
\* A request that arrives after its session was deleted, or after its lifetime
\* has passed, is not let in: no renewal in flight brings a session back.
OverIsFinal == \A r \in Request : request[r].late => ~LetIn(r)

\* self-host.md: "they're forced to rotate it".  While a password waits to be
\* changed, a request reaches no content, through any session opened before
\* or after the flag was put up.
GateHolds == \A r \in Request : request[r].forced => ~Handling(r, "content")

\* maintenance.go: no table "would otherwise grow monotonically".  Every row of
\* a session is gone in the end, however often it is renewed.
RowsGo == \A s \in Session : expires[s] # None ~> expires[s] = None

\* reset-password.sql: "The user is forced to change their password on next
\* login via must_change_password."  The flag goes down only through a request
\* that knew the password that was in force.
ResetHolds ==
    [][mustChange /\ ~mustChange' =>
          \E r \in Request : request[r].pc = "verified" /\ request[r].seen = password]_vars
=============================================================================
