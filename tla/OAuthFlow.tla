----------------------------- MODULE OAuthFlow -----------------------------
(***************************************************************************)
(* The authorization-code flow: clients that register (POST                *)
(* /oauth/register), approvals (POST /oauth/authorize), the exchange of    *)
(* codes for access tokens (POST /oauth/token) by requesters that race     *)
(* each other, and the maintenance sweep that deletes expired codes and    *)
(* tokens meanwhile.                                                       *)
(*                                                                         *)
(* A handler is one process with a step per database call.  A call may     *)
(* fail, before or after it took effect; a handler whose process dies      *)
(* between two calls is one whose next call fails.  Time is the freedom of *)
(* a code or a token to expire at any moment.  A code is bound to a        *)
(* client, a redirect URI and a PKCE challenge; S256 is injective, so the  *)
(* challenge is written as the verifier it was made from.                  *)
(***************************************************************************)
EXTENDS Integers, FiniteSets

CONSTANTS
    Client, Redirect, Verifier,
    Challenge,    \* bound: the verifiers approvals are made with; the others are wrong for any code
    Allowed,      \* the URIs validateRedirectURI accepts: https, or loopback
    Grantee,      \* (user, project) pairs that can be granted
    Code,         \* approvals, each of which may mint a code
    Exchange,     \* requesters at /oauth/token
    None,
    MaxFaults     \* bound: failed database calls

ASSUME OAuthAssumption ==
    /\ Allowed \subseteq Redirect
    /\ Challenge \subseteq Verifier
    /\ MaxFaults \in Nat

\* What ConsumeCode compares with what the requester shows.
Binding == [client : Client, redirect : Redirect, verifier : Verifier]
Asked == {b \in Binding : b.verifier \in Challenge}
ASSUME NoneAssumption == None \notin Binding \cup Grantee \cup Code

VARIABLES
    registered, \* oauth_clients: the redirect URIs of each client, {} if it has no row
    code,       \* oauth_codes
    exchange,   \* each requester's handler
    tokens,     \* oauth_access_tokens, deleted rows included
    sweep,      \* where maintenance.Run is
    faults

vars == <<registered, code, exchange, tokens, sweep, faults>>

\* state: the approval's form, a checked project, a stored row, or no row
\* again.  sent: the redirect carrying the code has reached the client.
CodeType ==
    [state : {"form", "denied", "checked", "stored", "failed", "deleted"}, binding : Binding \cup {None},
     grantee : Grantee \cup {None}, used : BOOLEAN, expired : BOOLEAN, sent : BOOLEAN]

ExchangeType ==
    [at : {"idle", "verified", "marked", "done", "refused", "failed"},
     code : Code \cup {None}, shown : Binding \cup {None}]

TokenType ==
    [code : Code, by : Exchange, shown : Binding, client : Client, grantee : Grantee,
     expired : BOOLEAN, deleted : BOOLEAN]

Blank == [state |-> "form", binding |-> None, grantee |-> None,
          used |-> FALSE, expired |-> FALSE, sent |-> FALSE]
Fresh(a) == [at |-> a, code |-> None, shown |-> None]

Init ==
    /\ registered = [cl \in Client |-> {}]
    /\ code = [c \in Code |-> Blank]
    /\ exchange = [x \in Exchange |-> Fresh("idle")]
    /\ tokens = {}
    /\ sweep = "idle"
    /\ faults = 0

Fault == faults < MaxFaults /\ faults' = faults + 1

\* GetActiveOAuthCodeByHash: the row is there, unused and not expired.
Active(c) == code[c].state = "stored" /\ ~code[c].used /\ ~code[c].expired
-----------------------------------------------------------------------------
(* POST /oauth/register *)

\* validateRedirectURI passes every one of them, and there is one.
Acceptable(uris) == uris # {} /\ uris \subseteq Allowed

\* RegisterClient inserts the row, and the client learns its id.
Register(cl, uris) ==
    /\ registered[cl] = {}
    /\ Acceptable(uris)
    /\ registered' = [registered EXCEPT ![cl] = uris]
    /\ UNCHANGED <<code, exchange, tokens, sweep, faults>>

\* 500.  If there is a row all the same, nobody was told its id: it is no
\* client's.
RegisterFails ==
    /\ Fault
    /\ UNCHANGED <<registered, code, exchange, tokens, sweep>>
-----------------------------------------------------------------------------
(* POST /oauth/authorize *)

\* validateAuthorizeRequest: the client is known and the URI is one of its own.
\* Else the answer is 400, and nothing is sent to that URI.
Valid(b) == b.redirect \in registered[b.client]

Filled(s, b, g) ==
    [state |-> s, binding |-> b, grantee |-> g, used |-> FALSE, expired |-> FALSE, sent |-> FALSE]

\* The user denies, or approves what cannot be approved: a redirect with an
\* error.
Deny(c) ==
    /\ code[c].state = "form"
    /\ \E b \in Asked : Valid(b) /\ code' = [code EXCEPT ![c] = Filled("denied", b, None)]
    /\ UNCHANGED <<registered, exchange, tokens, sweep, faults>>

\* The visibility check passes.  Whether a project is visible is
\* AnalysisAccess's subject.
CheckApproval(c) ==
    /\ code[c].state = "form"
    /\ \E b \in Asked, g \in Grantee :
          Valid(b) /\ code' = [code EXCEPT ![c] = Filled("checked", b, g)]
    /\ UNCHANGED <<registered, exchange, tokens, sweep, faults>>

\* IssueCode.  After a failed call the handler redirects with server_error.
StoreCode(c) ==
    /\ code[c].state = "checked"
    /\ \/ code' = [code EXCEPT ![c].state = "stored", ![c].sent = TRUE] /\ UNCHANGED faults
       \/ Fault /\ \E s \in {"stored", "failed"} : code' = [code EXCEPT ![c].state = s]
    /\ UNCHANGED <<registered, exchange, tokens, sweep>>

Approve(c) == Deny(c) \/ CheckApproval(c) \/ StoreCode(c)
-----------------------------------------------------------------------------
(* POST /oauth/token *)

Ready(x) == exchange[x].at \in {"idle", "refused", "failed"}

\* Mutant: the proof is compared after the row is marked.
LookupBurns(x, c, b) ==
    /\ Ready(x)
    /\ code[c].sent
    /\ IF Active(c)
       THEN /\ code' = [code EXCEPT ![c].used = TRUE]
            /\ exchange' = [exchange EXCEPT ![x] =
                  IF code[c].binding = b THEN [at |-> "marked", code |-> c, shown |-> b] ELSE Fresh("refused")]
       ELSE exchange' = [exchange EXCEPT ![x] = Fresh("refused")] /\ UNCHANGED code
    /\ UNCHANGED <<registered, tokens, sweep, faults>>

\* Mutant: the redirect URI is not compared.
LookupAnyRedirect(x, c, b) ==
    /\ Ready(x)
    /\ code[c].sent
    /\ exchange' = [exchange EXCEPT ![x] =
          IF Active(c) /\ code[c].binding.client = b.client /\ code[c].binding.verifier = b.verifier
          THEN [at |-> "verified", code |-> c, shown |-> b] ELSE Fresh("refused")]
    /\ UNCHANGED <<registered, code, tokens, sweep, faults>>

\* A requester shows a code and a proof: ConsumeCode reads the row and
\* compares.  A wrong proof leaves the row as it is.
Lookup(x, c, b) ==
    /\ Ready(x)
    /\ code[c].sent
    /\ exchange' = [exchange EXCEPT ![x] =
          IF Active(c) /\ code[c].binding = b
          THEN [at |-> "verified", code |-> c, shown |-> b] ELSE Fresh("refused")]
    /\ UNCHANGED <<registered, code, tokens, sweep, faults>>

\* The lookup itself fails: 500, nothing done.
LookupFails(x) ==
    /\ Ready(x)
    /\ Fault
    /\ exchange' = [exchange EXCEPT ![x] = Fresh("failed")]
    /\ UNCHANGED <<registered, code, tokens, sweep>>

\* Mutant: UPDATE ... WHERE id = $1.
MarkBlind(x) ==
    LET c == exchange[x].code IN
    /\ exchange[x].at = "verified"
    /\ code' = [code EXCEPT ![c].used = TRUE]
    /\ exchange' = [exchange EXCEPT ![x].at = "marked"]
    /\ UNCHANGED <<registered, tokens, sweep, faults>>

\* MarkOAuthCodeUsed: UPDATE ... WHERE id = $1 AND used_at IS NULL.  It does
\* not look at expires_at again; the row may also have been swept.
Mark(x) ==
    LET c == exchange[x].code
        live == code[c].state = "stored" /\ ~code[c].used
    IN
    /\ exchange[x].at = "verified"
    /\ \/ /\ live
          /\ code' = [code EXCEPT ![c].used = TRUE]
          /\ exchange' = [exchange EXCEPT ![x].at = "marked"]
          /\ UNCHANGED faults
       \/ /\ ~live
          /\ exchange' = [exchange EXCEPT ![x] = Fresh("refused")]
          /\ UNCHANGED <<code, faults>>
       \/ /\ Fault
          /\ \E done \in {FALSE, live} : code' = [code EXCEPT ![c].used = @ \/ done]
          /\ exchange' = [exchange EXCEPT ![x] = Fresh("failed")]
    /\ UNCHANGED <<registered, tokens, sweep>>

NewToken(x) ==
    LET c == exchange[x].code IN
    [code |-> c, by |-> x, shown |-> exchange[x].shown, client |-> code[c].binding.client,
     grantee |-> code[c].grantee, expired |-> FALSE, deleted |-> FALSE]

\* IssueAccessToken, from the row ConsumeCode returned (its columns never
\* change).  When the insert fails the code is gone for good.
Issue(x) ==
    /\ exchange[x].at = "marked"
    /\ \/ /\ tokens' = tokens \cup {NewToken(x)}
          /\ exchange' = [exchange EXCEPT ![x] = Fresh("done")]
          /\ UNCHANGED faults
       \/ /\ Fault
          /\ tokens' \in {tokens, tokens \cup {NewToken(x)}}
          /\ exchange' = [exchange EXCEPT ![x] = Fresh("failed")]
    /\ UNCHANGED <<registered, code, sweep>>

Token(x) ==
    \/ \E c \in Code, b \in Binding : Lookup(x, c, b)
    \/ LookupFails(x)
    \/ Mark(x)
    \/ Issue(x)
-----------------------------------------------------------------------------
(* Time, and cmd/maintenance *)

ExpireCode(c) ==
    /\ code[c].state = "stored" /\ ~code[c].expired
    /\ code' = [code EXCEPT ![c].expired = TRUE]
    /\ UNCHANGED <<registered, exchange, tokens, sweep, faults>>

ExpireToken(t) ==
    /\ ~t.expired
    /\ tokens' = (tokens \ {t}) \cup {[t EXCEPT !.expired = TRUE]}
    /\ UNCHANGED <<registered, code, exchange, sweep, faults>>

SweepStart ==
    /\ sweep = "idle"
    /\ sweep' = "codes"
    /\ UNCHANGED <<registered, code, exchange, tokens, faults>>

\* Mutant: the sweep takes live codes too.
SweepAllCodes ==
    /\ sweep = "codes"
    /\ code' = [c \in Code |-> IF code[c].state = "stored" THEN [code[c] EXCEPT !.state = "deleted"] ELSE code[c]]
    /\ sweep' = "tokens"
    /\ UNCHANGED <<registered, exchange, tokens, faults>>

\* DELETE FROM oauth_codes WHERE expires_at < NOW(), used or not.  The first
\* error ends the run and leaves the later tables for the next one.
SweepCodes ==
    /\ sweep = "codes"
    /\ \/ /\ code' = [c \in Code |-> IF code[c].state = "stored" /\ code[c].expired
                                     THEN [code[c] EXCEPT !.state = "deleted"] ELSE code[c]]
          /\ sweep' = "tokens"
          /\ UNCHANGED faults
       \/ Fault /\ sweep' = "idle" /\ UNCHANGED code
    /\ UNCHANGED <<registered, exchange, tokens>>

SweepTokens ==
    /\ sweep = "tokens"
    /\ \/ tokens' = {[t EXCEPT !.deleted = t.expired] : t \in tokens} /\ UNCHANGED faults
       \/ Fault /\ UNCHANGED tokens
    /\ sweep' = "idle"
    /\ UNCHANGED <<registered, code, exchange>>

Maintenance == SweepStart \/ SweepCodes \/ SweepTokens
-----------------------------------------------------------------------------
Next ==
    \/ \E cl \in Client, uris \in SUBSET Redirect : Register(cl, uris)
    \/ RegisterFails
    \/ \E c \in Code : Approve(c) \/ ExpireCode(c)
    \/ \E x \in Exchange : Token(x)
    \/ \E t \in tokens : ExpireToken(t)
    \/ Maintenance

Spec == Init /\ [][Next]_vars

\* A client that was sent a code keeps showing it with the right proof, and a
\* handler that was called runs on.  Nothing makes a code expire.
Retry(x) == \E c \in Code : Lookup(x, c, code[c].binding)
FairSpec ==
    /\ Spec
    /\ SF_vars(\E x \in Exchange : Retry(x))
    /\ \A x \in Exchange : WF_vars(Mark(x) \/ Issue(x))
-----------------------------------------------------------------------------
TypeOK ==
    /\ registered \in [Client -> SUBSET Allowed]
    /\ code \in [Code -> CodeType]
    /\ exchange \in [Exchange -> ExchangeType]
    /\ tokens \subseteq TokenType
    /\ sweep \in {"idle", "codes", "tokens"}
    /\ faults \in 0..MaxFaults
    /\ \A c \in Code :
          /\ code[c].state # "form" <=> code[c].binding # None
          /\ code[c].state \in {"form", "denied"} <=> code[c].grantee = None
          /\ code[c].state = "deleted" => code[c].expired
          /\ code[c].sent \/ code[c].used \/ code[c].expired => code[c].state \in {"stored", "deleted"}
    /\ \A x \in Exchange :
          /\ exchange[x].at \in {"verified", "marked"} <=> exchange[x].code # None
          /\ exchange[x].code # None <=> exchange[x].shown # None

\* docs/self-host.md and codes.go: a code is one-shot.  However many
\* requesters race for it, whatever fails and whenever the sweep runs, it
\* yields at most one access token.
OneTokenPerCode == \A t, u \in tokens : t.code = u.code => t.by = u.by

\* No redirect, with a code or with an error, leaves for a URI that its client
\* has not registered, which takes one that may be registered.
RedirectRegistered ==
    \A c \in Code : code[c].state # "form" =>
        code[c].binding.redirect \in registered[code[c].binding.client] \cap Allowed

\* A token was issued to a requester who showed the client, the redirect URI
\* and the verifier the user's approval was bound to, and it is for the
\* client, user and project of that approval.  And neither codes nor errors
\* are sent where the client did not ask for them ("we can't trust the
\* redirect target").
BoundToApproval ==
    /\ \A t \in tokens :
          /\ t.shown = code[t.code].binding
          /\ t.client = t.shown.client
          /\ t.grantee = code[t.code].grantee
    /\ RedirectRegistered

\* A code is used up without a token only if a call failed: a wrong proof, a
\* lost race or an overtaking sweep burns nothing.
Burned ==
    {c \in Code : /\ code[c].used
                  /\ \A t \in tokens : t.code # c
                  /\ \A x \in Exchange : ~(exchange[x].at = "marked" /\ exchange[x].code = c)}
BurnedOwedToFaults == Cardinality(Burned) <= faults

\* A requester may still turn the code into a token: it has it or will look
\* it up, or is past the lookup with nobody before it, or has marked it.
Redeemable(c) ==
    \/ Active(c) /\ code[c].sent
    \/ \E x \in Exchange :
          /\ exchange[x].code = c
          /\ exchange[x].at = "marked" \/ (code[c].state = "stored" /\ ~code[c].used)

Stage(c) ==
    IF code[c].state \in {"form", "denied", "checked", "failed"} THEN "none"
    ELSE IF \E t \in tokens : t.code = c THEN "redeemed"
    ELSE IF Redeemable(c) THEN "open"
    ELSE "void"

Grant == INSTANCE AuthorizationGrant WITH
    NoBinding <- None,
    stage <- [c \in Code |-> Stage(c)],
    bound <- [c \in Code |-> IF Stage(c) = "none" THEN None ELSE code[c].binding],
    proof <- [c \in Code |-> {t.shown : t \in {u \in tokens : u.code = c}}]

\* Once a code is redeemed or beyond reach it never yields a token again.
ImplementsAuthorizationGrant == Grant!Spec

\* codes.go: "a failed PKCE / client / redirect check leaves the code intact so
\* a legitimate retry" succeeds.  A client that keeps trying gets a token,
\* unless the code expires or a call fails.
RetrySucceeds ==
    \A c \in Code :
        code[c].sent ~> \/ \E t \in tokens : t.code = c
                        \/ code[c].expired
                        \/ faults > 0
=============================================================================
