--------------------------- MODULE AnalysisAccess ---------------------------
(***************************************************************************)
(* Who gets an answer about a project, and which: the checks in front of   *)
(* the REST query and schema endpoints, the MCP tools, the web playground, *)
(* the project page and the ingest endpoint, in the order each surface     *)
(* runs them, and behind them the query (QueryExecutor), while members     *)
(* join teams, projects are created and soft-deleted, tokens are granted   *)
(* and expire, and a wrapper's entitlement opens and closes.               *)
(*                                                                         *)
(* A request authenticates, then runs its surface's checks one by one;     *)
(* each reads the state of its own moment.  A database error during a      *)
(* check answers 500 and is left out: it serves nothing.  The rate limiter *)
(* and the entitlement are extension seams and may answer either way.      *)
(***************************************************************************)
EXTENDS QueryExecutor, Sequences

CONSTANTS
    User, Team, Project,
    TeamOf,    \* [Project -> Team]: projects.team_id
    Founder,   \* the memberships there are at the start
    Existing   \* the projects there are at the start

ASSUME AccessAssumption ==
    /\ TeamOf \in [Project -> Team]
    /\ Founder \subseteq User \X Team
    /\ Existing \subseteq Project
    /\ None \notin User \cup Project

VARIABLES
    member,   \* team_memberships; no code removes one
    project,  \* the rows of projects
    keyed,    \* the projects with an active public token in api_tokens
    draft,    \* per project: the rows of it an open transaction has written
    deleted,  \* projects with deleted_at set
    granted,  \* (user, project) of the approvals not yet exchanged
    token,    \* (user, project) of the live access tokens
    over,     \* projects the entitlement denies
    request

creation == <<project, keyed, draft>>
credentials == <<granted, token>>
vars == <<member, project, keyed, draft, deleted, granted, token, over, request, run>>

Surface == {"rest", "mcp", "html", "page", "ingest"}

\* Mutant: MCP asks the entitlement first.
ChainQuotaFirst ==
    [rest |-> <<"quota", "limit", "sight">>, mcp |-> <<"limit", "quota", "sight">>,
     html |-> <<"sight", "quota">>, page |-> <<"sight", "key">>, ingest |-> <<"limit">>]

\* The checks behind authentication, in order.
Chain ==
    [rest |-> <<"quota", "limit", "sight">>,   \* entitle, rateLimit, bearerCanReadProject
     mcp |-> <<"limit", "sight", "quota">>,    \* rateLimit, authorizeProject
     html |-> <<"sight", "quota">>,            \* Projects.ByID, gateAnalysisHTML
     page |-> <<"sight", "key">>,              \* Projects.ByID, Tokens.PublicForProject
     ingest |-> <<"limit">>]

\* "message": a page with an error message, or a tool error of MCP.
Answer == {"200", "400", "402", "404", "429", "500", "message"}

\* project: whom the credential speaks for (for html, the path's).  path: the
\* project in the URL.  passed: how many checks the request has behind it.
\* glimpsed: the project was in the caller's sight at some moment since the
\* request arrived.
RequestType ==
    [surface : Surface, user : User \cup {None}, project : Project, path : Project,
     passed : 0..3, answer : Answer \cup {None}, glimpsed : BOOLEAN]

ASSUME NoneAssumption == None \notin Answer /\ None \notin RequestType /\ None \notin RunType

\* GetProjectForUser: a member of the project's team, and not soft-deleted.
Visible(u, p) == <<u, TeamOf[p]>> \in member /\ p \in project \ deleted

\* GetPublicTokenForProjectForUser: the same, and the token of the snippet.
Keyed(u, p) == p \in keyed /\ Visible(u, p)

\* GetActiveIngestTokenByHash knows the tokens of these; it leaves soft-deleted
\* projects out.
Ingesting == (project \cap keyed) \ deleted

Init ==
    /\ member = Founder
    /\ project = Existing
    /\ keyed = Existing
    /\ draft = [p \in Project |-> {}]
    /\ deleted = {}
    /\ granted = {}
    /\ token = {}
    /\ over = {}
    /\ request = [q \in Request |-> None]
    /\ run = [q \in Request |-> None]
-----------------------------------------------------------------------------
(* What changes around the requests *)

\* The history of what callers could see: members is the new team_memberships,
\* projects the new rows of projects.
Look(members, projects) ==
    request' = [q \in Request |->
        IF request[q] = None \/ request[q].user = None THEN request[q]
        ELSE [request[q] EXCEPT !.glimpsed =
                @ \/ (<<request[q].user, TeamOf[request[q].project]>> \in members
                      /\ request[q].project \in projects \ deleted)]]

\* An invite is consumed.
Join(u, t) ==
    /\ <<u, t>> \notin member
    /\ member' = member \cup {<<u, t>>}
    /\ Look(member', project)
    /\ UNCHANGED <<creation, deleted, credentials, over, run>>

(* Projects.Create: one transaction of two inserts; what it has written is its *)
(* own until it commits.                                                       *)

\* CreateProjectForUser: only for a member of the team.
InsertProject(u, p) ==
    /\ p \notin project
    /\ draft[p] = {}
    /\ <<u, TeamOf[p]>> \in member
    /\ draft' = [draft EXCEPT ![p] = {"project"}]
    /\ UNCHANGED <<member, project, keyed, deleted, credentials, over, request, run>>

InsertPublicToken(p) ==
    /\ draft[p] = {"project"}
    /\ draft' = [draft EXCEPT ![p] = @ \cup {"token"}]
    /\ UNCHANGED <<member, project, keyed, deleted, credentials, over, request, run>>

CommitProject(p) ==
    /\ draft[p] = {"project", "token"}
    /\ draft' = [draft EXCEPT ![p] = {}]
    /\ project' = project \cup {p}
    /\ keyed' = keyed \cup {p}
    /\ Look(member, project')
    /\ UNCHANGED <<member, deleted, credentials, over, run>>

\* An insert or the commit fails, or the process dies: rolled back.
Rollback(p) ==
    /\ draft[p] # {}
    /\ draft' = [draft EXCEPT ![p] = {}]
    /\ UNCHANGED <<member, project, keyed, deleted, credentials, over, request, run>>

\* SoftDeleteProjectForUser.
SoftDelete(u, p) ==
    /\ Visible(u, p)
    /\ deleted' = deleted \cup {p}
    /\ UNCHANGED <<member, creation, credentials, over, request, run>>

\* The consent page is approved for a visible project.
Approve(u, p) ==
    /\ Visible(u, p)
    /\ <<u, p>> \notin token
    /\ granted' = granted \cup {<<u, p>>}
    /\ UNCHANGED <<member, creation, deleted, token, over, request, run>>

\* The code becomes a token (OAuthFlow), with no look at the project.
Mint(g) ==
    /\ granted' = granted \ {g}
    /\ token' = token \cup {g}
    /\ UNCHANGED <<member, creation, deleted, over, request, run>>

Expire(g) ==
    /\ token' = token \ {g}
    /\ UNCHANGED <<member, creation, deleted, granted, over, request, run>>

\* A hosted build locks or unlocks a project.
Quota(p) ==
    /\ over' = IF p \in over THEN over \ {p} ELSE over \cup {p}
    /\ UNCHANGED <<member, creation, deleted, credentials, request, run>>
-----------------------------------------------------------------------------
(* Requests *)

Enter(q, surface, u, p, path) ==
    request' = [request EXCEPT ![q] =
        [surface |-> surface, user |-> u, project |-> p, path |-> path, passed |-> 0, answer |-> None,
         glimpsed |-> IF u = None THEN p \in project \ deleted ELSE Visible(u, p)]]

environment == <<member, creation, deleted, credentials, over>>

\* RequireBearer: the token is neither expired nor revoked.  The tools of MCP
\* act on the token's project, REST names one in the path.
Bearer(q) ==
    /\ request[q] = None
    /\ \E g \in token :
          \/ \E path \in Project : Enter(q, "rest", g[1], g[2], path)
          \/ Enter(q, "mcp", g[1], g[2], g[2])
    /\ UNCHANGED <<environment, run>>

\* A signed-in user opens the playground or the page of any project.
Browse(q) ==
    /\ request[q] = None
    /\ \E u \in User, p \in Project, surface \in {"html", "page"} : Enter(q, surface, u, p, p)
    /\ UNCHANGED <<environment, run>>

\* requirePublicToken.
Produce(q) ==
    /\ request[q] = None
    /\ \E p \in Ingesting : Enter(q, "ingest", None, p, p)
    /\ UNCHANGED <<environment, run>>

Underway(q) == request[q] # None /\ request[q].answer = None
AnswerWith(q, a) == request' = [request EXCEPT ![q].answer = a]

\* Pass the check, or answer a.
Judge(q, pass, a) ==
    IF pass THEN request' = [request EXCEPT ![q].passed = @ + 1] ELSE AnswerWith(q, a)

\* Mutant: the token's project is taken at its word.
CheckTrustsToken(q) ==
    LET r == request[q]
        check == Chain[r.surface][r.passed + 1]
    IN
    /\ Underway(q)
    /\ r.passed < Len(Chain[r.surface])
    /\ \/ check = "quota" /\ Judge(q, r.project \notin over, "402")
       \/ check = "limit" /\ \E pass \in BOOLEAN : Judge(q, pass, "429")
       \/ check = "sight" /\ Judge(q, r.path = r.project, "404")
       \/ check = "key" /\ Judge(q, Keyed(r.user, r.project), "500")
    /\ UNCHANGED <<environment, run>>

\* One check: to the next one, or the answer that refuses.
Check(q) ==
    LET r == request[q]
        check == Chain[r.surface][r.passed + 1]
    IN
    /\ Underway(q)
    /\ r.passed < Len(Chain[r.surface])
    /\ \/ check = "quota" /\ Judge(q, r.project \notin over, "402")
       \/ check = "limit" /\ \E pass \in BOOLEAN : Judge(q, pass, "429")
       \/ check = "sight" /\ Judge(q, r.path = r.project /\ Visible(r.user, r.project), "404")
       \/ check = "key" /\ Judge(q, Keyed(r.user, r.project), "500")
    /\ UNCHANGED <<environment, run>>

Cleared(q) == Underway(q) /\ request[q].passed = Len(Chain[request[q].surface])
Analysis == {"rest", "mcp", "html"}

\* Mutant: the last check is not mounted.
ServeEarly(q) ==
    /\ Underway(q)
    /\ request[q].surface \notin Analysis
    /\ request[q].passed + 1 >= Len(Chain[request[q].surface])
    /\ AnswerWith(q, "200")
    /\ UNCHANGED <<environment, run>>

\* The page is rendered, the batch is submitted.
Serve(q) ==
    /\ Cleared(q)
    /\ request[q].surface \notin Analysis
    /\ AnswerWith(q, "200")
    /\ UNCHANGED <<environment, run>>

\* The catalog is asked for, or a query: after the catalog in the playground,
\* which shows both.  A body without a query counts as the empty one.
Start(q) ==
    /\ Cleared(q)
    /\ request[q].surface \in Analysis
    /\ run[q] = None
    /\ LET sink == IF request[q].surface = "rest" THEN "json" ELSE "collect" IN
       \/ run' = [run EXCEPT ![q] = NewRun(sink, None, TRUE)]
       \/ \E sql \in Sql : run' = [run EXCEPT ![q] = NewRun(sink, sql, request[q].surface = "html")]
    /\ UNCHANGED <<environment, request>>

\* An error is answered 400 by REST unless the stream has begun, and with a
\* message by the others.
Reply(q) ==
    /\ Underway(q)
    /\ Ended(q)
    /\ AnswerWith(q, IF run[q].phase = "ended" \/ run[q].wrote THEN "200"
                     ELSE IF request[q].surface = "rest" THEN "400" ELSE "message")
    /\ UNCHANGED <<environment, run>>

Work(q) == Advance(q) /\ UNCHANGED <<environment, request>>
-----------------------------------------------------------------------------
Next ==
    \/ \E u \in User, t \in Team : Join(u, t)
    \/ \E u \in User, p \in Project : InsertProject(u, p) \/ SoftDelete(u, p) \/ Approve(u, p)
    \/ \E p \in Project : InsertPublicToken(p) \/ CommitProject(p) \/ Rollback(p) \/ Quota(p)
    \/ \E g \in granted : Mint(g)
    \/ \E g \in token : Expire(g)
    \/ \E q \in Request : Bearer(q) \/ Browse(q) \/ Produce(q) \/ Check(q)
    \/ \E q \in Request : Serve(q) \/ Start(q) \/ Work(q) \/ Reply(q)

Spec == Init /\ [][Next]_vars
-----------------------------------------------------------------------------
TypeOK ==
    /\ Founder \subseteq member /\ member \subseteq User \X Team
    /\ project \subseteq Project /\ keyed \subseteq Project
    /\ draft \in [Project -> SUBSET {"project", "token"}]
    /\ deleted \subseteq project /\ over \subseteq Project
    /\ granted \subseteq User \X project /\ token \subseteq User \X project
    /\ request \in [Request -> RequestType \cup {None}]
    /\ run \in [Request -> RunType \cup {None}]
    /\ \A q \in Request : request[q] # None =>
          /\ request[q].passed <= Len(Chain[request[q].surface])
          /\ request[q].answer \in {"200", "400", "message"} => request[q].passed = Len(Chain[request[q].surface])
    /\ \A q \in Request : run[q] # None => request[q] # None
    /\ \A g \in granted \cup token : <<g[1], TeamOf[g[2]]>> \in member

\* Whatever joins, deletions, expiries and locks happen while it is under way,
\* a request is answered with a project's data, or its events are taken, only
\* if at some moment since it arrived the caller could see that very project;
\* and no row of another project is among those a query finds.
ServedInSight ==
    \A q \in Request :
        /\ request[q] # None /\ request[q].answer = "200" =>
              request[q].glimpsed /\ request[q].path = request[q].project
        /\ run[q] # None => ~run[q].foreign

\* What a caller can conclude from an answer.  A stream that ends with its
\* statistics holds every row, and the row count it gives is theirs; a 400 has
\* no part of a result in front of it; the playground and MCP show a result
\* only when it is whole and within the limit, and the catalog only whole.
\* The project page fails only over a project deleted while it was rendered:
\* nobody meets a project without its public token (viewer.go: "a missing row
\* is a hard bug").
AnswerIsWhole ==
    \A q \in Request : request[q] # None =>
        /\ request[q].answer = "500" => request[q].project \in deleted
        /\ run[q] # None =>
              LET r == run[q] IN
              /\ r.tail # None => r.tail = r.found /\ r.rows = r.found
              /\ request[q].answer = "400" => ~r.wrote
              /\ request[q].answer = "200" /\ r.sink = "collect" => r.phase = "ended" /\ r.rows <= RowLimit
              /\ r.phase = "ended" =>
                    r.described \in {0, Cardinality(DOMAIN Tables)} /\ (r.tail = None => r.sql = None)

\* tools.go and entitlement.go, of MCP and the playground: an over-quota
\* answer comes "after visibility so an over-quota deny can't reveal a project
\* the grant can't already see".
QuotaAnswerInSight ==
    \A q \in Request :
        request[q] # None /\ request[q].answer = "402" /\ request[q].surface \in {"mcp", "html"} =>
            request[q].glimpsed

\* docs/extending.md says it of every surface: the entitlement "runs after the
\* project is resolved and its visibility confirmed, so a denial can never
\* reveal a project the caller couldn't already see".
DenialRevealsNothing ==
    \A q \in Request :
        request[q] # None /\ request[q].answer = "402" => request[q].glimpsed
=============================================================================
