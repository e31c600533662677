------------------------ MODULE AnalysisAccessProofs ------------------------
(***************************************************************************)
(* Proofs about AnalysisAccess, for any users, teams, projects, requests   *)
(* and row limits: the state keeps its types, what is served or refused    *)
(* for its quota was in sight, and an answer claims no more than it holds. *)
(*                                                                         *)
(* A request that has the visibility check behind it has seen its project, *)
(* and that it did stays true: memberships and rows of projects are never  *)
(* removed.  A project whose token is missing behind that check can        *)
(* therefore only have been deleted since, because the two are committed   *)
(* together.                                                               *)
(***************************************************************************)
EXTENDS AnalysisAccess, FiniteSetTheorems, TLAPS

\* What the type invariant says of everything but requests and their runs.
EnvironmentOK ==
    /\ Founder \subseteq member /\ member \subseteq User \X Team
    /\ project \subseteq Project /\ keyed \subseteq Project
    /\ draft \in [Project -> SUBSET {"project", "token"}]
    /\ deleted \subseteq project /\ over \subseteq Project
    /\ granted \subseteq User \X project /\ token \subseteq User \X project
    /\ \A g \in granted \cup token : <<g[1], TeamOf[g[2]]>> \in member

RequestsOK ==
    /\ request \in [Request -> RequestType \cup {None}]
    /\ run \in [Request -> RunType \cup {None}]
    /\ \A q \in Request : request[q] # None =>
          /\ request[q].passed <= Len(Chain[request[q].surface])
          /\ request[q].answer \in {"200", "400", "message"} => request[q].passed = Len(Chain[request[q].surface])
    /\ \A q \in Request : run[q] # None => request[q] # None

\* A project and its public token become visible together.
Twins == keyed = project

\* The request has such a check behind it.
Behind(r, check) == \E k \in 1..r.passed : Chain[r.surface][k] = check

\* Whoever can see the project now has been noted to.
Noted(r) == r.user # None /\ Visible(r.user, r.project) => r.glimpsed

\* Ingest names its project with a token that was resolved on arrival; the
\* others have looked, and could still see the project if it were not deleted.
Judged(r) ==
    /\ r.surface = "ingest" <=> r.user = None
    /\ r.user = None => r.glimpsed /\ r.path = r.project
    /\ Behind(r, "sight") =>
          r.glimpsed /\ r.path = r.project /\ <<r.user, TeamOf[r.project]>> \in member /\ r.project \in project
    /\ r.answer = "402" => r.passed < Len(Chain[r.surface]) /\ Chain[r.surface][r.passed + 1] = "quota"
    /\ r.answer = "500" => r.project \in deleted

\* A run: what it has counted, and how far it can have got with it.
Sound(r) ==
    /\ ~r.foreign
    /\ r.tail # None => r.phase = "ended" /\ r.tail = r.found /\ r.rows = r.found
    /\ r.wrote => r.sink = "json"
    /\ r.sink = "collect" => r.rows <= RowLimit
    /\ r.phase = "describe" => r.described < Cardinality(DOMAIN Tables)
    /\ r.phase \in {"submit", "rows", "ended"} => r.described \in {0, Cardinality(DOMAIN Tables)}
    /\ r.phase = "ended" /\ r.tail = None => r.sql = None

\* A run belongs to a request that has passed all its checks, and is over when
\* the request is answered.
Fits(r, w) ==
    /\ r.surface \in Analysis
    /\ r.passed = Len(Chain[r.surface])
    /\ w.sink = "json" <=> r.surface = "rest"
    /\ r.answer # None => w.phase \in {"ended", "failed"}
    /\ r.answer = "400" => ~w.wrote
    /\ r.answer = "200" => w.phase = "ended" \/ w.wrote

IndInv ==
    /\ EnvironmentOK
    /\ RequestsOK
    /\ Twins
    /\ \A q \in Request : request[q] # None => Noted(request[q]) /\ Judged(request[q])
    /\ \A q \in Request : run[q] # None => Sound(run[q]) /\ Fits(request[q], run[q])
-----------------------------------------------------------------------------
(* The model's constants *)

\* The public surface has three views.
LEMMA TablesCount == Cardinality(DOMAIN Tables) = 3
PROOF
  <1>1. DOMAIN Tables = {"events", "persons", "sessions"}
    BY DEF Tables
  <1>2. IsFiniteSet({}) /\ Cardinality({}) = 0
    BY FS_EmptySet
  <1>3. IsFiniteSet({"events"}) /\ Cardinality({"events"}) = 1
    BY FS_Singleton
  <1>4. IsFiniteSet({"events"} \cup {"persons"}) /\ Cardinality({"events"} \cup {"persons"}) = 2
    BY <1>3, FS_AddElement
  <1>5. Cardinality(({"events"} \cup {"persons"}) \cup {"sessions"}) = 3
    BY <1>4, FS_AddElement
  <1>6. ({"events"} \cup {"persons"}) \cup {"sessions"} = {"events", "persons", "sessions"}
    OBVIOUS
  <1> QED BY <1>1, <1>5, <1>6

\* Whatever the readonly user may name, the filter confines, or no project's
\* rows are in it: the lists of names agree.
LEMMA AllScoped == \A name \in Readable : Scoped(name)
PROOF
  <1>1. DOMAIN Tables = {"events", "persons", "sessions"}
    BY DEF Tables
  <1>2. \A v \in DOMAIN Tables : Tables[v] \subseteq FilterNames
    BY <1>1 DEF Tables, FilterNames
  <1>3. \A name \in DOMAIN Tables : Scoped(name)
    BY <1>2 DEF Scoped
  <1>4. \A name \in UNION {Tables[v] : v \in DOMAIN Tables} : name \in FilterNames
    BY <1>2
  <1>5. {"identity_links_mv", "persons_mv", "sessions_mv"} \subseteq FilterNames
    BY DEF FilterNames
  <1>6. \A name \in FilterNames : Scoped(name)
    BY DEF Scoped
  <1>7. \A name \in Readable : \/ name \in DOMAIN Tables
                               \/ name \in UNION {Tables[v] : v \in DOMAIN Tables}
                               \/ name \in {"identity_links_mv", "persons_mv", "sessions_mv"}
                               \/ name \in Shared
    BY DEF Readable
  <1>8. \A name \in Shared : Scoped(name)
    BY DEF Scoped
  <1> QED BY <1>3, <1>4, <1>5, <1>6, <1>7, <1>8

LEMMA ChainLengths ==
    /\ \A s \in Surface : Len(Chain[s]) \in 1..3
    /\ Len(Chain["rest"]) = 3 /\ Len(Chain["mcp"]) = 3 /\ Len(Chain["html"]) = 2
    /\ Len(Chain["page"]) = 2 /\ Len(Chain["ingest"]) = 1
  BY DEF Chain, Surface

\* Every surface but ingest checks visibility; the page before it asks for the
\* token, the playground and MCP before the quota.
LEMMA SightInChain ==
    /\ \A s \in Surface \ {"ingest"} : \E k \in 1..Len(Chain[s]) : Chain[s][k] = "sight"
    /\ \A s \in Surface : \A k \in 1..Len(Chain[s]) :
          Chain[s][k] = "key" \/ (Chain[s][k] = "quota" /\ s \in {"mcp", "html"})
              => \E j \in 1..k - 1 : Chain[s][j] = "sight"
    /\ \A k \in 1..Len(Chain["ingest"]) : Chain["ingest"][k] = "limit"
PROOF
  <1>1. /\ Len(Chain["rest"]) = 3 /\ Len(Chain["mcp"]) = 3 /\ Len(Chain["html"]) = 2
        /\ Len(Chain["page"]) = 2 /\ Len(Chain["ingest"]) = 1
    BY ChainLengths
  <1>2. /\ Chain["rest"][1] = "quota" /\ Chain["rest"][2] = "limit" /\ Chain["rest"][3] = "sight"
        /\ Chain["mcp"][1] = "limit" /\ Chain["mcp"][2] = "sight" /\ Chain["mcp"][3] = "quota"
        /\ Chain["html"][1] = "sight" /\ Chain["html"][2] = "quota"
        /\ Chain["page"][1] = "sight" /\ Chain["page"][2] = "key"
        /\ Chain["ingest"][1] = "limit"
    BY DEF Chain
  <1>3. \A s \in Surface \ {"ingest"} : \E k \in 1..Len(Chain[s]) : Chain[s][k] = "sight"
    BY <1>1, <1>2 DEF Surface
  <1>4. \A k \in 1..Len(Chain["ingest"]) : Chain["ingest"][k] = "limit"
    BY <1>1, <1>2
  <1>5. ASSUME NEW s \in Surface, NEW k \in 1..Len(Chain[s]),
               Chain[s][k] = "key" \/ (Chain[s][k] = "quota" /\ s \in {"mcp", "html"})
        PROVE  \E j \in 1..k - 1 : Chain[s][j] = "sight"
    <2>1. CASE s = "rest"
      BY <1>1, <1>2, <1>5, <2>1
    <2>2. CASE s = "mcp"
      <3>1. k = 3
        BY <1>1, <1>2, <1>5, <2>2
      <3> QED BY <1>2, <2>2, <3>1
    <2>3. CASE s = "html"
      <3>1. k = 2
        BY <1>1, <1>2, <1>5, <2>3
      <3> QED BY <1>2, <2>3, <3>1
    <2>4. CASE s = "page"
      <3>1. k = 2
        BY <1>1, <1>2, <1>5, <2>4
      <3> QED BY <1>2, <2>4, <3>1
    <2>5. CASE s = "ingest"
      BY <1>1, <1>2, <1>5, <2>5
    <2> QED BY <2>1, <2>2, <2>3, <2>4, <2>5 DEF Surface
  <1> QED BY <1>3, <1>4, <1>5
-----------------------------------------------------------------------------
(* What surrounds the requests *)

\* Requests are as they were, but for what they have noted.
Notes(r, s) ==
    /\ s.surface = r.surface /\ s.user = r.user /\ s.project = r.project /\ s.path = r.path
    /\ s.passed = r.passed /\ s.answer = r.answer
    /\ r.glimpsed => s.glimpsed

LEMMA EnvironmentStep ==
    ASSUME IndInv, EnvironmentOK', Twins', UNCHANGED run,
           member \subseteq member', project \subseteq project', deleted \subseteq deleted',
           request' \in [Request -> RequestType \cup {None}],
           \A q \in Request : request'[q] = None <=> request[q] = None,
           \A q \in Request : request[q] # None =>
              Notes(request[q], request'[q]) /\ (Noted(request[q]))'
    PROVE  IndInv'
PROOF
  <1>1. RequestsOK'
    BY DEF IndInv, RequestsOK, Notes
  <1>2. \A q \in Request : request[q] # None => (Judged(request[q]))'
    <2> SUFFICES ASSUME NEW q \in Request, request[q] # None
                 PROVE  (Judged(request[q]))'
      OBVIOUS
    <2>1. Notes(request[q], request'[q]) /\ Judged(request[q])
      BY DEF IndInv
    <2>2. (Behind(request[q], "sight"))' <=> Behind(request[q], "sight")
      BY <2>1 DEF Notes, Behind
    <2> QED BY <2>1, <2>2 DEF Notes, Judged
  <1>3. \A q \in Request : run[q] # None => (Sound(run[q]))' /\ (Fits(request[q], run[q]))'
    <2> SUFFICES ASSUME NEW q \in Request, run[q] # None
                 PROVE  (Sound(run[q]))' /\ (Fits(request[q], run[q]))'
      OBVIOUS
    <2>1. request[q] # None /\ Notes(request[q], request'[q]) /\ Sound(run[q]) /\ Fits(request[q], run[q])
      BY DEF IndInv, RequestsOK
    <2> QED BY <2>1 DEF Notes, Sound, Fits
  <1> QED BY <1>1, <1>2, <1>3 DEF IndInv

\* Steps that show nobody a project note nothing.
LEMMA UnseenStep ==
    ASSUME IndInv, EnvironmentOK', UNCHANGED <<member, project, keyed, request, run>>, deleted \subseteq deleted'
    PROVE  IndInv'
PROOF
  <1>1. \A q \in Request : request[q] # None => (Noted(request[q]))'
    BY DEF IndInv, Noted, Visible
  <1>2. \A q \in Request : request[q] # None => Notes(request[q], request'[q])
    BY DEF Notes
  <1>3. request' \in [Request -> RequestType \cup {None}]
    BY DEF IndInv, RequestsOK
  <1>4. Twins'
    BY DEF IndInv, Twins
  <1> QED BY <1>1, <1>2, <1>3, <1>4, EnvironmentStep

\* Look notes what has come into sight.
LEMMA LookStep ==
    ASSUME IndInv, EnvironmentOK', Twins', UNCHANGED <<run, deleted>>,
           member \subseteq member', project \subseteq project', Look(member', project')
    PROVE  IndInv'
PROOF
  <1>1. request \in [Request -> RequestType \cup {None}]
    BY DEF IndInv, RequestsOK
  <1> DEFINE seen(q) == \/ request[q].glimpsed
                        \/ /\ <<request[q].user, TeamOf[request[q].project]>> \in member'
                           /\ request[q].project \in project' \ deleted
  <1>2. \A q \in Request :
           request'[q] = IF request[q] = None \/ request[q].user = None THEN request[q]
                         ELSE [request[q] EXCEPT !.glimpsed = seen(q)]
    BY DEF Look
  <1>3. \A q \in Request : request[q] = None => request'[q] = None
    BY <1>2
  <1>4. ASSUME NEW q \in Request, request[q] # None
        PROVE  /\ request'[q] \in RequestType
               /\ Notes(request[q], request'[q]) /\ (Noted(request[q]))'
    <2>1. request[q] \in RequestType
      BY <1>1, <1>4
    <2>2. CASE request[q].user = None
      <3>1. request'[q] = request[q]
        BY <1>2, <2>2
      <3> QED BY <2>1, <2>2, <3>1 DEF Notes, Noted
    <2>3. CASE request[q].user # None
      <3>1. request'[q] = [request[q] EXCEPT !.glimpsed = seen(q)]
        BY <1>2, <1>4, <2>3
      <3>2. request[q].glimpsed \in BOOLEAN
        BY <2>1 DEF RequestType
      <3>3. seen(q) \in BOOLEAN
        BY <3>2
      <3>4. /\ request'[q] \in RequestType /\ request'[q].glimpsed = seen(q)
            /\ request'[q].surface = request[q].surface /\ request'[q].user = request[q].user
            /\ request'[q].project = request[q].project /\ request'[q].path = request[q].path
            /\ request'[q].passed = request[q].passed /\ request'[q].answer = request[q].answer
        BY <2>1, <3>1, <3>3 DEF RequestType
      <3> QED BY <3>4 DEF Notes, Noted, Visible
    <2> QED BY <2>2, <2>3
  <1>5. request' \in [Request -> RequestType \cup {None}]
    <2>1. request' = [q \in Request |-> request'[q]]
      BY DEF Look
    <2> QED BY <1>3, <1>4, <2>1
  <1>6. \A q \in Request : request'[q] = None <=> request[q] = None
    BY <1>3, <1>4, NoneAssumption
  <1> QED BY <1>4, <1>5, <1>6, EnvironmentStep

\* Joins, creations, deletions, approvals, expiries and locks.
LEMMA EnvironmentInv ==
    ASSUME IndInv,
           \/ \E u \in User, t \in Team : Join(u, t)
           \/ \E u \in User, p \in Project : InsertProject(u, p) \/ SoftDelete(u, p) \/ Approve(u, p)
           \/ \E p \in Project : InsertPublicToken(p) \/ CommitProject(p) \/ Rollback(p) \/ Quota(p)
           \/ \E g \in granted : Mint(g)
           \/ \E g \in token : Expire(g)
    PROVE  IndInv'
PROOF
  <1>1. EnvironmentOK /\ Twins
    BY DEF IndInv
  <1>2. ASSUME NEW u \in User, NEW t \in Team, Join(u, t)
        PROVE  IndInv'
    <2>1. /\ member' = member \cup {<<u, t>>} /\ Look(member', project)
          /\ UNCHANGED <<project, keyed, draft, deleted, granted, token, over, run>>
      BY <1>2 DEF Join, creation, credentials
    <2>2. EnvironmentOK' /\ Twins'
      BY <1>1, <2>1 DEF EnvironmentOK, Twins
    <2> QED BY <2>1, <2>2, LookStep
  <1>3. ASSUME NEW p \in Project, CommitProject(p)
        PROVE  IndInv'
    <2>1. /\ draft' = [draft EXCEPT ![p] = {}] /\ project' = project \cup {p} /\ keyed' = keyed \cup {p}
          /\ Look(member, project') /\ UNCHANGED <<member, deleted, granted, token, over, run>>
      BY <1>3 DEF CommitProject, credentials
    <2>2. draft' \in [Project -> SUBSET {"project", "token"}]
      BY <1>1, <2>1 DEF EnvironmentOK
    <2>3. EnvironmentOK' /\ Twins'
      BY <1>1, <2>1, <2>2 DEF EnvironmentOK, Twins
    <2> QED BY <2>1, <2>3, LookStep
  <1>4. ASSUME NEW p \in Project,
               InsertPublicToken(p) \/ Rollback(p) \/ Quota(p) \/ \E u \in User : InsertProject(u, p)
        PROVE  IndInv'
    <2>1. UNCHANGED <<member, project, keyed, deleted, granted, token, request, run>>
      BY <1>4 DEF InsertPublicToken, Rollback, Quota, InsertProject, creation, credentials
    <2>2. draft' \in [Project -> SUBSET {"project", "token"}]
      <3>1. draft \in [Project -> SUBSET {"project", "token"}]
        BY <1>1 DEF EnvironmentOK
      <3>2. CASE Quota(p)
        BY <3>1, <3>2 DEF Quota, creation
      <3>3. CASE \/ draft' = [draft EXCEPT ![p] = {"project"}] \/ draft' = [draft EXCEPT ![p] = {}]
                 \/ draft' = [draft EXCEPT ![p] = @ \cup {"token"}]
        BY <3>1, <3>3
      <3> QED BY <1>4, <3>2, <3>3 DEF InsertPublicToken, Rollback, InsertProject
    <2>3. over' \subseteq Project
      BY <1>1, <1>4 DEF EnvironmentOK, InsertPublicToken, Rollback, Quota, InsertProject
    <2>4. EnvironmentOK'
      BY <1>1, <2>1, <2>2, <2>3 DEF EnvironmentOK
    <2> QED BY <2>1, <2>4, UnseenStep
  <1>5. ASSUME NEW u \in User, NEW p \in Project, SoftDelete(u, p)
        PROVE  IndInv'
    <2>1. /\ p \in project /\ deleted' = deleted \cup {p}
          /\ UNCHANGED <<member, project, keyed, draft, granted, token, over, request, run>>
      BY <1>5 DEF SoftDelete, Visible, creation, credentials
    <2>2. EnvironmentOK'
      BY <1>1, <2>1 DEF EnvironmentOK
    <2> QED BY <2>1, <2>2, UnseenStep
  <1>6. ASSUME NEW u \in User, NEW p \in Project, Approve(u, p)
        PROVE  IndInv'
    <2>1. /\ p \in project /\ <<u, TeamOf[p]>> \in member /\ granted' = granted \cup {<<u, p>>}
          /\ UNCHANGED <<member, project, keyed, draft, deleted, token, over, request, run>>
      BY <1>6 DEF Approve, Visible, creation
    <2>2. EnvironmentOK'
      BY <1>1, <2>1 DEF EnvironmentOK
    <2> QED BY <2>1, <2>2, UnseenStep
  <1>7. ASSUME \/ \E g \in granted : Mint(g)
               \/ \E g \in token : Expire(g)
        PROVE  IndInv'
    <2>1. /\ granted' \subseteq granted /\ token' \subseteq granted \cup token
          /\ UNCHANGED <<member, project, keyed, draft, deleted, over, request, run>>
      BY <1>7 DEF Mint, Expire, creation
    <2>2. EnvironmentOK'
      BY <1>1, <2>1 DEF EnvironmentOK
    <2> QED BY <2>1, <2>2, UnseenStep
  <1> QED BY <1>2, <1>3, <1>4, <1>5, <1>6, <1>7
-----------------------------------------------------------------------------
(* Requests *)

\* A step of one request that leaves its run alone.
LEMMA RequestStep ==
    ASSUME IndInv, NEW q \in Request, NEW r \in RequestType, request' = [request EXCEPT ![q] = r],
           UNCHANGED <<environment, run>>,
           r.passed <= Len(Chain[r.surface]),
           r.answer \in {"200", "400", "message"} => r.passed = Len(Chain[r.surface]),
           Noted(r), Judged(r), run[q] # None => Fits(r, run[q])
    PROVE  IndInv'
PROOF
  <1>1. UNCHANGED <<member, project, keyed, draft, deleted, granted, token, over, run>>
    BY DEF environment, creation, credentials
  <1>2. request \in [Request -> RequestType \cup {None}]
    BY DEF IndInv, RequestsOK
  <1>3. /\ request' \in [Request -> RequestType \cup {None}] /\ request'[q] = r /\ r # None
        /\ \A p \in Request : p # q => request'[p] = request[p]
    BY <1>2, NoneAssumption
  <1>4. EnvironmentOK' /\ Twins'
    BY <1>1 DEF IndInv, EnvironmentOK, Twins
  <1>5. RequestsOK'
    BY <1>1, <1>3 DEF IndInv, RequestsOK
  <1>6. \A p \in Request : request'[p] # None => (Noted(request[p]))'
    BY <1>1, <1>3 DEF IndInv, Noted, Visible
  <1>7. \A p \in Request : request'[p] # None => (Judged(request[p]))'
    <2> SUFFICES ASSUME NEW p \in Request, request'[p] # None
                 PROVE  (Judged(request[p]))'
      OBVIOUS
    <2>1. Judged(request'[p])
      BY <1>3 DEF IndInv
    <2>2. (Behind(request[p], "sight"))' <=> Behind(request'[p], "sight")
      BY DEF Behind
    <2> QED BY <1>1, <2>1, <2>2 DEF Judged
  <1>8. \A p \in Request : run'[p] # None => (Sound(run[p]))' /\ (Fits(request[p], run[p]))'
    <2> SUFFICES ASSUME NEW p \in Request, run[p] # None
                 PROVE  (Sound(run[p]))' /\ (Fits(request[p], run[p]))'
      BY <1>1
    <2>1. Sound(run[p]) /\ Fits(request'[p], run[p])
      BY <1>3 DEF IndInv
    <2> QED BY <1>1, <2>1 DEF Sound, Fits
  <1> QED BY <1>4, <1>5, <1>6, <1>7, <1>8 DEF IndInv

\* A request arrives, with a project it was allowed to name.
LEMMA EnterInv ==
    ASSUME IndInv, NEW q \in Request, request[q] = None, UNCHANGED <<environment, run>>,
           NEW s \in Surface, NEW u \in User \cup {None}, NEW p \in Project, NEW path \in Project,
           Enter(q, s, u, p, path),
           s = "ingest" <=> u = None, u = None => p \in project \ deleted /\ path = p
    PROVE  IndInv'
PROOF
  <1> DEFINE seen == IF u = None THEN p \in project \ deleted ELSE Visible(u, p)
             r == [surface |-> s, user |-> u, project |-> p, path |-> path, passed |-> 0, answer |-> None,
                   glimpsed |-> seen]
  <1>1. seen \in BOOLEAN
    BY DEF Visible
  <1>2. r \in RequestType
    BY <1>1 DEF RequestType
  <1>3. request' = [request EXCEPT ![q] = r]
    BY DEF Enter
  <1>4. Len(Chain[s]) \in 1..3
    BY ChainLengths
  <1>5. ~Behind(r, "sight")
    BY DEF Behind
  <1>6. None \notin {"200", "400", "402", "500", "message"}
    BY NoneAssumption DEF Answer
  <1>7. Noted(r) /\ Judged(r)
    BY <1>5, <1>6 DEF Noted, Judged
  <1>8. run[q] = None
    BY DEF IndInv, RequestsOK
  <1>9. /\ r.passed <= Len(Chain[r.surface])
        /\ r.answer \in {"200", "400", "message"} => r.passed = Len(Chain[r.surface])
    BY <1>4, NoneAssumption DEF Answer
  <1> HIDE DEF r
  <1> QED BY <1>2, <1>3, <1>4, <1>6, <1>7, <1>8, <1>9, RequestStep

\* A bearer names the project of its token, a browser any project of which
\* nothing is shown yet, a producer the one its token was resolved to.
LEMMA ArriveInv ==
    ASSUME IndInv, NEW q \in Request, Bearer(q) \/ Browse(q) \/ Produce(q)
    PROVE  IndInv'
PROOF
  <1>1. /\ project \subseteq Project /\ token \subseteq User \X project
        /\ request[q] = None /\ UNCHANGED <<environment, run>>
    BY DEF IndInv, EnvironmentOK, Bearer, Browse, Produce
  <1>2. None \notin User
    BY AccessAssumption
  <1>3. ASSUME NEW g \in token
        PROVE  g[1] \in User /\ g[2] \in Project
    BY <1>1
  <1>4. CASE Bearer(q)
    <2>1. PICK g \in token : \/ \E path \in Project : Enter(q, "rest", g[1], g[2], path)
                             \/ Enter(q, "mcp", g[1], g[2], g[2])
      BY <1>4 DEF Bearer
    <2>2. g[1] \in User \cup {None} /\ g[1] # None /\ g[2] \in Project
      BY <1>2, <1>3
    <2>3. "rest" \in Surface /\ "mcp" \in Surface
      BY DEF Surface
    <2> QED BY <1>1, <2>1, <2>2, <2>3, EnterInv
  <1>5. CASE Browse(q)
    <2>1. PICK u \in User, p \in Project, s \in {"html", "page"} : Enter(q, s, u, p, p)
      BY <1>5 DEF Browse
    <2>2. s \in Surface /\ s # "ingest" /\ u \in User \cup {None} /\ u # None
      BY <1>2 DEF Surface
    <2> QED BY <1>1, <2>1, <2>2, EnterInv
  <1>6. CASE Produce(q)
    <2>1. PICK p \in Ingesting : Enter(q, "ingest", None, p, p)
      BY <1>6 DEF Produce
    <2>2. p \in Project /\ p \in project \ deleted /\ "ingest" \in Surface /\ None \in User \cup {None}
      BY <1>1 DEF Ingesting, Surface
    <2> QED BY <1>1, <2>1, <2>2, EnterInv
  <1> QED BY <1>4, <1>5, <1>6

\* A request's fields, one of them changed.
LEMMA Updated ==
    ASSUME NEW r \in RequestType
    PROVE  /\ r.passed < 3 =>
                LET s == [r EXCEPT !.passed = @ + 1] IN
                /\ s \in RequestType /\ s.passed = r.passed + 1 /\ s.answer = r.answer
                /\ s.surface = r.surface /\ s.user = r.user /\ s.project = r.project /\ s.path = r.path
                /\ s.glimpsed = r.glimpsed
           /\ \A a \in Answer :
                LET s == [r EXCEPT !.answer = a] IN
                /\ s \in RequestType /\ s.passed = r.passed /\ s.answer = a
                /\ s.surface = r.surface /\ s.user = r.user /\ s.project = r.project /\ s.path = r.path
                /\ s.glimpsed = r.glimpsed
  BY DEF RequestType

\* A check passes, or its refusal is the answer.
LEMMA CheckInv ==
    ASSUME IndInv, NEW q \in Request, Check(q)
    PROVE  IndInv'
PROOF
  <1> DEFINE r == request[q]
             check == Chain[r.surface][r.passed + 1]
             up == [r EXCEPT !.passed = @ + 1]
             reply(a) == [r EXCEPT !.answer = a]
  <1>1. /\ request \in [Request -> RequestType \cup {None}] /\ r # None /\ r.answer = None
        /\ UNCHANGED <<environment, run>> /\ r.passed < Len(Chain[r.surface])
    BY DEF IndInv, RequestsOK, Check, Underway
  <1>2. r \in RequestType /\ Noted(r) /\ Judged(r)
    BY <1>1 DEF IndInv
  <1>3. /\ r.surface \in Surface /\ r.passed \in 0..3 /\ r.user \in User \cup {None} /\ r.project \in Project
        /\ r.glimpsed \in BOOLEAN
    BY <1>2 DEF RequestType
  <1>4. Len(Chain[r.surface]) \in 1..3 /\ r.passed + 1 \in 1..Len(Chain[r.surface]) /\ r.passed < 3
    <2>1. Len(Chain[r.surface]) \in 1..3
      <3>1. \A s \in Surface : Len(Chain[s]) \in 1..3
        BY ChainLengths
      <3>2. r.surface \in Surface
        BY <1>3
      <3> HIDE DEF r
      <3> QED BY ONLY <3>1, <3>2
    <2>2. r.passed \in 0..3 /\ r.passed < Len(Chain[r.surface])
      BY <1>1, <1>3
    <2>3. \A m \in 1..3, k \in 0..3 : k < m => k + 1 \in 1..m /\ k < 3
      OBVIOUS
    <2> QED BY ONLY <2>1, <2>2, <2>3
  <1>5. run[q] = None
    BY <1>1 DEF IndInv, Fits
  <1>6. \/ /\ check = "quota"
           /\ request' = [request EXCEPT ![q] = up] \/ request' = [request EXCEPT ![q] = reply("402")]
        \/ /\ check = "limit"
           /\ request' = [request EXCEPT ![q] = up] \/ request' = [request EXCEPT ![q] = reply("429")]
        \/ /\ check = "sight"
           /\ \/ r.path = r.project /\ Visible(r.user, r.project) /\ request' = [request EXCEPT ![q] = up]
              \/ request' = [request EXCEPT ![q] = reply("404")]
        \/ /\ check = "key"
           /\ \/ request' = [request EXCEPT ![q] = up]
              \/ ~Keyed(r.user, r.project) /\ request' = [request EXCEPT ![q] = reply("500")]
    <2>1. \A a : AnswerWith(q, a) <=> request' = [request EXCEPT ![q] = reply(a)]
      BY DEF AnswerWith
    <2>2. \A b, a : Judge(q, b, a) => \/ b /\ request' = [request EXCEPT ![q] = up]
                                      \/ ~b /\ request' = [request EXCEPT ![q] = reply(a)]
      BY <2>1 DEF Judge
    <2>3. \/ check = "quota" /\ Judge(q, r.project \notin over, "402")
          \/ check = "limit" /\ \E pass \in BOOLEAN : Judge(q, pass, "429")
          \/ check = "sight" /\ Judge(q, r.path = r.project /\ Visible(r.user, r.project), "404")
          \/ check = "key" /\ Judge(q, Keyed(r.user, r.project), "500")
      BY DEF Check
    <2>4. Judge(q, r.project \notin over, "402") =>
             request' = [request EXCEPT ![q] = up] \/ request' = [request EXCEPT ![q] = reply("402")]
      BY <2>2
    <2>5. ASSUME NEW pass \in BOOLEAN, Judge(q, pass, "429")
          PROVE  request' = [request EXCEPT ![q] = up] \/ request' = [request EXCEPT ![q] = reply("429")]
      BY <2>2, <2>5
    <2>6. Judge(q, r.path = r.project /\ Visible(r.user, r.project), "404") =>
             \/ r.path = r.project /\ Visible(r.user, r.project) /\ request' = [request EXCEPT ![q] = up]
             \/ request' = [request EXCEPT ![q] = reply("404")]
      BY <2>2
    <2>7. Judge(q, Keyed(r.user, r.project), "500") =>
             \/ request' = [request EXCEPT ![q] = up]
             \/ ~Keyed(r.user, r.project) /\ request' = [request EXCEPT ![q] = reply("500")]
      BY <2>2
    <2> QED BY <2>3, <2>4, <2>5, <2>6, <2>7
  <1>7. ASSUME request' = [request EXCEPT ![q] = up],
               check = "sight" => r.path = r.project /\ Visible(r.user, r.project)
        PROVE  IndInv'
    <2>1. /\ up \in RequestType /\ up.passed = r.passed + 1 /\ up.answer = r.answer
          /\ up.surface = r.surface /\ up.user = r.user /\ up.project = r.project /\ up.path = r.path
          /\ up.glimpsed = r.glimpsed
      BY <1>2, <1>4, Updated
    <2>2. Behind(up, "sight") => Behind(r, "sight") \/ check = "sight"
      <3>1. \A k \in 1..up.passed : k \in 1..r.passed \/ k = r.passed + 1
        BY <1>3, <2>1
      <3> QED BY <2>1, <3>1 DEF Behind
    <2>3. check = "sight" => r.surface # "ingest"
      BY <1>4, SightInChain
    <2>4. check = "sight" => r.glimpsed /\ <<r.user, TeamOf[r.project]>> \in member /\ r.project \in project
      BY <1>2, <1>7, <2>3 DEF Noted, Judged, Visible
    <2>5. Noted(up)
      BY <1>2, <2>1 DEF Noted
    <2>6. None \notin {"200", "400", "402", "500", "message"}
      BY NoneAssumption DEF Answer
    <2>7. Judged(up)
      BY <1>1, <1>2, <1>7, <2>1, <2>2, <2>4, <2>6 DEF Judged
    <2>8. /\ up.passed <= Len(Chain[up.surface])
          /\ up.answer \in {"200", "400", "message"} => up.passed = Len(Chain[up.surface])
      BY <1>1, <1>4, <2>1, <2>6
    <2> HIDE DEF up
    <2> QED BY <1>1, <1>5, <1>7, <2>1, <2>5, <2>7, <2>8, RequestStep
  <1>8. ASSUME NEW a \in Answer \ {"200", "400", "message"}, request' = [request EXCEPT ![q] = reply(a)],
               a = "402" => check = "quota",
               a = "500" => check = "key" /\ ~Keyed(r.user, r.project)
        PROVE  IndInv'
    <2> DEFINE s == reply(a)
    <2>1. /\ s \in RequestType /\ s.passed = r.passed /\ s.answer = a
          /\ s.surface = r.surface /\ s.user = r.user /\ s.project = r.project /\ s.path = r.path
          /\ s.glimpsed = r.glimpsed
      BY <1>2, Updated
    <2>2. Behind(s, "sight") <=> Behind(r, "sight")
      BY <2>1 DEF Behind
    <2>3. a = "500" => r.project \in deleted
      <3> SUFFICES ASSUME a = "500"
                   PROVE  r.project \in deleted
        OBVIOUS
      <3>1. \E j \in 1..r.passed : Chain[r.surface][j] = "sight"
        <4>1. \E j \in 1..(r.passed + 1) - 1 : Chain[r.surface][j] = "sight"
          BY <1>3, <1>4, <1>8, SightInChain
        <4>2. (r.passed + 1) - 1 = r.passed
          BY <1>3
        <4> QED BY <4>1, <4>2
      <3>2. <<r.user, TeamOf[r.project]>> \in member /\ r.project \in project
        BY <1>2, <3>1 DEF Judged, Behind
      <3>3. keyed = project
        BY DEF IndInv, Twins
      <3> QED BY <1>8, <3>2, <3>3 DEF Keyed, Visible
    <2>4. Noted(s)
      BY <1>2, <2>1 DEF Noted
    <2>5. Judged(s)
      BY <1>1, <1>2, <1>8, <2>1, <2>2, <2>3 DEF Judged
    <2>6. /\ s.passed <= Len(Chain[s.surface])
          /\ s.answer \in {"200", "400", "message"} => s.passed = Len(Chain[s.surface])
      BY <1>1, <1>3, <1>4, <2>1
    <2>7. request' = [request EXCEPT ![q] = s]
      BY <1>8
    <2> HIDE DEF s
    <2> QED BY <1>1, <1>5, <2>1, <2>4, <2>5, <2>6, <2>7, RequestStep
  <1>9. {"402", "404", "429", "500"} \subseteq Answer \ {"200", "400", "message"}
    BY DEF Answer
  <1> HIDE DEF r, check, up, reply
  <1> QED BY <1>6, <1>7, <1>8, <1>9

\* A request that has all its checks behind it is answered.
LEMMA AnsweredInv ==
    ASSUME IndInv, NEW q \in Request, Cleared(q), NEW a \in Answer, a \notin {"402", "500"}, AnswerWith(q, a),
           UNCHANGED <<environment, run>>,
           run[q] # None => /\ run[q].phase \in {"ended", "failed"}
                            /\ a = "400" => ~run[q].wrote
                            /\ a = "200" => run[q].phase = "ended" \/ run[q].wrote
    PROVE  IndInv'
PROOF
  <1> DEFINE r == request[q]
             s == [r EXCEPT !.answer = a]
  <1>1. /\ request \in [Request -> RequestType \cup {None}] /\ r # None
        /\ r.passed = Len(Chain[r.surface])
    BY DEF IndInv, RequestsOK, Cleared, Underway
  <1>2. r \in RequestType /\ Noted(r) /\ Judged(r) /\ (run[q] # None => Fits(r, run[q]))
    BY <1>1 DEF IndInv
  <1>3. /\ s \in RequestType /\ s.passed = r.passed /\ s.answer = a
        /\ s.surface = r.surface /\ s.user = r.user /\ s.project = r.project /\ s.path = r.path
        /\ s.glimpsed = r.glimpsed
    BY <1>2, Updated
  <1>4. Behind(s, "sight") <=> Behind(r, "sight")
    BY <1>3 DEF Behind
  <1>5. Noted(s) /\ Judged(s)
    BY <1>2, <1>3, <1>4 DEF Noted, Judged
  <1>6. run[q] # None => Fits(s, run[q])
    BY <1>2, <1>3 DEF Fits
  <1>7. r.surface \in Surface /\ r.passed \in 0..3
    BY <1>2 DEF RequestType
  <1>8. s.passed <= Len(Chain[s.surface]) /\ s.passed = Len(Chain[s.surface])
    BY <1>1, <1>3, <1>7
  <1>9. request' = [request EXCEPT ![q] = s]
    BY DEF AnswerWith
  <1> HIDE DEF s
  <1> QED BY <1>3, <1>5, <1>6, <1>8, <1>9, RequestStep

LEMMA ServeInv ==
    ASSUME IndInv, NEW q \in Request, Serve(q)
    PROVE  IndInv'
PROOF
  <1>1. /\ Cleared(q) /\ AnswerWith(q, "200") /\ UNCHANGED <<environment, run>>
        /\ request[q].surface \notin Analysis
    BY DEF Serve
  <1>2. run[q] = None
    BY <1>1 DEF IndInv, Fits
  <1>3. "200" \in Answer
    BY DEF Answer
  <1> QED BY <1>1, <1>2, <1>3, AnsweredInv

\* The run of an unanswered request has ended: it passed all its checks.
LEMMA ReplyInv ==
    ASSUME IndInv, NEW q \in Request, Reply(q)
    PROVE  IndInv'
PROOF
  <1> DEFINE a == IF run[q].phase = "ended" \/ run[q].wrote THEN "200"
                  ELSE IF request[q].surface = "rest" THEN "400" ELSE "message"
  <1>1. /\ Underway(q) /\ run[q] # None /\ run[q].phase \in {"ended", "failed"}
        /\ AnswerWith(q, a) /\ UNCHANGED <<environment, run>>
    BY DEF Reply, Ended
  <1>2. Cleared(q)
    BY <1>1 DEF IndInv, Fits, Cleared
  <1>3. /\ a \in Answer /\ a \notin {"402", "500"}
        /\ a = "400" => ~run[q].wrote
        /\ a = "200" => run[q].phase = "ended" \/ run[q].wrote
    BY DEF Answer
  <1> HIDE DEF a
  <1> QED BY <1>1, <1>2, <1>3, AnsweredInv
-----------------------------------------------------------------------------
(* Runs *)

\* A step of one run.
LEMMA RunStep ==
    ASSUME IndInv, NEW q \in Request, NEW w \in RunType, run' = [run EXCEPT ![q] = w],
           UNCHANGED <<environment, request>>, request[q] # None, Sound(w), Fits(request[q], w)
    PROVE  IndInv'
PROOF
  <1>1. UNCHANGED <<member, project, keyed, draft, deleted, granted, token, over, request>>
    BY DEF environment, creation, credentials
  <1>2. run \in [Request -> RunType \cup {None}]
    BY DEF IndInv, RequestsOK
  <1>3. /\ run' \in [Request -> RunType \cup {None}] /\ run'[q] = w
        /\ \A p \in Request : p # q => run'[p] = run[p]
    BY <1>2
  <1>4. EnvironmentOK' /\ Twins'
    BY <1>1 DEF IndInv, EnvironmentOK, Twins
  <1>5. RequestsOK'
    BY <1>1, <1>3 DEF IndInv, RequestsOK
  <1>6. \A p \in Request : request'[p] # None => (Noted(request[p]))' /\ (Judged(request[p]))'
    <2> SUFFICES ASSUME NEW p \in Request, request[p] # None
                 PROVE  (Noted(request[p]))' /\ (Judged(request[p]))'
      BY <1>1
    <2>1. Noted(request[p]) /\ Judged(request[p])
      BY DEF IndInv
    <2>2. (Behind(request[p], "sight"))' <=> Behind(request[p], "sight")
      BY <1>1 DEF Behind
    <2> QED BY <1>1, <2>1, <2>2 DEF Noted, Judged, Visible
  <1>7. \A p \in Request : run'[p] # None => (Sound(run[p]))' /\ (Fits(request[p], run[p]))'
    <2> SUFFICES ASSUME NEW p \in Request, run'[p] # None
                 PROVE  (Sound(run[p]))' /\ (Fits(request[p], run[p]))'
      OBVIOUS
    <2>1. Sound(run'[p]) /\ Fits(request[p], run'[p])
      BY <1>3 DEF IndInv
    <2> QED BY <1>1, <2>1 DEF Sound, Fits
  <1> QED BY <1>4, <1>5, <1>6, <1>7 DEF IndInv

LEMMA StartInv ==
    ASSUME IndInv, NEW q \in Request, Start(q)
    PROVE  IndInv'
PROOF
  <1> DEFINE sink == IF request[q].surface = "rest" THEN "json" ELSE "collect"
  <1>1. /\ request[q] # None /\ request[q].answer = None /\ request[q].surface \in Analysis
        /\ request[q].passed = Len(Chain[request[q].surface]) /\ UNCHANGED <<environment, request>>
    BY DEF Start, Cleared, Underway
  <1>2. PICK sql \in Sql \cup {None}, catalog \in BOOLEAN :
           /\ run' = [run EXCEPT ![q] = NewRun(sink, sql, catalog)]
    BY DEF Start
  <1> DEFINE w == NewRun(sink, sql, catalog)
  <1>3. /\ w.sink = sink /\ w.phase \in {"describe", "submit"} /\ w.described = 0 /\ ~w.foreign
        /\ ~w.wrote /\ w.rows = 0 /\ w.tail = None
    BY DEF NewRun
  <1>4. w \in RunType
    BY TablesCount, QueryAssumption DEF NewRun, RunType, Sink
  <1>5. Sound(w)
    BY <1>3, TablesCount, QueryAssumption DEF Sound
  <1>6. None \notin {"200", "400"}
    BY NoneAssumption DEF Answer
  <1>7. Fits(request[q], w)
    BY <1>1, <1>3, <1>6 DEF Fits
  <1> HIDE DEF w
  <1> QED BY <1>1, <1>2, <1>4, <1>5, <1>7, RunStep DEF w

\* A run's step, on the record.
LEMMA AdvanceSound ==
    ASSUME NEW q \in Request, run \in [Request -> RunType \cup {None}], run[q] \in RunType, Sound(run[q]),
           run[q] # None, Advance(q)
    PROVE  /\ run[q].phase \notin {"ended", "failed"}
           /\ \E w \in RunType : /\ run' = [run EXCEPT ![q] = w]
                                 /\ Sound(w) /\ w.sink = run[q].sink
PROOF
  <1> DEFINE r == run[q]
             n == Cardinality(DOMAIN Tables)
  <1>1. /\ r.sink \in Sink /\ r.sql \in Sql \cup {None}
        /\ r.phase \in {"describe", "submit", "rows", "ended", "failed"}
        /\ r.described \in 0..n /\ r.found \in 0..MaxFound /\ r.foreign \in BOOLEAN /\ r.wrote \in BOOLEAN
        /\ r.rows \in 0..MaxFound /\ r.tail \in 0..MaxFound \cup {None}
    BY DEF RunType
  <1>2. n = 3 /\ RowLimit \in Nat /\ MaxFound \in Nat
    BY TablesCount, QueryAssumption
  <1>3. ASSUME Fail(q)
        PROVE  \E w \in RunType : run' = [run EXCEPT ![q] = w] /\ (r.phase # "ended" => Sound(w)) /\ w.sink = r.sink
    <2> DEFINE w == [r EXCEPT !.phase = "failed"]
    <2>1. /\ w \in RunType /\ w.phase = "failed" /\ w.sink = r.sink /\ w.foreign = r.foreign /\ w.tail = r.tail
          /\ w.found = r.found /\ w.rows = r.rows /\ w.wrote = r.wrote
      BY DEF RunType
    <2>2. r.phase # "ended" => Sound(w)
      BY <2>1 DEF Sound
    <2>3. run' = [run EXCEPT ![q] = w]
      BY <1>3 DEF Fail
    <2> QED BY <2>1, <2>2, <2>3
  <1>4. CASE Describe(q)
    <2>1. CASE Fail(q)
      BY <1>3, <1>4, <2>1 DEF Describe
    <2>2. CASE ~Fail(q)
      <3> DEFINE last == r.described + 1 = n
                 w == [r EXCEPT !.described = @ + 1,
                                !.phase = IF ~last THEN @ ELSE IF r.sql = None THEN "ended" ELSE "submit"]
      <3>1. r.phase = "describe" /\ run' = [run EXCEPT ![q] = w]
        BY <1>4, <2>2 DEF Describe
      <3>2. r.described + 1 \in 0..n
        BY <1>1, <1>2, <3>1 DEF Sound
      <3>3. /\ w \in RunType /\ w.described = r.described + 1
            /\ w.phase = IF ~last THEN "describe" ELSE IF r.sql = None THEN "ended" ELSE "submit"
            /\ w.sink = r.sink /\ w.foreign = r.foreign /\ w.tail = r.tail
            /\ w.found = r.found /\ w.rows = r.rows /\ w.wrote = r.wrote /\ w.sql = r.sql
        BY <3>1, <3>2 DEF RunType
      <3>4. r.tail = None
        BY <3>1 DEF Sound
      <3>5. Sound(w)
        BY <1>1, <1>2, <3>2, <3>3, <3>4 DEF Sound
      <3> QED BY <3>1, <3>3, <3>5
    <2> QED BY <2>1, <2>2
  <1>5. CASE Reject(q)
    BY <1>3, <1>5 DEF Reject
  <1>6. CASE Submit(q)
    <2>1. CASE Fail(q)
      BY <1>3, <1>6, <2>1 DEF Submit
    <2>2. CASE ~Fail(q)
      <3>1. PICK name \in Readable, found \in 0..MaxFound :
               run' = [run EXCEPT ![q].phase = "rows", ![q].found = found,
                                  ![q].foreign = found > 0 /\ ~Scoped(name),
                                  ![q].wrote = run[q].sink = "json"]
        BY <1>6, <2>2 DEF Submit
      <3> DEFINE w == [r EXCEPT !.phase = "rows", !.found = found, !.foreign = found > 0 /\ ~Scoped(name),
                                !.wrote = r.sink = "json"]
      <3>2. r.phase = "submit" /\ run' = [run EXCEPT ![q] = w]
        BY <1>6, <3>1, ZenonT(60) DEF Submit
      <3>3. (found > 0 /\ ~Scoped(name)) = FALSE
        BY AllScoped
      <3>4. (r.sink = "json") \in BOOLEAN
        OBVIOUS
      <3>5. /\ w \in RunType /\ w.phase = "rows" /\ w.found = found /\ w.foreign = FALSE
            /\ w.wrote = (r.sink = "json") /\ w.sink = r.sink /\ w.tail = r.tail
            /\ w.rows = r.rows /\ w.described = r.described
        BY <3>3, <3>4 DEF RunType
      <3>6. r.tail = None
        BY <3>2 DEF Sound
      <3>7. Sound(w)
        BY <3>2, <3>5, <3>6 DEF Sound
      <3> QED BY <3>2, <3>5, <3>7
    <2> QED BY <2>1, <2>2
  <1>7. CASE Row(q)
    <2>1. r.phase = "rows" /\ r.rows < r.found
      BY <1>7 DEF Row
    <2>2. CASE r.sink = "collect" /\ r.rows >= RowLimit
      BY <1>3, <1>7, <2>1, <2>2 DEF Row
    <2>3. CASE ~(r.sink = "collect" /\ r.rows >= RowLimit)
      <3> DEFINE w == [r EXCEPT !.rows = @ + 1]
      <3>1. run' = [run EXCEPT ![q] = w]
        BY <1>7, <2>3 DEF Row
      <3>2. r.rows + 1 \in 0..MaxFound
        BY <1>1, <1>2, <2>1
      <3>3. /\ w \in RunType /\ w.rows = r.rows + 1 /\ w.phase = r.phase /\ w.found = r.found
            /\ w.foreign = r.foreign /\ w.wrote = r.wrote /\ w.sink = r.sink /\ w.tail = r.tail
            /\ w.described = r.described
        BY <3>2 DEF RunType
      <3>4. r.tail = None
        BY <2>1 DEF Sound
      <3>5. r.sink = "collect" => r.rows + 1 <= RowLimit
        BY <1>1, <1>2, <2>3
      <3>6. Sound(w)
        BY <2>1, <3>3, <3>4, <3>5 DEF Sound
      <3> QED BY <2>1, <3>1, <3>3, <3>6
    <2> QED BY <2>2, <2>3
  <1>8. CASE Break(q)
    BY <1>3, <1>8 DEF Break
  <1>9. CASE End(q)
    <2> DEFINE w == [r EXCEPT !.phase = "ended", !.tail = r.rows]
    <2>1. r.phase = "rows" /\ r.rows = r.found /\ run' = [run EXCEPT ![q] = w]
      BY <1>9 DEF End
    <2>2. /\ w \in RunType /\ w.phase = "ended" /\ w.tail = r.rows /\ w.rows = r.rows /\ w.found = r.found
          /\ w.foreign = r.foreign /\ w.wrote = r.wrote /\ w.sink = r.sink /\ w.described = r.described
          /\ w.sql = r.sql
      BY <1>1 DEF RunType
    <2>3. w.tail # None
      BY <1>1, <2>2, QueryAssumption DEF RunType
    <2>4. Sound(w)
      BY <1>1, <2>1, <2>2, <2>3 DEF Sound
    <2> QED BY <2>1, <2>2, <2>4
  <1> QED BY <1>4, <1>5, <1>6, <1>7, <1>8, <1>9 DEF Advance

LEMMA WorkInv ==
    ASSUME IndInv, NEW q \in Request, Work(q)
    PROVE  IndInv'
PROOF
  <1>1. run[q] # None /\ Advance(q) /\ UNCHANGED <<environment, request>>
    BY DEF Work, Advance
  <1>2. /\ run \in [Request -> RunType \cup {None}] /\ run[q] \in RunType /\ Sound(run[q])
        /\ Fits(request[q], run[q]) /\ request[q] # None
    BY <1>1 DEF IndInv, RequestsOK
  <1>3. /\ run[q].phase \notin {"ended", "failed"}
        /\ \E w \in RunType : /\ run' = [run EXCEPT ![q] = w]
                              /\ Sound(w) /\ w.sink = run[q].sink
    BY <1>1, <1>2, AdvanceSound
  <1>4. PICK w \in RunType : run' = [run EXCEPT ![q] = w] /\ Sound(w) /\ w.sink = run[q].sink
    BY <1>3
  <1>5. request[q].answer = None
    BY <1>2, <1>3 DEF Fits
  <1>6. None \notin {"200", "400"}
    BY NoneAssumption DEF Answer
  <1>7. Fits(request[q], w)
    BY <1>2, <1>4, <1>5, <1>6 DEF Fits
  <1> QED BY <1>1, <1>2, <1>4, <1>7, RunStep
-----------------------------------------------------------------------------
LEMMA InitInv == Init => IndInv
PROOF
  <1> SUFFICES ASSUME Init
               PROVE  IndInv
    OBVIOUS
  <1>1. EnvironmentOK /\ Twins
    BY AccessAssumption DEF Init, EnvironmentOK, Twins
  <1>2. RequestsOK
    BY DEF Init, RequestsOK
  <1> QED BY <1>1, <1>2 DEF Init, IndInv

\* Every step keeps the invariant.
LEMMA NextInv == IndInv /\ [Next]_vars => IndInv'
PROOF
  <1> SUFFICES ASSUME IndInv, [Next]_vars
               PROVE  IndInv'
    OBVIOUS
  <1>1. CASE UNCHANGED vars
    <2>1. UNCHANGED <<member, project, keyed, draft, deleted, granted, token, over, request, run>>
      BY <1>1 DEF vars
    <2>2. EnvironmentOK'
      BY <2>1 DEF IndInv, EnvironmentOK
    <2> QED BY <2>1, <2>2, UnseenStep
  <1>2. CASE \E q \in Request : Bearer(q) \/ Browse(q) \/ Produce(q) \/ Check(q)
    BY <1>2, ArriveInv, CheckInv
  <1>3. CASE \E q \in Request : Serve(q) \/ Start(q) \/ Work(q) \/ Reply(q)
    BY <1>3, ServeInv, StartInv, WorkInv, ReplyInv
  <1> QED BY <1>1, <1>2, <1>3, EnvironmentInv DEF Next

LEMMA SpecInv == Spec => []IndInv
PROOF
  <1> QED BY InitInv, NextInv, PTL DEF Spec

\* Rows, credentials, requests and runs keep their types, for any constants.
THEOREM TypeCorrect == Spec => []TypeOK
PROOF
  <1>1. IndInv => TypeOK
    BY DEF IndInv, EnvironmentOK, RequestsOK, TypeOK
  <1> QED BY SpecInv, <1>1, PTL

\* A request is answered with a project's data, or its events are taken, only
\* if its caller could see that project at some moment since it arrived, and no
\* query finds a row of another project.
THEOREM DataInSight == Spec => []ServedInSight
PROOF
  <1>1. IndInv => ServedInSight
    <2> SUFFICES ASSUME IndInv, NEW q \in Request
                 PROVE  /\ request[q] # None /\ request[q].answer = "200" =>
                              request[q].glimpsed /\ request[q].path = request[q].project
                        /\ run[q] # None => ~run[q].foreign
      BY DEF ServedInSight
    <2>1. run[q] # None => ~run[q].foreign
      BY DEF IndInv, Sound
    <2>2. ASSUME request[q] # None, request[q].answer = "200"
          PROVE  request[q].glimpsed /\ request[q].path = request[q].project
      <3> DEFINE r == request[q]
      <3>1. r \in RequestType /\ Judged(r) /\ r.passed = Len(Chain[r.surface]) /\ r.surface \in Surface
        BY <2>2 DEF IndInv, RequestsOK, RequestType
      <3>2. CASE r.surface = "ingest"
        BY <3>1, <3>2 DEF Judged
      <3>3. CASE r.surface # "ingest"
        <4>1. \E k \in 1..r.passed : Chain[r.surface][k] = "sight"
          BY <3>1, <3>3, SightInChain
        <4> QED BY <3>1, <4>1 DEF Judged, Behind
      <3> QED BY <3>2, <3>3
    <2> QED BY <2>1, <2>2
  <1> QED BY SpecInv, <1>1, PTL

\* MCP and the playground say that a project is over its quota only to those
\* who could see it.
THEOREM QuotaInSight == Spec => []QuotaAnswerInSight
PROOF
  <1>1. IndInv => QuotaAnswerInSight
    <2> SUFFICES ASSUME IndInv, NEW q \in Request, request[q] # None, request[q].answer = "402",
                        request[q].surface \in {"mcp", "html"}
                 PROVE  request[q].glimpsed
      BY DEF QuotaAnswerInSight
    <2> DEFINE r == request[q]
    <2>1. r \in RequestType /\ Judged(r)
      BY DEF IndInv, RequestsOK
    <2>2. r.surface \in Surface /\ r.passed \in 0..3
      BY <2>1 DEF RequestType
    <2>3. r.passed + 1 \in 1..Len(Chain[r.surface]) /\ Chain[r.surface][r.passed + 1] = "quota"
      BY <2>1, <2>2, ChainLengths DEF Judged
    <2>4. \E j \in 1..(r.passed + 1) - 1 : Chain[r.surface][j] = "sight"
      BY <2>2, <2>3, SightInChain
    <2>5. (r.passed + 1) - 1 = r.passed
      BY <2>2
    <2> QED BY <2>1, <2>4, <2>5 DEF Judged, Behind
  <1> QED BY SpecInv, <1>1, PTL

\* An answer claims no more than it holds: whole streams, whole results within
\* the limit, whole catalogs, and a project page that fails only over a project
\* deleted meanwhile.
THEOREM AnswersWhole == Spec => []AnswerIsWhole
PROOF
  <1>1. IndInv => AnswerIsWhole
    <2> SUFFICES ASSUME IndInv, NEW q \in Request, request[q] # None
                 PROVE  /\ request[q].answer = "500" => request[q].project \in deleted
                        /\ run[q] # None =>
                              LET r == run[q] IN
                              /\ r.tail # None => r.tail = r.found /\ r.rows = r.found
                              /\ request[q].answer = "400" => ~r.wrote
                              /\ request[q].answer = "200" /\ r.sink = "collect" => r.phase = "ended" /\ r.rows <= RowLimit
                              /\ r.phase = "ended" =>
                                    r.described \in {0, Cardinality(DOMAIN Tables)} /\ (r.tail = None => r.sql = None)
      BY DEF AnswerIsWhole
    <2>1. Judged(request[q])
      BY DEF IndInv
    <2>2. run[q] # None => Sound(run[q]) /\ Fits(request[q], run[q])
      BY DEF IndInv
    <2> QED BY <2>1, <2>2 DEF Judged, Sound, Fits
  <1> QED BY SpecInv, <1>1, PTL
=============================================================================
