# Mere Analytics in TLA+

Specifications of the server in this repository: what they model, what TLC
checks about them on small instances, and what TLAPS proves about them for all.
Paths are relative to the root of the repository.

- [The system](#the-system)
- [Modules](#modules)
- [How the state and the actions correspond to the code](#how-the-state-and-the-actions-correspond-to-the-code)
- [Runs](#runs)
- [Fairness](#fairness)
- [Proofs](#proofs)
- [What the checks found](#what-the-checks-found)
- [What is not modelled](#what-is-not-modelled)
- [Plan](#plan)

To check a module: `tlc -config X.cfg MCX.tla`; to check its proofs:
`tlapm XProofs.tla`.

## The system

One Go process (`cmd/server`) serves a web UI, an OAuth authorization server,
query endpoints and an ingest endpoint, on two databases: Postgres for
everything but events, and ClickHouse for events.  A second command
(`cmd/maintenance`) is run by a scheduler and deletes expired rows.  During a
deploy two server processes run side by side on the same databases
(`docs/self-host.md`: "zero-downtime rollout").

| Component | State it keeps | Operations | Interacts with |
|---|---|---|---|
| Ingest buffer (`internal/ingest/channel.go`, `flusher.go`) | a Go channel of envelopes; an atomic counter of pending events; the flusher's slice | `submit` (load, compare-and-swap, non-blocking send, rollback), `drained`, `close` | one goroutine per request puts in, one flusher takes out, and at the end `captureResidual` beside it |
| Ingest pipeline (`ingest/*`, `web/ingest_handlers.go`) | `failed_events`; events in ClickHouse; flags `fatal`, `disabled`, `dlqDepth` | `postIngest`, `attemptFlush`, `writeDLQ`, `drainOnce`, `processDLQRow`, `recordUsage` | handler → buffer → flusher → ClickHouse or dead-letter queue → drain goroutine → ClickHouse; flags read by handlers and `/healthz` |
| Process lifecycle (`app/app.go`, `ingest/lifecycle.go`, `internal/migrate`, `clickhouse/bootstrap.go`) | pools, `schema_migrations`, contexts, the HTTP server, `stopCh`, a wait group | `Build` (pools, migrations, bootstrap), `Run` (three-phase SIGTERM), `Shutdown`, `captureResidual`, `Close` | starts everything above, and stops it while it runs |
| OAuth server (`internal/oauth`, `web/oauth_handlers.go`) | `oauth_clients`, `oauth_codes`, `oauth_access_tokens` | register, authorize, `IssueCode`, `ConsumeCode`, `IssueAccessToken`, bearer lookup | requesters race at `/oauth/token`; maintenance deletes rows |
| Access checks (`web/server.go`, `entitlement.go`, `query_handlers.go`, `mcp/tools.go`, `auth/viewer.go`) | none of their own: memberships, projects, tokens, a wrapper's quota | bearer, entitlement, rate limit and visibility checks, in an order per surface | each reads the state of its own moment |
| Sessions and login (`auth/service.go`, `web/auth_middleware.go`) | `sessions` | create, lookup (deletes stale rows), sliding renewal, destroy, sweep | every request with a cookie |
| Accounts, invites, teams (`auth/service.go`, `web/*_handlers.go`) | `users`, `teams`, `team_memberships`, `team_invites` | issue an invite; signup, join and login with one, each a transaction; change password | transactions meet at row locks and unique indexes in Postgres; a join widens what access checks let through |
| Projects and public tokens (`auth/viewer.go`) | `projects`, `api_tokens` | create with token in one transaction, soft delete, visibility | the project page reads the project and then its token; ingest's lookup leaves soft-deleted projects out |
| Query executor (`internal/query`) | the run of a query | describe the catalog, refuse, submit under the project's filter, stream or collect within limits | behind the access checks of REST, MCP and the playground; `additional_table_filters` and views in ClickHouse |
| Maintenance (`internal/maintenance`) | none | three deletes in series, first error returns | OAuth and sessions |
| Config, middleware, views | none between requests | | |

The hard behaviours, and what makes each component correct:

- **Buffer.**  Submitters race for the last slots of a counter that is not the
  channel's own; an envelope is split over batches; the channel can be full
  before the ceiling is reached; it can be closed under a sender.  Correct: the
  counter equals the number of events that own a slot at every instant, the
  ceiling holds, a batch goes in whole or not at all and its caller learns which.
- **Pipeline.**  Two databases, no transaction over both.  Each call may fail,
  and may have taken effect although it failed.  The order insert, delete, meter
  can be cut anywhere.  Correct: an accepted event is lost only by a dual failure
  (which raises `fatal`) or a crash; nothing is inserted again except out of a row
  that is still active; usage is never reported for what did not land; a row is given
  up only for its age or when that many inserts of it have failed; the flag goes down
  only over something that landed; everything settles once calls stop failing.
- **Lifecycle.**  Any step of the boot may fail, and SIGTERM may come during it; then
  everything is stopped while it runs, with timeouts on each wait and a capture of
  the residual that races the flusher.  Correct: nothing is served on a schema that
  is behind, dirty or unknown; no two parties may still insert one event; no pool is
  closed under a query or a goroutine that was waited for; the process always ends;
  what was accepted is then in a database or lost for a cause one can name.
- **OAuth.**  Requesters race for one code; the token is issued in a second call
  after the code is used up; the code may expire or be swept between two calls.
  Correct: at most one token per code, for what the approval bound; a wrong proof
  burns nothing; neither a code nor an error is sent to a URI its client has not
  registered.
- **Sessions.**  Lookup, renewal and deletion are separate calls on one row, made by
  every request with a cookie; a renewal may land after the row it renews has
  expired or was deleted; a change of password is written long after the old one was
  verified.  Correct: what is over stays over, by logout or by age, and a flagged
  user reaches nothing until the password is changed.
- **Invites.**  Two people use one invite, one person uses two, an invite expires
  while a transaction waits for the other's row lock, a login has its session before
  the consume fails.  Correct: an invite makes one member, in the step that uses it
  up; a signup leaves all its rows or none; what a caller was told stays true.
- **Access.**  Between authentication and the query a project may be deleted, a
  token may expire and a quota may close.  Correct: nobody is served a project
  they could not see at some moment since the request arrived; no row of another
  project is among those found; an answer claims no more than it holds.

## Modules

| Module | What it is |
|---|---|
| `BoundedBuffer` | abstract: what `Submit` promises its callers |
| `IngestChannel` | `channel.go` and the flusher's loop, one step per atomic operation; implements `BoundedBuffer` |
| `IngestChannelProofs` | its theorems |
| `EventDelivery` | abstract: how far an event may have got and the moves that are legal |
| `IngestPipeline` | from the handler to the databases, one step per database call; implements `EventDelivery` |
| `IngestPipelineProofs` | its invariants, for any number of processes |
| `IngestDeliveryProofs` | the refinement of `EventDelivery`, and what a process alone with its databases promises |
| `ServerProcess` | a process from its first line to its exit |
| `ServerProcessProofs` | its theorems |
| `AuthorizationGrant` | abstract: the life of an authorization code |
| `OAuthFlow` | registration, approval, exchange and sweep, one step per database call; implements `AuthorizationGrant` |
| `OAuthFlowProofs` | its theorems |
| `WebSession` | login, the session middleware, change and reset of a password, one step per database call |
| `WebSessionProofs` | its theorems |
| `InviteContract` | abstract: what an invite promises |
| `InviteSignup` | signup, join and login with an invite, one step per statement of the transaction; implements `InviteContract` |
| `InviteSignupProofs` | its theorems |
| `QueryExecutor` | how a query is run and what reaches the caller |
| `AnalysisAccess` | the chains of checks in front of data, composed with `QueryExecutor` behind them |
| `AnalysisAccessProofs` | the theorems of the two |
| `MC*` | small instances for TLC |

Each module takes from its neighbour what that neighbour was shown to promise.
`IngestPipeline` and `ServerProcess` have an atomic `Submit`, because
`IngestChannel` implements `BoundedBuffer`, where it is atomic.
`ServerProcess` has the insert and the bookkeeping after it as steps of their own, as
`IngestPipeline` does, but leaves to that module how often a row is tried, the usage
sink and how many copies an event has.
`AnalysisAccess` has a person join a team in one step, because `InviteSignup`
implements `InviteContract`, where it is one.
`AnalysisAccess` turns an approval into a token in one step, `OAuthFlow` leaves
out what a project is.  `PROJECT.json` maps every definition to the lines it
stands for.

## How the state and the actions correspond to the code

**IngestChannel.**  `pending` is `channel.pending`, `queue` the Go channel (of
requests: an envelope is the batch of one), `cur` the rest of the envelope the
flusher is appending, `buf` its slice, `released` what it has given back.  `pc`
and `seen` are the program counter and the loaded value of each `submit` call.
`Load`, `Swap`, `Send` and `Rollback` are the four atomic operations of `submit`.
`Drained` is the end of `attemptFlush`; `Close` is `Service.Shutdown`'s, `Cancel`
the context's.  `ResidualTake` and `ResidualWrite` are `captureResidual`, which takes
envelopes (`residual`) beside the flusher once the channel is closed, and gives their
slots back only if its one write succeeds (`captured`: it has been tried).  A send on
a closed channel panics, as in Go, and keeps its reservation.

**IngestPipeline.**  Per process: `queue`, `cur`, `buf`, `fpc` (the flusher),
`dpc`, `todo`, `depth` (the drain goroutine and its snapshot of the rows it
listed), `fatal`.  Shared: `table` is `failed_events`, `ch` counts an event's
rows in ClickHouse, `billed` what the usage sink was told.  A call may fail
(`Fault`); if `LostReplies` it may have taken effect all the same.  `Crash`
empties a process's memory and remembers in `vanished` what it held.  The
flags are read in `Check`, the batch is submitted later in `Accept` or `Refuse`,
so a flag may change in between.  The flusher and the drain goroutine meter in one
step and touch the flag in the next (`FlushMeter`, `FlushClear`, `DrainMeter`,
`DrainClear`), so the flag may change there too.  `dropped`, `vanished`, `accepted`
and `crashes` are history, and so are `refused` (how many inserts of a row's batch
have failed, the flush that parked it and replays, whatever the row's own
`attempt_count` says) and `recovered` (an insert of the process has succeeded since
its flag went up); no step reads them.

A batch is stored in `failed_events` as one JSON value of a `JSONB` column.  Some
events that ClickHouse takes it cannot hold: a string with `\u0000` in it, or a time
whose year does not marshal.  `Unparkable` are those events; one of them keeps the
whole batch out of the queue, with Postgres in the best of health (`Parkable`).

**ServerProcess.**  `main` is where the main goroutine is: `build`, `serving`, `http`
(phase 2), `ingest` (before phase 3), `wait` and `residual` (inside
`Service.Shutdown`), `close` (the deferred `Close`), `exited`.  In `build`, `built`
counts the steps of `BuildSteps` that are done; `schema` is what the two
`schema_migrations` tables say, which outlives the process, and so starts in any
state; `pools` are the open pools.  `shared` says whether the pipeline runs under the
context that SIGTERM cancels, as with `app.Run`, or under one of its own, as a
wrapper that calls `Build` may arrange; both are initial states.  `unwaited` and
`expired` record that a wait was cut short.  A handler arrives, looks its token up
(in two steps: it holds a Postgres connection between them), reads `disabled`, reads
`fatal`, and submits.  A request may arrive on an open connection until phase 2 has
closed them all, or to the end if nobody waited.  A flush is `FlushInsert`, then, if
that failed, `FlushDLQ`; a replay is `DrainInsert`, which leaves the row in `replay`,
then `DrainDelete`.  A call that does not reach its database (`Reaches`: pool open,
context live) fails; one that does may fail all the same (`Fails`), and may have taken
effect (`Perhaps`).  So an event may be in ClickHouse and in `failed_events` at once.
`dropped` is what the flusher gave up, `unsaved` what `captureResidual` gave up, having
asked Postgres alone.

**OAuthFlow.**  `registered[cl]` are the redirect URIs in the row of client `cl`, none
before it registers; `Allowed` are those `validateRedirectURI` accepts.  `code[c]` is
the row of approval `c` and the approval's own progress (`form`, then `denied` or
`checked`, then `stored`, `failed` or `deleted`), `exchange[x]`
the handler of requester `x`, `tokens` the access tokens with their history,
`sweep` where `maintenance.Run` is.  `Lookup` is `ConsumeCode` up to its
comparisons, `Mark` its conditional UPDATE, `Issue` the insert of the token.  A
binding is what the code is bound to: client, redirect URI and PKCE challenge,
the last written as the verifier it was made from because S256 is injective.  A
handler whose process dies is one whose next call fails.

**WebSession.**  One user's sessions; those of others have rows of their own.
`created` and `expires` are the columns of `sessions` (`expires[s] = None`: no row),
`password` and `mustChange` those of `users`, with passwords numbered in the order
they were set.  `request[r].pc` is how far a handler is: `Lookup` is the join of
session and user, `Judge` everything `LookupSession` and `TouchSession` compute from
what it returned, `DeleteStale` and `Renew` the write that follows, `Admitted` the
gate.  Any call may fail, before or after its effect, as often as it likes.  CSRF
refusals and the cookie's own attributes are left out: a request that is refused is
one that goes no further.  `late` and `forced` are history.

**InviteSignup.**  `user[p]` is who inserted the row of person `p`: a request, the
operator, or nobody yet.  `invite` is `team_invites`, `member` is `team_memberships`
(nobody leaves a team).  `request[q].pc` is the statement a handler is at and `wrote`
the rows its open transaction has written: they are invisible to others, and they
are its locks (`Holders`), for which a statement that would write the same row waits.
A signup whose email has an account reads the invite once more (`Reread`) before it
says so, and says that the invite is invalid if it has gone meanwhile.
After the wait `Consume` evaluates `consumed_at IS NULL` on the row as it then is,
but `NOW()` as of `Begin`, which is what `fresh` remembers.  `Finish` is the handler's
return with its deferred rollback; `CommitUnheard` is a commit whose reply is lost.
`late` is history.

**QueryExecutor.**  `run[q]` is the work of one request: the catalog is read table by
table, then the SQL is refused or submitted, then rows go to a sink.  The sink
`json` streams (its first bytes are out when the statement succeeded), `collect`
keeps rows up to `RowLimit` and gives up at the next.  `Tables`, `FilterNames` and
`Readable` are the three lists that have to agree for the tenant mask to hold: the
tables behind each view, the names `additional_table_filters` confines to a project,
and what the readonly user may select from.  That is the whole database, so that
`schema_migrations` is in it too (`Shared`: no project's rows), and a table of a later
migration would be; of `system.tables` a row policy hides every row.

**AnalysisAccess.**  `Chain` has the checks of each surface in the order in which
`web/server.go`, `mcp/tools.go`, the playground's and the project page's handlers run
them.  A request carries who it speaks for, the project its credential names and the
one in its path; `Check` runs the next check on the state of that moment, and behind
the last of them `Start` hands over to `QueryExecutor`.  `draft` is what an open
transaction of `Projects.Create` has written.  `glimpsed` is history: the caller
could see the project at some moment since the request arrived.

## Runs

Every run completes; none relies on simulation.  Deadlock is not checked because
every one of these systems may rightly come to rest: no client has to send.

| Run | Instance | What it shows |
|---|---|---|
| `channel` | 4 batches (3, 1, 1 and 0 events), ceiling 4, capacity 1, flush at 3 | the accounting is exact at every step, the ceiling holds, answers are true, `BoundedBuffer` is implemented, slots come back, `Submit` returns, with the residual capture beside the flusher |
| `pipeline` | 1 process, batches of 2 and 1, an event Postgres cannot hold, 3 faults with lost replies, 1 crash, 3 attempts, 3 rows | no silent loss, metering follows landing and happens at most once, nothing is inserted again except out of an active row, a row given up is old or has failed as often as the limit says, the fatal flag is cleared over something that landed, `EventDelivery` is implemented, everything settles, the gauge catches up |
| `pipeline_double_bill` | 2 processes, 1 event, 1 fault | violated: the same row is metered twice |
| `pipeline_fatal_stuck` | 1 process, 1 fault, an event Postgres cannot hold, clients that retry | violated: `fatal` never clears |
| `shutdown` | 2 handlers, 3 events, one of them not for Postgres, 3 faults with lost replies, both contexts, schemas in any state | one party that may still insert an event, nothing is closed under its users, only a ready process serves, an account of every event at exit, the process ends |
| `shutdown_loss` | the same, no faults, every event fit for Postgres | violated: events go with the process |
| `oauth` | 2 clients that register, 2 URIs of which one is allowed, 2 codes, 2 requesters, a right and a wrong verifier, 1 fault | one token per code, bound to its approval, redirects only where registered, burned only by a fault, `AuthorizationGrant` is implemented, retries succeed |
| `session` | 1 session, 2 requests, window 2, lifetime 3, clock to 6, 3 passwords | a session that is over lets nobody in, the gate holds, rows go in the end |
| `session_reset` | the same | violated: a change of password undoes the operator's reset |
| `invites` | 2 requests, 2 invites, 3 people, 1 team | an answer is true for ever, `InviteContract` is implemented, transactions that wait for each other end |
| `access` | 1 request, 2 users, 2 teams, a project and one still to be created, row limit 1, up to 2 rows found | what is served or refused with 402 was in sight, an answer claims no more than it holds |
| `access_denial` | the same | violated: REST answers 402 about a project out of sight |

Why these bounds are enough to be interesting:

- `channel`: the batch of three is split when the buffer is not empty, it and the
  two single events do not fit together under the ceiling, and with a capacity of
  one the channel is full below the ceiling; so failed swaps, refusals by the
  counter, refusals by the channel with a rollback, and panics all occur.
- `pipeline`: three failed calls are what it takes to fail an insert, its replay
  and one piece of bookkeeping; two rows can be in the queue at once, a pass lists
  both, and a budget of three attempts lets a row fail once and still be retried.
  The real limit is 20 (`quarantineAttemptLimit`), a constant.  `MaxRows` is the
  number of flushes there can be.  What holds of several processes on one table is
  proved, for any number of them.
- `pipeline_double_bill`: one event is enough, as processes meet only at rows.
- `shutdown`: two failed calls make a dual failure, and the third may be the boot's
  or the residual's; a replay can fail at its insert, then land, and fail at its
  delete.  With two handlers one may be cut short while the other's envelope is in the
  channel.  A batch of two fills a buffer, and the single event beside it, which
  Postgres cannot hold, spoils a row when it splits that batch or is captured.
- `oauth`: a race needs two requesters, interference by a sweep two codes; a
  requester may try any number of times, with the wrong client, URI or verifier.
  Approvals are made with one verifier (`Challenge`): codes that differ there too
  are for the proofs.
- `session`: two requests are what every race here takes, one that read the row and one
  that changes it; sessions meet only at their user's password and flag, which one
  session and the operator already move.  The clock leaves time for a session to
  expire twice over: by the window, be renewed, and by the lifetime.  Three passwords
  allow a change, a reset and a change.
- `invites`: two transactions are what a lock is about, and two invites let one
  person use both and two people cross; one team makes those two meet at one
  membership.
- `access`: requests share no state they write, so they do not interact, and one
  meets every environment any number of them would.  A row limit of one with up to
  two rows found is below, at and above the limit.

In every run `MaxFaults` and `MaxCrashes` bound only how much goes wrong; no
property depends on their being used up, except that liveness starts after the
last fault.  Every property is also run against a mutant, an operator in the
module that changes one definition the way a plausible bug would, and fails there.

## Fairness

- `IngestChannel`: weak fairness of each `Submit` call, of the flusher and of the one
  write of a capture that has begun: goroutines are scheduled, the ticker fires, and
  the capture's loop has a deadline of two seconds.  Compare-and-swap needs no strong
  fairness here, because a swap fails only when another call's succeeded or the
  flusher decremented, and there are finitely many calls.  Nobody has to close the
  channel.
- `IngestPipeline`: weak fairness of the flusher and of the drain goroutine of
  each process; both are loops with tickers.  `pipeline_fatal_stuck` adds clients that
  retry, weakly fair in the check and strongly fair in being accepted: the finding
  stands even so.
- `ServerProcess`: weak fairness of the main goroutine and of a handler's token
  lookup.  Handlers, flusher and drain goroutine may hang for ever: every wait of
  `main` for them has a timeout.  What has none is a call to a database:
  `captureResidual` writes under a context without deadline, and closing a pool
  waits for the connections in use, so `SigtermEnds` needs that such calls return,
  if only with an error.
- `InviteSignup`: weak fairness of a handler that is under way.  Its statements may
  wait for locks, and `ClaimsEnd` says those waits are not in a circle.
- `OAuthFlow`: strong fairness of some requester showing a code with the right proof,
  since none can start another try while its handler runs; weak fairness of each
  handler that was called.  The first is the client's doing, not the server's:
  `RetrySucceeds` says what the comment at `ConsumeCode` says of a client that retries.
- `WebSession`: weak fairness of the clock and of a sweep that succeeds: `RowsGo` is a
  property of a deployment whose scheduler runs `cmd/maintenance`, which
  `docs/self-host.md` recommends.  No request has to go on.

## Proofs

**IngestChannelProofs**, for any requests, batches (finite and disjoint), ceiling,
flush size and capacity:

- `TypeCorrect`, `CounterIsExact`, `CeilingHolds`, `AnswerIsTrue`: the invariants of
  run `channel`.
- `ChannelImplementsBuffer`: the refinement of run `channel`.

The inductive invariant adds to them what is needed to count: the events in the
channel, in the flusher's hands, in the capture's and in reservations are apart; a request that was
not accepted has events in flight only as its own reservation; a request is in the
channel at most once; the sets counted are finite.  The swap is the step that needs
it: `pending = seen[r]` and the check made on `seen[r]` in `Load` are what keeps
`pending + Size(r)` below the ceiling, and the new events are counted only once
because none of them was in flight.

**IngestPipelineProofs**, for any number of processes, events, requests, faults and
crashes and any limits:

- `TypeCorrect`, `NothingLostSilently`, `MeteredIsLanded`, `QuarantineEarnedAlways`,
  `FatalNeedsSuccess`: the invariants and the action property that run `pipeline`
  checks with one process.

Two facts carry them.  The databases only grow: what is in ClickHouse stays, and a
row keeps its payload (`StoresGrow`).  And a goroutine past its insert has put its
batch there (`BatchLanded`, `ReplayLanded`), so whatever it lets go of is safe.
Quarantine needs that a count read long ago is at most the row's (`CountsGrow`), and
that the row's count is backed by failures: what it says, the drainers about to add to
it and the flush that parked it are together at most the failed inserts of its batch
(`AllBacked`).  That the flag falls over a landing needs `InsertRecovers` of the
flusher and `ReplayLanded`, `ReplayDeleted` of the drainer, whose insert may be older
than the flag.
Metering is a counting argument: for each event, what was reported, the flushers
about to report it and the drainers about to report it are together at most its rows in
ClickHouse (`AllCovered`); with several drainers on one row only this sum is
inductive.

**IngestDeliveryProofs**, under the same assumptions:

- `DeliveryImplemented`: the refinement of `EventDelivery`, for any number of processes.
- `AloneMetersOnce`: what `pipeline_double_bill` shows to fail with two processes holds
  for one, whatever fails or crashes.
- `AloneInsertsAgain`: one process inserts an event again only out of an active row.

The refinement maps an event to the place it is in, so the invariant (`Places`) says
that it is in one: the channels, envelopes in hand and buffers of all processes and the
rows of `failed_events` are pairwise disjoint and hold only what was accepted.  Every
step then moves one set of events along one edge of `EventDelivery`.  For a process
alone (`Alone`) the rows a drainer has listed are still active but for the one it is
at (`ListedActive`); nobody else can have reported or replayed them (`Unreported`).
What is in a channel, in an envelope or in a buffer before its insert has not landed
(`NotLandedYet`, for any number of processes), so that only a replay repeats one.  This is the very fact a second process breaks.

**OAuthFlowProofs**, for any clients, URIs, codes, requesters and number of failed
calls:

- `TypeCorrect`, `OneToken`, `TokenBound`, `OnlyFailuresBurn`: the invariants of run
  `oauth`.
- `GrantImplemented`: the refinement of `AuthorizationGrant`.

`OneTokenPerCode` is not inductive: two requesters could both be between `Mark` and
`Issue`.  The invariant says that a code in that state is marked used (`MarkedUsed`),
by one requester (`MarkedAlone`), and that a code with a token is used and nobody is
between the two for it (`TokensFinal`); nothing resets the mark, and a sweep only
deletes (`Monotone`).  `Verified` keeps what the lookup saw true until the token is
issued, whatever is deleted meanwhile, and gives the first half of `BoundToApproval`;
the second, `RedirectRegistered`, needs that what a client registered never changes.

For the refinement a code is open while somebody may still turn it into a token
(`Redeemable`).  Steps other than the store of a code and the insert of a token can
only let go of codes (`Releases`), and so are a `Void` of those that nobody can reach
any more, be they none.  Burned codes are counted as a set that grows by one code at
most, in steps that count a failure: the requester that marks a code holds it, and
the one that lets go of it has left a token (`Spares`).

**WebSessionProofs**, for any sessions, requests, window, lifetime and bounds:

- `TypeCorrect`, `SessionEnds`, `GateStands`: the invariants of run `session`.

`OverIsFinal` needs that being over is for ever.  A row that is gone stays gone
because ids are fresh and an UPDATE finds nothing; a row past its lifetime never
becomes young, because a renewal in flight was computed from `created_at`
(`WithinLifetime`), whenever it lands.  So a late request finds no row, or reads one it
judges stale (`LateStops`).  `GateHolds` needs that the lookup comes after the
arrival, so a flag that has been up since is the one it read (`FlagSeen`).

**ServerProcessProofs**, for any events, requests, flush size and number of failed
calls:

- `TypeCorrect`, `OneOwnerEach`, `ClosedQuietly`, `ReadyServes`, `ExitAccounts`: the
  invariants of run `shutdown`.

That a process accounts for its events at exit is conservation (`Conserved`): the
events taken out of the channel are in the flusher's envelope or buffer, in the
residual, in a row, in ClickHouse or given up, and the places from which one may still
be inserted do not overlap, whatever call was lost or cut short; a row is deleted only
when its batch is in ClickHouse (`ReplayOK`).  What each giving up has cost is
`CausesOK`: while the context lives and the grace has not run out the pools are open,
so a call that fails is a fault.  What is left in
the channel is ruled out by `FlusherOK`: a flusher that stops while its context lives
has found the channel closed and empty, and nobody sends on a closed channel
(`HandlersOK`: handlers still at work when phase 3 begins are the ones not waited
for).  `ServesOnlyReady` needs what the steps of `Build` that are done have brought
about (`BootOK`).

**InviteSignupProofs**, for any people, teams, invites and requests:

- `TypeCorrect`, `AnswersStayTrue`: the invariants of run `invites`.
- `ContractImplemented`: the refinement of `InviteContract`.

`AnswersTrue` rests on row locks.  A transaction that has written the invite found it
open and holds its row, so no other has written it and it is open until the commit;
the same goes for the email (`Exclusive`, `Placed`).  A request that came too late
finds the invite used, or begins its transaction after the expiry it then sees
(`Barred`).  An email that is taken stays so while the page reads the invite again.  What is committed names its request and is never taken back (`Traced`), so
a request that was refused has left no row.  For the refinement, every step but the
issue of an invite and the commits leaves accounts, memberships and uses as they
are; a commit makes exactly the changes of a claim or of a signup.

**AnalysisAccessProofs**, for any users, teams, projects, requests and row limit, with
`QueryExecutor` behind the checks:

- `TypeCorrect`, `DataInSight`, `QuotaInSight`, `AnswersWhole`: the invariants of run
  `access`.

A request that has the visibility check behind it has seen its project (`Judged`), and
whoever can see it now has been noted to (`Noted`); a join, a creation or a deletion
changes what is in sight for all requests under way at once.  Memberships and rows of
projects are never removed, and a project and its token become visible together
(`Twins`): a project page that finds no token behind the check can only have met a
deletion.  A run counts rows up to what was found, and writes the statistics only
after the last (`Sound`); it exists only behind all checks of its surface (`Fits`).
That a query finds no row of another project is decided by the tables of
`QueryExecutor`: every name the readonly user can read is confined, reads only names
that are, or has no project's rows (`AllScoped`).

The assumptions are those the modules state with their constants
(`LimitsAssumption`, `BatchAssumption`, `LimitAssumption`, `InstanceAssumption`,
`OAuthAssumption`, `NoneAssumption`, `SessionAssumption`, `ShutdownAssumption`,
`InviteAssumption`, `AccessAssumption`, `QueryAssumption`): limits are natural
numbers, events have identities of their own, there are finitely many processes,
a project has one team, people and teams are different things, and `None` is no
value of anything.  TLC evaluates them in every run.

Every invariant, every refinement and every action property that a passing run checks
is a theorem, two of them (`MeteredAtMostOnce`, `InsertedAgainOnlyFromQueue`) for a
process alone, as the run has it.  Only model-checked is liveness (`SlotsComeBack`,
`SubmitReturns`, `EverythingSettles`, `DepthCatchesUp`, `SigtermEnds`, `RetrySucceeds`,
`RowsGo`, `ClaimsEnd`), which TLAPS cannot prove under fairness.

## What the checks found

1. **The fatal flag may never clear** (`pipeline_fatal_stuck`).  It is cleared only by a
   flush or a replay that lands (`flusher.go:80`, `dlq.go:110`).  It refuses every
   batch, and the one that set it was dropped; with nothing left in buffer and queue
   nothing can land until the process is restarted.  Postgres need not be down for
   it: one event that `JSONB` cannot hold makes the write of its whole batch fail
   while ClickHouse is away.  `docs/self-host.md:351` and `docs/api.md:150` say
   otherwise.
2. **Usage may be counted twice during a rollout** (`pipeline_double_bill`).  Rows are
   listed without a claim, and deleting a deleted row is no error, so two processes
   replay and meter one row.  `docs/extending.md:100` promises exactly once.
3. **SIGTERM may lose buffered events** (`shutdown_loss`).  `app.Run` gives the pipeline
   the context SIGTERM cancels.  The flusher may take `ctx.Done` first; its last flush
   then fails in both databases and the channel is left as it is, before phase 3
   has begun.  `docs/architecture.md:131` says the residual is written.
4. **REST answers 402 before visibility** (`access_denial`).  `entitle` is mounted
   outside the handler that looks the project up, so a token that outlives its
   soft-deleted project gets 402.  `docs/extending.md:129` says the entitlement runs
   after visibility was confirmed, as it does in MCP and the playground.
5. **A reset may be undone** (`session_reset`).  `ChangePassword` verifies the current
   password, hashes the new one and writes without looking again.  If an operator's
   reset falls in between, the user's password replaces the operator's and
   `must_change_password` goes down, although `reset-password.sql:7` says the user is
   forced to change it.  A guard on the hash that was verified would close it.

Three more are about what passes: the property of run `pipeline` says what the code
does, and a sentence about it says more.

6. **An event may pass through two successful inserts** (`InsertedAgainOnlyFromQueue`).
   A row is deleted after its replay has landed (`dlq.go:93`, `:103`); if the delete
   fails, or the process dies in between, the next pass inserts it again.
   `docs/extending.md:101-102` says that this never happens.  The events are still
   counted once at most (`MeteredAtMostOnce`), because the pass whose delete failed
   does not meter; if that delete took effect and only its reply was lost, they are
   never counted, which no property here forbids.
7. **A row has 19 retries, not 20** (`QuarantineIsEarned`).  `dlq.go:120` gives up at
   `attempt_count + 1 >= 20`, before the insert.  `dlq.go:11` and `:118`,
   `failed_events.sql.go:72` and `:129` and `ingest_chaos_test.go:26-27` speak of a
   retry budget of 20, of "one final retry", of replays that fail 20 times.  Twenty
   inserts have failed only if the flush that parked the row is one of them; that is
   what the property says, and what `refused` counts.
8. **The fatal flag may fall with nothing landed since it rose**
   (`FatalClearedBySuccess`).  A replay lands; before the drainer gets to
   `dlq.go:110` the flusher fails in both databases and raises the flag; the drainer
   then clears it.  `state.go:18-20` says "cleared by the first clean flush after CH
   recovers".  That way out is a disjunct of the property, which bounds it: the row is
   replayed and deleted.

## What is not modelled

- **Formats**: JSON, templates, gzip, headers, logging; the validation and
  normalisation of an event, pure functions of one event that run before `Submit`;
  the scanner that finds a SETTINGS clause, whose verdict is an input.
- **What a library does**: golang-migrate's lock, clickhouse-go's batches, `net/http`,
  mcp-go, pgx.  Their results are modelled where the code uses them.
- **Middleware**: body limits, CORS and CSRF refuse a request before its handler and
  keep nothing.
- **Listing pages** (home, team): the visibility query of `AnalysisAccess` and
  nothing else.
- **The `last_used_at` stamp** of a bearer token: a goroutine nobody waits for writes it
  now and then, and nothing reads it.
- **Secrets**: tokens, codes, hashes and verifiers are values; guessing is out of
  scope.
- **Operator scripts** other than the ones that create a user and reset a password.
  `wipe-project.sql` deletes a project's rows in ClickHouse: events accepted before the
  project was soft-deleted may still wait in a buffer or in `failed_events` and land
  after the wipe, and only `events_raw_v1` is wiped.  `EventDelivery` says that what is
  stored stays stored, and would have to say something weaker.
- **Clocks**: expiry and age are things that happen at some moment, in any order
  with everything else.
- **Two tokens of one requester for one code** would be one element of the set `tokens`;
  two requesters' are two, and it is they that race.
- **A client that goes away** in the middle of a request: Submit does not wait on
  its context, so nothing about the batch changes.
- **An undecodable payload in `failed_events`**: `processDLQRow` quarantines such a
  row; only `writeDLQ` writes payloads, and what it writes decodes.

## Plan

In the order of what matters most to the system's users:

1. *(done)* `BoundedBuffer`, `IngestChannel`, `EventDelivery`, `IngestPipeline`,
   `ServerProcess`: events are what the product exists for.
2. *(done)* `AuthorizationGrant`, `OAuthFlow`, `AnalysisAccess` with `QueryExecutor`:
   who may read them, and what they get.
3. *(done)* `WebSession`.  Still worth stating: an abstract specification of a session
   (absent, live, over) and how early a stale deletion or a renewal that lands out
   of order may end one.
4. *(done)* `InviteContract`, `InviteSignup`: how people get in.
5. *(done)* Proofs: the buffer, the safety of the pipeline and its refinement for any
   number of processes, authorization codes and their refinement, sessions that end.
6. *(done)* Proofs: invites and their refinement, the life of a process, access to
   data.
7. Left: the abstract session of point 3 and the proof that `WebSession` implements it.

