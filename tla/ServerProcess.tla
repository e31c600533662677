---------------------------- MODULE ServerProcess ----------------------------
(***************************************************************************)
(* The life of a server process: app.Build with its migrations and pools,  *)
(* the three-phase SIGTERM choreography of app.App.Run, the HTTP server it *)
(* drains, Service.Shutdown with its residual capture, and App.Close,      *)
(* against the handlers, the flusher and the drain goroutine that are      *)
(* still running.                                                          *)
(*                                                                         *)
(* The flusher and the drain goroutine run under the context given to      *)
(* Build.  app.Run passes Build the very context that SIGTERM cancels      *)
(* (shared); a wrapper that calls Build and App.Run itself may give them   *)
(* different ones (~shared).  A database call under a done context, or on  *)
(* a closed pool, fails; one that fails under a live context may have      *)
(* taken effect, its reply lost, and a call that SIGTERM cuts short is     *)
(* such a failure just before it.                                          *)
(*                                                                         *)
(* One step of the flusher or of the drain goroutine is one call to a      *)
(* database, with the code up to the next one.  Submit is atomic, as       *)
(* IngestChannel shows; how often a replay may fail, the usage sink and    *)
(* the copies an event may have are IngestPipeline's subject.              *)
(***************************************************************************)
EXTENDS Integers, Sequences, FiniteSets

CONSTANTS
    Event, Request,
    EventsOf,        \* [Request -> SUBSET Event]
    Unparkable,      \* events failed_events cannot hold (IngestPipeline)
    FlushEvents,
    MaxFaults        \* bound: failed database calls under a live context

ASSUME ShutdownAssumption ==
    /\ EventsOf \in [Request -> SUBSET Event]
    /\ \A r, s \in Request : r # s => EventsOf[r] \cap EventsOf[s] = {}
    /\ Unparkable \subseteq Event
    /\ FlushEvents \in Nat \ {0}
    /\ MaxFaults \in Nat

VARIABLES
    shared,     \* Build and Run were given the same context
    main,       \* where Build or App.Run is
    built,      \* steps of Build that are done
    schema,     \* per database: what its schema_migrations say
    pools,      \* the open connection pools
    signalled,  \* SIGTERM has cancelled Run's context
    unwaited,   \* phase 3 began without waiting for the handlers in flight
    expired,    \* INGEST_SHUTDOWN_GRACE ran out
    disabled,   \* Flags.disabled
    fatal,      \* Flags.fatal
    conn,       \* where each request's handler is
    queue,      \* envelopes in the channel
    closed,     \* the channel is closed (with stopCh)
    cur, buf,   \* the flusher's envelope and buffer
    fpc,        \* where the flusher is
    dpc,        \* where the drain goroutine is
    replay,     \* the row whose batch it has just inserted
    rows,       \* payloads in failed_events
    landed,     \* events in ClickHouse
    dropped,    \* events the flusher gave up: neither database took them
    resid,      \* events captureResidual has taken from the channel
    unsaved,    \* events captureResidual gave up: Postgres did not take them
    faults

boot == <<built, schema, pools>>
phases == <<shared, main, boot, signalled, unwaited, expired>>
flusher == <<cur, buf, fpc>>
drainer == <<dpc, replay>>
stores == <<rows, landed, dropped, unsaved>>
vars == <<shared, main, built, schema, pools, signalled, unwaited, expired, disabled, fatal, conn, queue, closed,
          cur, buf, fpc, dpc, replay, rows, landed, dropped, resid, unsaved, faults>>

EventsIn(S) == UNION {EventsOf[r] : r \in S}
Queued == {queue[k] : k \in 1..Len(queue)}
Parked == UNION rows
Sent == EventsIn({r \in Request : conn[r] = "accepted"})

\* What Build does once the configuration is read, in order: open a pool, bring
\* a schema up to date, or create what ClickHouse needs.
BuildSteps == <<"pg", "pg schema", "ch database", "admin", "ch user", "ch schema", "readonly">>
Pool == {"pg", "admin", "readonly"}
Schema == {"pg schema", "ch schema"}

\* "ahead": of this binary, which does not know the migration.
Version == {"behind", "current", "dirty", "ahead"}

\* The context given to Build is done: the flusher's and the drain goroutine's.
CtxDone == signalled /\ shared

\* A call of theirs reaches the database: its pool is open, its context live.
Reaches(pool) == pool \in pools /\ ~CtxDone

\* A call that could have succeeded fails.
Fault == faults < MaxFaults /\ faults' = faults + 1

\* A call of theirs fails, as it must if it does not reach the database.
Fails(pool) == IF Reaches(pool) THEN Fault ELSE UNCHANGED faults

\* What a failed call may have made of a table, "after" if only its reply was lost.
Perhaps(pool, before, after) == IF Reaches(pool) THEN {before, after} ELSE {before}

Running == main # "exited"

Init ==
    /\ shared \in BOOLEAN
    /\ main = "build"
    /\ built = 0
    /\ schema \in [Schema -> Version]
    /\ pools = {}
    /\ signalled = FALSE
    /\ unwaited = FALSE
    /\ expired = FALSE
    /\ disabled \in BOOLEAN          \* INGEST_DISABLED
    /\ fatal = FALSE
    /\ conn = [r \in Request |-> "client"]
    /\ queue = <<>>
    /\ closed = FALSE
    /\ cur = {}
    /\ buf = {}
    /\ fpc = "unstarted"
    /\ dpc = "unstarted"
    /\ replay = {}
    /\ rows = {}
    /\ landed = {}
    /\ dropped = {}
    /\ resid = {}
    /\ unsaved = {}
    /\ faults = 0
-----------------------------------------------------------------------------
(* Build *)

\* The environment does not parse or does not validate.
ConfigInvalid ==
    /\ main = "build"
    /\ built = 0
    /\ main' = "exited"
    /\ UNCHANGED <<shared, boot, signalled, unwaited, expired, disabled, fatal, conn, queue, closed, flusher, drainer, stores, resid, faults>>

Due == BuildSteps[built + 1]

\* The due step succeeds.
StepDone ==
    /\ main = "build"
    /\ built < Len(BuildSteps)
    /\ built' = built + 1
    /\ UNCHANGED <<shared, main, signalled, unwaited, expired, disabled, fatal, conn, queue, closed, flusher, drainer, stores, resid, faults>>

\* A pool counts as open once a ping has come back.
OpenPool ==
    /\ StepDone
    /\ Due \in Pool
    /\ ~CtxDone
    /\ pools' = pools \cup {Due}
    /\ UNCHANGED schema

\* Idempotent statements as the admin user: the database, the readonly user.
Bootstrap ==
    /\ StepDone
    /\ Due \notin Pool \cup Schema
    /\ ~CtxDone
    /\ UNCHANGED <<pools, schema>>

\* Mutant: the migration runner does not look at the dirty flag.
MigrateDirty ==
    /\ StepDone
    /\ Due \in Schema
    /\ schema[Due] # "ahead"
    /\ schema' = [schema EXCEPT ![Due] = IF @ = "dirty" THEN @ ELSE "current"]
    /\ UNCHANGED pools

\* Migrations do not look at the context; a dirty schema stays so until an
\* operator forces its version, and one ahead of the binary is an error.
Migrate ==
    /\ StepDone
    /\ Due \in Schema
    /\ schema[Due] \in {"behind", "current"}
    /\ schema' = [schema EXCEPT ![Due] = "current"]
    /\ UNCHANGED pools

\* A step fails, a migration possibly half-way: Build's deferred Close.
BuildFails ==
    /\ main = "build"
    /\ built < Len(BuildSteps)
    /\ \/ Due \notin Schema /\ CtxDone /\ UNCHANGED <<schema, faults>>
       \/ Due \in Schema /\ schema[Due] \in {"dirty", "ahead"} /\ UNCHANGED <<schema, faults>>
       \/ Fault /\ UNCHANGED schema
       \/ Fault /\ Due \in Schema /\ schema[Due] = "behind" /\ schema' = [schema EXCEPT ![Due] = "dirty"]
    /\ main' = "close"
    /\ UNCHANGED <<shared, built, pools, signalled, unwaited, expired, disabled, fatal, conn, queue, closed, flusher, drainer, stores, resid>>

\* The ingest goroutines start, the handler is assembled, App.Run listens.
Launch ==
    /\ main = "build"
    /\ built = Len(BuildSteps)
    /\ fpc' = "select"
    /\ dpc' = "idle"
    /\ main' = "serving"
    /\ UNCHANGED <<shared, boot, signalled, unwaited, expired, disabled, fatal, conn, queue, closed, cur, buf, replay, stores, resid, faults>>

Build == ConfigInvalid \/ OpenPool \/ Bootstrap \/ Migrate \/ BuildFails \/ Launch
-----------------------------------------------------------------------------
(* The handlers *)

Goto(r, from, to) == conn[r] = from /\ conn' = [conn EXCEPT ![r] = to]

\* A connection brings a request: until phase 2 has closed the listener and
\* every connection, or to the end if nobody waited for that.
Arrive(r) ==
    /\ Running
    /\ main \in {"serving", "http"} \/ unwaited
    /\ Goto(r, "client", "arrived")
    /\ UNCHANGED <<phases, disabled, fatal, queue, closed, flusher, drainer, stores, resid, faults>>

\* requirePublicToken has read the body and takes a Postgres connection.
Lookup(r) ==
    /\ Running
    /\ Goto(r, "arrived", IF "pg" \in pools THEN "lookup" ELSE "refused")
    /\ UNCHANGED <<phases, disabled, fatal, queue, closed, flusher, drainer, stores, resid, faults>>

\* The query returns: the token's project, or an answer that refuses.
Resolve(r) ==
    /\ Running
    /\ Goto(r, "lookup", "known") \/ Goto(r, "lookup", "refused")
    /\ UNCHANGED <<phases, disabled, fatal, queue, closed, flusher, drainer, stores, resid, faults>>

ReadDisabled(r) ==
    /\ Running
    /\ Goto(r, "known", IF disabled THEN "refused" ELSE "enabled")
    /\ UNCHANGED <<phases, disabled, fatal, queue, closed, flusher, drainer, stores, resid, faults>>

ReadFatal(r) ==
    /\ Running
    /\ Goto(r, "enabled", IF fatal THEN "refused" ELSE "checked")
    /\ UNCHANGED <<phases, disabled, fatal, queue, closed, flusher, drainer, stores, resid, faults>>

\* 202, or 503 from a full channel, or a send on a closed channel, whose panic
\* the recover middleware turns into 500.
Submit(r) ==
    /\ Running
    /\ \/ ~closed /\ Goto(r, "checked", "accepted") /\ queue' = Append(queue, r)
       \/ Goto(r, "checked", "refused") /\ UNCHANGED queue
       \/ closed /\ Goto(r, "checked", "panicked") /\ UNCHANGED queue
    /\ UNCHANGED <<phases, disabled, fatal, closed, flusher, drainer, stores, resid, faults>>

Handler(r) == Arrive(r) \/ Lookup(r) \/ Resolve(r) \/ ReadDisabled(r) \/ ReadFatal(r) \/ Submit(r)

InHandler == {r \in Request : conn[r] \in {"arrived", "lookup", "known", "enabled", "checked"}}
-----------------------------------------------------------------------------
(* App.Run *)

Sigterm ==
    /\ Running
    /\ ~signalled
    /\ signalled' = TRUE
    /\ UNCHANGED <<shared, main, boot, unwaited, expired, disabled, fatal, conn, queue, closed, flusher, drainer, stores, resid, faults>>

\* Mutant: the channel is closed with the kill switch, before the handlers are done.
Phase1Closes ==
    /\ main = "serving"
    /\ signalled
    /\ disabled' = TRUE
    /\ closed' = TRUE
    /\ main' = "http"
    /\ UNCHANGED <<shared, boot, signalled, unwaited, expired, fatal, conn, queue, flusher, drainer, stores, resid, faults>>

\* Phase 1: SetDisabled(true); then http.Shutdown closes the listener.
Phase1 ==
    /\ main = "serving"
    /\ signalled
    /\ disabled' = TRUE
    /\ main' = "http"
    /\ UNCHANGED <<shared, boot, signalled, unwaited, expired, fatal, conn, queue, closed, flusher, drainer, stores, resid, faults>>

\* Mutant: http.Shutdown is given a context without a timeout.
Phase2Patient ==
    /\ main = "http"
    /\ InHandler = {}
    /\ main' = "ingest"
    /\ UNCHANGED <<shared, boot, signalled, unwaited, expired, disabled, fatal, conn, queue, closed, flusher, drainer, stores, resid, faults>>

\* Phase 2: http.Shutdown returns when no handler, and no connection that may
\* bring one, is left, or after 10 seconds.
Phase2 ==
    /\ main = "http"
    /\ \/ InHandler = {} /\ UNCHANGED unwaited
       \/ unwaited' = TRUE
    /\ main' = "ingest"
    /\ UNCHANGED <<shared, boot, signalled, expired, disabled, fatal, conn, queue, closed, flusher, drainer, stores, resid, faults>>

\* The listener fails: Run returns at once, and its deferred Close shuts the
\* pipeline down without phases 1 and 2.
ListenFails ==
    /\ main = "serving"
    /\ unwaited' = TRUE
    /\ main' = "ingest"
    /\ UNCHANGED <<shared, boot, signalled, expired, disabled, fatal, conn, queue, closed, flusher, drainer, stores, resid, faults>>

\* Phase 3: Service.Shutdown closes stopCh and the channel, and waits.
Phase3 ==
    /\ main = "ingest"
    /\ closed' = TRUE
    /\ main' = "wait"
    /\ UNCHANGED <<shared, boot, signalled, unwaited, expired, disabled, fatal, conn, queue, flusher, drainer, stores, resid, faults>>

\* Mutant: the wait group counts the drain goroutine only.
DrainerDone ==
    /\ main = "wait"
    /\ dpc = "stopped"
    /\ main' = "close"
    /\ UNCHANGED <<shared, boot, signalled, unwaited, expired, disabled, fatal, conn, queue, closed, flusher, drainer, stores, resid, faults>>

\* Both goroutines have returned, and Shutdown returns nil.
GoroutinesDone ==
    /\ main = "wait"
    /\ fpc = "stopped" /\ dpc = "stopped"
    /\ main' = "close"
    /\ UNCHANGED <<shared, boot, signalled, unwaited, expired, disabled, fatal, conn, queue, closed, flusher, drainer, stores, resid, faults>>

GraceExpires ==
    /\ main = "wait"
    /\ fpc # "stopped" \/ dpc # "stopped"
    /\ expired' = TRUE
    /\ main' = "residual"
    /\ UNCHANGED <<shared, boot, signalled, unwaited, disabled, fatal, conn, queue, closed, flusher, drainer, stores, resid, faults>>

\* Mutant: the capture copies an envelope and leaves it in the channel.
ResidualPeek ==
    /\ main = "residual"
    /\ queue # <<>>
    /\ resid' = resid \cup EventsOf[Head(queue)]
    /\ UNCHANGED <<phases, disabled, fatal, conn, queue, closed, flusher, drainer, stores, faults>>

\* captureResidual takes an envelope, racing the flusher for it.
ResidualTake ==
    /\ main = "residual"
    /\ queue # <<>>
    /\ resid' = resid \cup EventsOf[Head(queue)]
    /\ queue' = Tail(queue)
    /\ UNCHANGED <<phases, disabled, fatal, conn, closed, flusher, drainer, stores, faults>>

\* One row for all of it, under a context of its own; also when the loop's two
\* seconds are over with envelopes left.  ClickHouse is not asked.
ResidualWrite ==
    /\ main = "residual"
    /\ \/ resid = {} /\ UNCHANGED <<rows, unsaved, faults>>
       \/ resid # {} /\ resid \cap Unparkable = {} /\ rows' = rows \cup {resid} /\ UNCHANGED <<unsaved, faults>>
       \/ /\ resid # {}
          /\ \/ Fault /\ resid \cap Unparkable = {} /\ rows' \in {rows, rows \cup {resid}}
             \/ resid \cap Unparkable # {} /\ UNCHANGED <<rows, faults>>
          /\ unsaved' = unsaved \cup resid
    /\ resid' = {}
    /\ main' = "close"
    /\ UNCHANGED <<shared, boot, signalled, unwaited, expired, disabled, fatal, conn, queue, closed, flusher, drainer, landed, dropped>>

\* The deferred Close: the pools in reverse order.  pgxpool waits until every
\* connection has been given back.
Close ==
    /\ main = "close"
    /\ pools # {}
    /\ LET last == IF "readonly" \in pools THEN "readonly" ELSE IF "admin" \in pools THEN "admin" ELSE "pg" IN
       /\ last = "pg" => \A r \in Request : conn[r] # "lookup"
       /\ pools' = pools \ {last}
    /\ UNCHANGED <<shared, main, built, schema, signalled, unwaited, expired, disabled, fatal, conn, queue, closed, flusher, drainer, stores, resid, faults>>

Exit ==
    /\ main = "close"
    /\ pools = {}
    /\ main' = "exited"
    /\ UNCHANGED <<shared, boot, signalled, unwaited, expired, disabled, fatal, conn, queue, closed, flusher, drainer, stores, resid, faults>>

Main ==
    \/ Build
    \/ Phase1 \/ Phase2 \/ Phase3 \/ GoroutinesDone \/ GraceExpires
    \/ ResidualTake \/ ResidualWrite
    \/ Close \/ Exit
-----------------------------------------------------------------------------
(* The flusher *)

Receive ==
    /\ Running
    /\ fpc = "select"
    /\ queue # <<>>
    /\ cur' = EventsOf[Head(queue)]
    /\ queue' = Tail(queue)
    /\ fpc' = "append"
    /\ UNCHANGED <<phases, disabled, fatal, conn, closed, buf, drainer, stores, resid, faults>>

AppendEvents ==
    /\ Running
    /\ fpc = "append"
    /\ \E T \in SUBSET cur :
          LET full == Cardinality(buf \cup T) = FlushEvents IN
          /\ Cardinality(buf \cup T) <= FlushEvents
          /\ T = cur \/ full
          /\ buf' = buf \cup T
          /\ cur' = cur \ T
          /\ fpc' = IF full THEN "flush" ELSE "select"
    /\ UNCHANGED <<phases, disabled, fatal, conn, queue, closed, drainer, stores, resid, faults>>

Tick ==
    /\ Running
    /\ fpc = "select"
    /\ buf # {}
    /\ fpc' = "flush"
    /\ UNCHANGED <<phases, disabled, fatal, conn, queue, closed, cur, buf, drainer, stores, resid, faults>>

\* Mutant: the loop ends without the last flush.
StopUnflushed ==
    /\ Running
    /\ fpc = "select"
    /\ (closed /\ queue = <<>>) \/ CtxDone
    /\ fpc' = "stopped"
    /\ UNCHANGED <<phases, disabled, fatal, conn, queue, closed, cur, buf, drainer, stores, resid, faults>>

\* The select sees the closed, empty channel or the done context: a last
\* flush, and the goroutine returns.
Stop ==
    /\ Running
    /\ fpc = "select"
    /\ (closed /\ queue = <<>>) \/ CtxDone
    /\ fpc' = IF buf = {} THEN "stopped" ELSE "lastflush"
    /\ UNCHANGED <<phases, disabled, fatal, conn, queue, closed, cur, buf, drainer, stores, resid, faults>>

Flushing == fpc \in {"flush", "lastflush"}
Parking == fpc \in {"park", "lastpark"}

\* flush returns: the buffer is empty, and the flusher goes on with the
\* envelope in hand or ends.
BatchDone ==
    /\ buf' = {}
    /\ fpc' = IF fpc \in {"lastflush", "lastpark"} THEN "stopped" ELSE IF cur # {} THEN "append" ELSE "select"

\* attemptFlush: the insert into ClickHouse.
FlushInsert ==
    /\ Running
    /\ Flushing
    /\ \/ Reaches("admin") /\ landed' = landed \cup buf /\ fatal' = FALSE /\ BatchDone /\ UNCHANGED faults
       \/ /\ Fails("admin")
          /\ landed' \in Perhaps("admin", landed, landed \cup buf)
          /\ fpc' = IF fpc = "flush" THEN "park" ELSE "lastpark"
          /\ UNCHANGED <<fatal, buf>>
    /\ UNCHANGED <<phases, disabled, conn, queue, closed, cur, drainer, rows, dropped, resid, unsaved>>

\* It failed: one row of failed_events holds the batch, or it is given up.
FlushDLQ ==
    /\ Running
    /\ Parking
    /\ \/ /\ Reaches("pg") /\ buf \cap Unparkable = {}
          /\ rows' = rows \cup {buf}
          /\ UNCHANGED <<dropped, fatal, faults>>
       \/ /\ \/ Fails("pg") /\ buf \cap Unparkable = {} /\ rows' \in Perhaps("pg", rows, rows \cup {buf})
             \/ buf \cap Unparkable # {} /\ UNCHANGED <<rows, faults>>
          /\ dropped' = dropped \cup buf
          /\ fatal' = TRUE
    /\ BatchDone
    /\ UNCHANGED <<phases, disabled, conn, queue, closed, cur, drainer, landed, resid, unsaved>>

Flusher == Receive \/ AppendEvents \/ Tick \/ Stop \/ FlushInsert \/ FlushDLQ
-----------------------------------------------------------------------------
(* The drain goroutine *)

\* A pass replays rows, one after the other.
DrainStart ==
    /\ Running
    /\ dpc = "idle"
    /\ dpc' = "pass"
    /\ UNCHANGED <<phases, disabled, fatal, conn, queue, closed, flusher, replay, stores, resid, faults>>

\* A row's batch is inserted; if that fails the row waits for another pass.
DrainInsert ==
    /\ Running
    /\ dpc = "pass"
    /\ \E row \in rows :
          \/ /\ Reaches("admin")
             /\ landed' = landed \cup row
             /\ replay' = row
             /\ dpc' = "delete"
             /\ UNCHANGED faults
          \/ /\ Fails("admin")
             /\ landed' \in Perhaps("admin", landed, landed \cup row)
             /\ UNCHANGED drainer
    /\ UNCHANGED <<phases, disabled, fatal, conn, queue, closed, flusher, rows, dropped, resid, unsaved>>

\* The row is deleted, and the fatal flag cleared; if the call fails the row
\* will be replayed again.
DrainDelete ==
    /\ Running
    /\ dpc = "delete"
    /\ \/ Reaches("pg") /\ rows' = rows \ {replay} /\ fatal' = FALSE /\ UNCHANGED faults
       \/ Fails("pg") /\ rows' \in Perhaps("pg", rows, rows \ {replay}) /\ UNCHANGED fatal
    /\ replay' = {}
    /\ dpc' = "pass"
    /\ UNCHANGED <<phases, disabled, conn, queue, closed, flusher, landed, dropped, resid, unsaved>>

DrainEnd ==
    /\ Running
    /\ dpc = "pass"
    /\ dpc' = "idle"
    /\ UNCHANGED <<phases, disabled, fatal, conn, queue, closed, flusher, replay, stores, resid, faults>>

DrainStop ==
    /\ Running
    /\ dpc = "idle"
    /\ closed \/ CtxDone
    /\ dpc' = "stopped"
    /\ UNCHANGED <<phases, disabled, fatal, conn, queue, closed, flusher, replay, stores, resid, faults>>

Drainer == DrainStart \/ DrainInsert \/ DrainDelete \/ DrainEnd \/ DrainStop
-----------------------------------------------------------------------------
Next ==
    \/ \E r \in Request : Handler(r)
    \/ Sigterm
    \/ ListenFails
    \/ Main
    \/ Flusher
    \/ Drainer

\* The main goroutine moves: its waits have timeouts, except for the calls to
\* the databases (captureResidual and the closing of the Postgres pool have
\* none), which are taken to return, if only with an error.
Spec == Init /\ [][Next]_vars
FairSpec == Spec /\ WF_vars(Main) /\ \A r \in Request : WF_vars(Resolve(r))
-----------------------------------------------------------------------------
HandlerState == {"client", "arrived", "lookup", "known", "enabled", "checked", "accepted", "refused", "panicked"}

TypeOK ==
    /\ main \in {"build", "serving", "http", "ingest", "wait", "residual", "close", "exited"}
    /\ built \in 0..Len(BuildSteps)
    /\ schema \in [Schema -> Version]
    /\ pools \subseteq Pool
    /\ conn \in [Request -> HandlerState]
    /\ queue \in Seq(Request)
    /\ fpc \in {"unstarted", "select", "append", "flush", "lastflush", "park", "lastpark", "stopped"}
    /\ dpc \in {"unstarted", "idle", "pass", "delete", "stopped"}
    /\ rows \subseteq SUBSET Event
    /\ {landed, dropped, resid, unsaved, cur, buf, replay} \subseteq SUBSET Event
    /\ {shared, signalled, unwaited, expired, disabled, fatal, closed} \subseteq BOOLEAN
    /\ faults \in 0..MaxFaults
    /\ fpc = "select" => cur = {}
    /\ fpc = "stopped" => cur = {} /\ buf = {}
    /\ dpc # "delete" => replay = {}

\* The flusher and the residual capture receive from one channel, and the
\* drain goroutine replays what both of them write: none of them has an event
\* another may still insert.  (A batch already in ClickHouse may be parked or
\* stay parked after a failed call; see IngestPipeline.)
OneOwner ==
    LET places == [queue |-> EventsIn(Queued), cur |-> cur, buf |-> buf, resid |-> resid, rows |-> Parked]
    IN  /\ \A p, q \in DOMAIN places : p # q => places[p] \cap places[q] = {}
        /\ \A R, T \in rows : R # T => R \cap T = {}

\* Nothing is closed under those who use it.  A handler meets the closed
\* channel, and a panic, only if nobody waited for it; a pool goes with a
\* goroutine still running only if the grace ran out (app.go: Close "first
\* drains the ingest goroutines so they don't touch a closed ClickHouse pool");
\* no handler has its query cut off.
ClosedOnlyWhenQuiet ==
    /\ (\E r \in Request : conn[r] = "panicked") => unwaited
    /\ pools # Pool /\ "unstarted" \notin {fpc, dpc} =>
          (fpc = "stopped" /\ dpc = "stopped") \/ expired
    /\ "pg" \notin pools => \A r \in Request : conn[r] # "lookup"

\* Requests are taken, and events moved, only by a process that found or made
\* both schemas current; whatever step of Build failed, and whenever SIGTERM
\* came, a process that ends leaves no pool open.
ServesOnlyReady ==
    /\ (\E r \in Request : conn[r] # "client") \/ fpc # "unstarted" =>
          schema = [d \in Schema |-> "current"]
    /\ main = "exited" => pools = {}

\* When the process ends, every event answered 202 is in a database or its
\* loss has one of four causes.  The flusher gave up its batch: after two failed
\* calls, or one if failed_events cannot hold it, unless the context or a pool
\* was gone.  Or the residual capture gave it up: the grace had run out, and
\* Postgres, the only one asked, did not take it.  Or it was in the hands of a
\* flusher that outlived the grace.  Or it was in the channel, and the grace ran
\* out or the flusher left at the done context before the channel was empty.
ExitAccountsForAll ==
    main = "exited" =>
        /\ Sent \subseteq landed \cup Parked \cup dropped \cup unsaved
                          \cup (IF expired THEN cur \cup buf ELSE {})
                          \cup (IF expired \/ CtxDone THEN EventsIn(Queued) ELSE {})
        /\ dropped # {} => CtxDone \/ expired \/ faults >= IF dropped \cap Unparkable = {} THEN 2 ELSE 1
        /\ unsaved # {} => expired /\ (unsaved \cap Unparkable # {} \/ faults >= 1)

\* docs/architecture.md: "the channel drains to CH within
\* INGEST_SHUTDOWN_GRACE, and any residual events are written to the DLQ
\* before exit"; App.Run: "so no event is silently dropped".
SigtermDropsNothing ==
    main = "exited" /\ ~unwaited /\ ~expired => Sent \subseteq landed \cup Parked

\* SIGTERM always ends the process, in Build or later, whatever handlers and
\* goroutines do, as long as calls to the databases return.
SigtermEnds == signalled ~> main = "exited"
=============================================================================
