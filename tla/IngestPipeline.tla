--------------------------- MODULE IngestPipeline ---------------------------
(***************************************************************************)
(* The life of an event after POST /api/v1/ingest/events: the handler      *)
(* (web/ingest_handlers.go), the in-memory buffer, the flusher             *)
(* (ingest/flusher.go), the dead-letter queue in Postgres and the          *)
(* goroutine that drains it (ingest/dlq.go), the fatal flag and the usage  *)
(* meter.  Several server processes may share the two databases, as they   *)
(* do during a rolling deploy; a process may crash and come back empty.    *)
(*                                                                         *)
(* One step is one call to a database or to the usage sink with the code   *)
(* up to the next such call.  Submit is atomic here: IngestChannel shows   *)
(* that the reservation protocol under it behaves so.  A refused request   *)
(* (503) stays with its client, who may send it again.                     *)
(***************************************************************************)
EXTENDS Integers, Sequences, FiniteSets

CONSTANTS
    Instance,      \* server processes
    Event,
    Request,       \* one accepted batch each
    EventsOf,      \* [Request -> SUBSET Event]
    Unparkable,    \* events failed_events cannot hold: JSONB takes no \u0000,
                   \* and Go writes no year past 9999 as JSON
    EventBuffer,   \* INGEST_EVENT_BUFFER
    FlushEvents,   \* INGEST_FLUSH_EVENTS
    DrainLimit,    \* INGEST_DLQ_DRAIN_BATCH_LIMIT
    AttemptLimit,  \* quarantineAttemptLimit, 20 in the code
    MaxRows,       \* bound: rows ever written to failed_events
    MaxFaults,     \* bound: failed database calls
    MaxCrashes,    \* bound: process crashes
    LostReplies    \* a failed call may have taken effect (its reply was lost)

ASSUME BatchAssumption ==
    /\ EventsOf \in [Request -> SUBSET Event]
    /\ \A r, s \in Request : r # s => EventsOf[r] \cap EventsOf[s] = {}
    /\ Unparkable \subseteq Event

ASSUME InstanceAssumption == IsFiniteSet(Instance)

ASSUME LimitAssumption ==
    /\ EventBuffer \in Nat /\ FlushEvents \in Nat \ {0}
    /\ DrainLimit \in Nat \ {0} /\ AttemptLimit \in Nat \ {0}
    /\ MaxRows \in Nat /\ MaxFaults \in Nat /\ MaxCrashes \in Nat
    /\ LostReplies \in BOOLEAN

RowId == 1..MaxRows          \* in order of created_at
RowStatus == {"none", "active", "quarantined", "deleted"}
RowType == [status : RowStatus, events : SUBSET Event, attempts : Nat, old : BOOLEAN]
NoRow == [status |-> "none", events |-> {}, attempts |-> 0, old |-> FALSE]

VARIABLES
    accepted,  \* requests answered 202
    handlers,  \* per process: requests past the flag check, before Submit
    queue,     \* per process: envelopes in the channel
    cur,       \* per process: the flusher's envelope, events not yet appended
    buf,       \* per process: the flusher's buffer
    fpc,       \* per process: where the flusher is
    fatal,     \* per process: Flags.fatal
    dpc,       \* per process: where the drain goroutine is
    todo,      \* per process: the rows it listed, as it read them
    depth,     \* per process: Flags.dlqDepth
    table,     \* Postgres: failed_events
    ch,        \* ClickHouse: how many rows each event has in events_raw_v1
    billed,    \* how often the usage sink has been told of each event
    dropped,   \* events the flusher gave up: neither database took them
    vanished,  \* events in the memory of a process when it crashed
    refused,   \* history, read by no step: how often an insert of each
               \* row's batch into ClickHouse has failed
    recovered, \* history: per process, an insert has succeeded since its
               \* fatal flag went up
    faults, crashes

memory == <<queue, cur, buf>>
drainer == <<dpc, todo, depth>>
history == <<refused, recovered>>
counters == <<faults, crashes>>
vars == <<accepted, handlers, queue, cur, buf, fpc, fatal, dpc, todo, depth,
          table, ch, billed, dropped, vanished, refused, recovered, faults, crashes>>

EventsIn(S) == UNION {EventsOf[r] : r \in S}
Queued(i) == {queue[i][k] : k \in 1..Len(queue[i])}

\* What the counter of pending events counts (IngestChannel!PendingExact).
Held(i) == EventsIn(Queued(i)) \cup cur[i] \cup buf[i]

RowsIn(status) == {k \in RowId : table[k].status = status}
Parked == UNION {table[k].events : k \in RowsIn("active")}
Quarantined == UNION {table[k].events : k \in RowsIn("quarantined")}

\* A call fails.  If replies can be lost it may have taken effect all the same.
Fault == faults < MaxFaults /\ faults' = faults + 1
NoFault == UNCHANGED faults

Bump(f, S) == [e \in Event |-> IF e \in S THEN f[e] + 1 ELSE f[e]]
-----------------------------------------------------------------------------
Init ==
    /\ accepted = {}
    /\ handlers = [i \in Instance |-> {}]
    /\ queue = [i \in Instance |-> <<>>]
    /\ cur = [i \in Instance |-> {}]
    /\ buf = [i \in Instance |-> {}]
    /\ fpc = [i \in Instance |-> "select"]
    /\ fatal = [i \in Instance |-> FALSE]
    /\ dpc = [i \in Instance |-> "idle"]
    /\ todo = [i \in Instance |-> {}]
    /\ depth = [i \in Instance |-> 0]
    /\ table = [k \in RowId |-> NoRow]
    /\ ch = [e \in Event |-> 0]
    /\ billed = [e \in Event |-> 0]
    /\ dropped = {}
    /\ vanished = {}
    /\ refused = [k \in RowId |-> 0]
    /\ recovered = [i \in Instance |-> FALSE]
    /\ faults = 0
    /\ crashes = 0
-----------------------------------------------------------------------------
(* The handler *)

\* The kill switch and fatal flag are read first, before the body is decoded.
Check(r, i) ==
    /\ r \notin accepted
    /\ \A j \in Instance : r \notin handlers[j]
    /\ ~fatal[i]
    /\ handlers' = [handlers EXCEPT ![i] = @ \cup {r}]
    /\ UNCHANGED <<accepted, memory, fpc, fatal, drainer, table, ch, billed, dropped, vanished, history, counters>>

\* Submit took the batch: 202.
Accept(r, i) ==
    /\ r \in handlers[i]
    /\ Cardinality(Held(i) \cup EventsOf[r]) <= EventBuffer
    /\ handlers' = [handlers EXCEPT ![i] = @ \ {r}]
    /\ queue' = [queue EXCEPT ![i] = Append(@, r)]
    /\ accepted' = accepted \cup {r}
    /\ UNCHANGED <<cur, buf, fpc, fatal, drainer, table, ch, billed, dropped, vanished, history, counters>>

\* Submit refused it (the ceiling, the channel, or another caller's
\* reservation), or nothing in it was valid: nothing is kept.
Refuse(r, i) ==
    /\ r \in handlers[i]
    /\ handlers' = [handlers EXCEPT ![i] = @ \ {r}]
    /\ UNCHANGED <<accepted, memory, fpc, fatal, drainer, table, ch, billed, dropped, vanished, history, counters>>
-----------------------------------------------------------------------------
(* The flusher *)

Receive(i) ==
    /\ fpc[i] = "select"
    /\ queue[i] # <<>>
    /\ cur' = [cur EXCEPT ![i] = EventsOf[Head(queue[i])]]
    /\ queue' = [queue EXCEPT ![i] = Tail(@)]
    /\ fpc' = [fpc EXCEPT ![i] = "append"]
    /\ UNCHANGED <<accepted, handlers, buf, fatal, drainer, table, ch, billed, dropped, vanished, history, counters>>

AppendEvents(i) ==
    /\ fpc[i] = "append"
    /\ \E T \in SUBSET cur[i] :
          LET full == Cardinality(buf[i] \cup T) = FlushEvents IN
          /\ Cardinality(buf[i] \cup T) <= FlushEvents
          /\ T = cur[i] \/ full
          /\ buf' = [buf EXCEPT ![i] = @ \cup T]
          /\ cur' = [cur EXCEPT ![i] = @ \ T]
          /\ fpc' = [fpc EXCEPT ![i] = IF full THEN "insert" ELSE "select"]
    /\ UNCHANGED <<accepted, handlers, queue, fatal, drainer, table, ch, billed, dropped, vanished, history, counters>>

\* Mutant: no interval flush, only full batches leave the buffer.
TickFullOnly(i) ==
    /\ fpc[i] = "select"
    /\ Cardinality(buf[i]) >= FlushEvents
    /\ fpc' = [fpc EXCEPT ![i] = "insert"]
    /\ UNCHANGED <<accepted, handlers, memory, fatal, drainer, table, ch, billed, dropped, vanished, history, counters>>

Tick(i) ==
    /\ fpc[i] = "select"
    /\ buf[i] # {}
    /\ fpc' = [fpc EXCEPT ![i] = "insert"]
    /\ UNCHANGED <<accepted, handlers, memory, fatal, drainer, table, ch, billed, dropped, vanished, history, counters>>

\* SetFatal, and what the history keeps of it.
SetFatal(i, value) ==
    /\ fatal' = [fatal EXCEPT ![i] = value]
    /\ recovered' = [recovered EXCEPT ![i] = FALSE]

Recovers(i) == recovered' = [recovered EXCEPT ![i] = fatal[i]]

\* Mutant: the buffer is not emptied.
BufferDoneKeeps(i) ==
    /\ fpc' = [fpc EXCEPT ![i] = IF cur[i] # {} THEN "append" ELSE "select"]
    /\ UNCHANGED memory

\* attemptFlush has returned: the buffer is empty and the loop goes on.
BufferDone(i) ==
    /\ buf' = [buf EXCEPT ![i] = {}]
    /\ fpc' = [fpc EXCEPT ![i] = IF cur[i] # {} THEN "append" ELSE "select"]
    /\ UNCHANGED <<queue, cur>>

\* Mutant: an error of the insert is taken for success.
FlushInsertIgnoresError(i) ==
    /\ fpc[i] = "insert"
    /\ \/ NoFault /\ ch' = Bump(ch, buf[i])
       \/ Fault /\ UNCHANGED ch
    /\ fpc' = [fpc EXCEPT ![i] = "meter"]
    /\ UNCHANGED <<accepted, handlers, memory, fatal, drainer, table, billed, dropped, vanished, history, crashes>>

FlushInsert(i) ==
    /\ fpc[i] = "insert"
    /\ \/ /\ NoFault
          /\ ch' = Bump(ch, buf[i])
          /\ Recovers(i)
          /\ fpc' = [fpc EXCEPT ![i] = "meter"]
       \/ /\ Fault
          /\ ch' = ch \/ (LostReplies /\ ch' = Bump(ch, buf[i]))
          /\ fpc' = [fpc EXCEPT ![i] = "dlq"]
          /\ UNCHANGED recovered
    /\ UNCHANGED <<accepted, handlers, memory, fatal, drainer, table, billed, dropped, vanished, refused, crashes>>

FlushMeter(i) ==
    /\ fpc[i] = "meter"
    /\ billed' = Bump(billed, buf[i])
    /\ fpc' = [fpc EXCEPT ![i] = "clear"]
    /\ UNCHANGED <<accepted, handlers, memory, fatal, drainer, table, ch, dropped, vanished, history, counters>>

FlushClear(i) ==
    /\ fpc[i] = "clear"
    /\ SetFatal(i, FALSE)
    /\ BufferDone(i)
    /\ UNCHANGED <<accepted, handlers, drainer, table, ch, billed, dropped, vanished, refused, counters>>

\* InsertFailedEvent, in the first unused row.  The batch is one JSONB value:
\* one event can keep all of it out.
Parkable(events) == events \cap Unparkable = {}

InsertRow(events) ==
    \E k \in RowsIn("none") :
        /\ \A j \in RowsIn("none") : k <= j
        /\ table' = [table EXCEPT ![k] = [status |-> "active", events |-> events, attempts |-> 0, old |-> FALSE]]
        /\ refused' = [refused EXCEPT ![k] = 1]

\* Mutant: an error of InsertFailedEvent is ignored.
FlushDLQSwallows(i) ==
    /\ fpc[i] = "dlq"
    /\ \/ NoFault /\ Parkable(buf[i]) /\ InsertRow(buf[i])
       \/ Fault /\ UNCHANGED <<table, refused>>
       \/ NoFault /\ ~Parkable(buf[i]) /\ UNCHANGED <<table, refused>>
    /\ BufferDone(i)
    /\ UNCHANGED <<accepted, handlers, fatal, drainer, ch, billed, dropped, vanished, recovered, crashes>>

\* Mutant: a row in the dead-letter queue counts as a clean flush.
FlushDLQClears(i) ==
    /\ fpc[i] = "dlq"
    /\ \/ /\ NoFault /\ Parkable(buf[i]) /\ InsertRow(buf[i])
          /\ SetFatal(i, FALSE)
          /\ UNCHANGED dropped
       \/ /\ Fault \/ (NoFault /\ ~Parkable(buf[i]))
          /\ SetFatal(i, TRUE)
          /\ UNCHANGED <<table, refused>>
          /\ dropped' = dropped \cup buf[i]
    /\ BufferDone(i)
    /\ UNCHANGED <<accepted, handlers, drainer, ch, billed, vanished, crashes>>

\* ClickHouse failed.  If the DLQ fails too, or the batch cannot be written
\* there, the batch is dropped and the process goes fatal.
FlushDLQ(i) ==
    /\ fpc[i] = "dlq"
    /\ \/ NoFault /\ Parkable(buf[i]) /\ InsertRow(buf[i]) /\ UNCHANGED <<fatal, recovered, dropped>>
       \/ /\ Fault \/ (NoFault /\ ~Parkable(buf[i]))
          /\ SetFatal(i, TRUE)
          /\ \/ UNCHANGED <<table, refused>> /\ dropped' = dropped \cup buf[i]
             \/ LostReplies /\ Parkable(buf[i]) /\ InsertRow(buf[i]) /\ UNCHANGED dropped
    /\ BufferDone(i)
    /\ UNCHANGED <<accepted, handlers, drainer, ch, billed, vanished, crashes>>

Flusher(i) ==
    \/ Receive(i) \/ AppendEvents(i) \/ Tick(i)
    \/ FlushInsert(i) \/ FlushMeter(i) \/ FlushClear(i) \/ FlushDLQ(i)
-----------------------------------------------------------------------------
(* The drain goroutine *)

\* ListFailedEventsForDrain: the oldest DrainLimit active rows.
Oldest ==
    {k \in RowsIn("active") : Cardinality({j \in RowsIn("active") : j < k}) < DrainLimit}

\* What the drainer knows of a row: the attempt count as it read it.  (The
\* payload and created_at never change; the age is computed when it is asked.)
Snapshot(k) == [id |-> k, attempts |-> table[k].attempts]

\* The row being processed; the list is worked through oldest first.
Row(i) == CHOOSE s \in todo[i] : \A t \in todo[i] : s.id <= t.id

\* Mutant: the row stays on the list.
RowDoneKeeps(i) ==
    /\ dpc' = [dpc EXCEPT ![i] = IF todo[i] = {Row(i)} THEN "count" ELSE "row"]
    /\ UNCHANGED <<todo, depth>>

\* processDLQRow returns: on to the next row, or to the count.
RowDone(i) ==
    /\ todo' = [todo EXCEPT ![i] = @ \ {Row(i)}]
    /\ dpc' = [dpc EXCEPT ![i] = IF todo[i] = {Row(i)} THEN "count" ELSE "row"]
    /\ UNCHANGED depth

List(i) ==
    /\ dpc[i] = "idle"
    /\ \/ /\ NoFault
          /\ todo' = [todo EXCEPT ![i] = {Snapshot(k) : k \in Oldest}]
          /\ dpc' = [dpc EXCEPT ![i] = IF Oldest = {} THEN "count" ELSE "row"]
       \/ Fault /\ UNCHANGED <<todo, dpc>>
    /\ UNCHANGED <<accepted, handlers, memory, fpc, fatal, depth, table, ch, billed, dropped, vanished, history, crashes>>

\* Mutant: off by one, the last retry is skipped.
ShouldQuarantineEarly(s) == s.attempts + 2 >= AttemptLimit \/ table[s.id].old

ShouldQuarantine(s) == s.attempts + 1 >= AttemptLimit \/ table[s.id].old

\* UPDATE ... SET quarantined_at WHERE id = $1 AND quarantined_at IS NULL.
\* An error is logged and the row is left for the next pass.
Quarantine(i) ==
    /\ dpc[i] = "row"
    /\ ShouldQuarantine(Row(i))
    /\ \/ /\ NoFault \/ (LostReplies /\ Fault)
          /\ table' = IF table[Row(i).id].status = "active"
                      THEN [table EXCEPT ![Row(i).id].status = "quarantined"]
                      ELSE table
       \/ Fault /\ UNCHANGED table
    /\ RowDone(i)
    /\ UNCHANGED <<accepted, handlers, memory, fpc, fatal, ch, billed, dropped, vanished, history, crashes>>

\* Mutant: the row is deleted before its replay is known to have landed.
DrainInsertDeletesFirst(i) ==
    /\ dpc[i] = "row"
    /\ ~ShouldQuarantine(Row(i))
    /\ table' = [table EXCEPT ![Row(i).id].status = "deleted"]
    /\ \/ /\ NoFault
          /\ ch' = Bump(ch, table[Row(i).id].events)
          /\ dpc' = [dpc EXCEPT ![i] = "delete"]
       \/ /\ Fault
          /\ UNCHANGED ch
          /\ dpc' = [dpc EXCEPT ![i] = "bump"]
    /\ UNCHANGED <<accepted, handlers, memory, fpc, fatal, todo, depth, billed, dropped, vanished, history, crashes>>

\* The replay of a row's payload into ClickHouse.
DrainInsert(i) ==
    /\ dpc[i] = "row"
    /\ ~ShouldQuarantine(Row(i))
    /\ \/ /\ NoFault
          /\ ch' = Bump(ch, table[Row(i).id].events)
          /\ Recovers(i)
          /\ dpc' = [dpc EXCEPT ![i] = "delete"]
          /\ UNCHANGED refused
       \/ /\ Fault
          /\ ch' = ch \/ (LostReplies /\ ch' = Bump(ch, table[Row(i).id].events))
          /\ refused' = [refused EXCEPT ![Row(i).id] = @ + 1]
          /\ dpc' = [dpc EXCEPT ![i] = "bump"]
          /\ UNCHANGED recovered
    /\ UNCHANGED <<accepted, handlers, memory, fpc, fatal, todo, depth, table, billed, dropped, vanished, crashes>>

\* UPDATE ... SET attempt_count = attempt_count + 1, whatever the outcome the
\* drainer goes on.
DrainBump(i) ==
    /\ dpc[i] = "bump"
    /\ \/ /\ NoFault \/ (LostReplies /\ Fault)
          /\ table' = IF table[Row(i).id].status # "deleted"
                      THEN [table EXCEPT ![Row(i).id].attempts = @ + 1]
                      ELSE table
       \/ Fault /\ UNCHANGED table
    /\ RowDone(i)
    /\ UNCHANGED <<accepted, handlers, memory, fpc, fatal, ch, billed, dropped, vanished, history, crashes>>

\* Mutant: metering does not wait for the row to be gone.
DrainDeleteMetersAnyway(i) ==
    /\ dpc[i] = "delete"
    /\ \/ NoFault /\ table' = [table EXCEPT ![Row(i).id].status = "deleted"]
       \/ Fault /\ UNCHANGED table
    /\ dpc' = [dpc EXCEPT ![i] = "meter"]
    /\ UNCHANGED <<accepted, handlers, memory, fpc, fatal, todo, depth, ch, billed, dropped, vanished, history, crashes>>

\* DELETE ... WHERE id = $1, content with no row to delete.  On an error the
\* drainer returns before it meters.
DrainDelete(i) ==
    /\ dpc[i] = "delete"
    /\ \/ /\ NoFault
          /\ table' = [table EXCEPT ![Row(i).id].status = "deleted"]
          /\ dpc' = [dpc EXCEPT ![i] = "meter"]
          /\ UNCHANGED <<todo, depth>>
       \/ /\ Fault
          /\ \/ UNCHANGED table
             \/ LostReplies /\ table' = [table EXCEPT ![Row(i).id].status = "deleted"]
          /\ RowDone(i)
    /\ UNCHANGED <<accepted, handlers, memory, fpc, fatal, ch, billed, dropped, vanished, history, crashes>>

\* The usage sink is told.
DrainMeter(i) ==
    /\ dpc[i] = "meter"
    /\ billed' = Bump(billed, table[Row(i).id].events)
    /\ dpc' = [dpc EXCEPT ![i] = "clear"]
    /\ UNCHANGED <<accepted, handlers, memory, fpc, fatal, todo, depth, table, ch, dropped, vanished, history, counters>>

\* The fatal flag is cleared, even one that went up after the replay landed.
DrainClear(i) ==
    /\ dpc[i] = "clear"
    /\ SetFatal(i, FALSE)
    /\ RowDone(i)
    /\ UNCHANGED <<accepted, handlers, memory, fpc, table, ch, billed, dropped, vanished, refused, counters>>

\* Mutant: a count of zero does not reach the gauge.
CountSkipsZero(i) ==
    /\ dpc[i] = "count"
    /\ \/ /\ NoFault
          /\ depth' = IF RowsIn("active") = {} THEN depth
                      ELSE [depth EXCEPT ![i] = Cardinality(RowsIn("active"))]
       \/ Fault /\ UNCHANGED depth
    /\ dpc' = [dpc EXCEPT ![i] = "idle"]
    /\ UNCHANGED <<accepted, handlers, memory, fpc, fatal, todo, table, ch, billed, dropped, vanished, history, crashes>>

\* CountActiveFailedEvents; after an error the gauge keeps its value.
Count(i) ==
    /\ dpc[i] = "count"
    /\ \/ NoFault /\ depth' = [depth EXCEPT ![i] = Cardinality(RowsIn("active"))]
       \/ Fault /\ UNCHANGED depth
    /\ dpc' = [dpc EXCEPT ![i] = "idle"]
    /\ UNCHANGED <<accepted, handlers, memory, fpc, fatal, todo, table, ch, billed, dropped, vanished, history, crashes>>

Drainer(i) ==
    \/ List(i) \/ Quarantine(i) \/ DrainInsert(i) \/ DrainBump(i)
    \/ DrainDelete(i) \/ DrainMeter(i) \/ DrainClear(i) \/ Count(i)
-----------------------------------------------------------------------------
(* The environment *)

\* quarantineAge has passed since created_at.
Age(k) ==
    /\ table[k].status # "none"
    /\ ~table[k].old
    /\ table' = [table EXCEPT ![k].old = TRUE]
    /\ UNCHANGED <<accepted, handlers, memory, fpc, fatal, drainer, ch, billed, dropped, vanished, history, counters>>

\* The process dies and is started again: what it held in memory is gone.
Crash(i) ==
    /\ crashes < MaxCrashes
    /\ crashes' = crashes + 1
    /\ vanished' = vanished \cup Held(i)
    /\ handlers' = [handlers EXCEPT ![i] = {}]
    /\ queue' = [queue EXCEPT ![i] = <<>>]
    /\ cur' = [cur EXCEPT ![i] = {}]
    /\ buf' = [buf EXCEPT ![i] = {}]
    /\ fpc' = [fpc EXCEPT ![i] = "select"]
    /\ SetFatal(i, FALSE)
    /\ dpc' = [dpc EXCEPT ![i] = "idle"]
    /\ todo' = [todo EXCEPT ![i] = {}]
    /\ depth' = [depth EXCEPT ![i] = 0]
    /\ UNCHANGED <<accepted, table, ch, billed, dropped, refused, faults>>

Handler(r, i) == Check(r, i) \/ Accept(r, i) \/ Refuse(r, i)

Next ==
    \/ \E r \in Request, i \in Instance : Handler(r, i)
    \/ \E i \in Instance : Flusher(i) \/ Drainer(i) \/ Crash(i)
    \/ \E k \in RowId : Age(k)

\* The goroutines are scheduled and their tickers fire; nothing obliges a
\* client to send, a row to age or a process to crash.
Fairness == \A i \in Instance : WF_vars(Flusher(i)) /\ WF_vars(Drainer(i))

Spec == Init /\ [][Next]_vars
FairSpec == Spec /\ Fairness

\* And clients that hold on to refused batches keep sending them.
RetryingSpec ==
    FairSpec /\ \A r \in Request, i \in Instance : WF_vars(Check(r, i)) /\ SF_vars(Accept(r, i))
-----------------------------------------------------------------------------
FlusherState == {"select", "append", "insert", "meter", "clear", "dlq"}
DrainerState == {"idle", "row", "bump", "delete", "meter", "clear", "count"}
SnapshotType == [id : RowId, attempts : Nat]

TypeOK ==
    /\ accepted \in SUBSET Request
    /\ handlers \in [Instance -> SUBSET Request]
    /\ queue \in [Instance -> Seq(Request)]
    /\ cur \in [Instance -> SUBSET Event]
    /\ buf \in [Instance -> SUBSET Event]
    /\ fpc \in [Instance -> FlusherState]
    /\ fatal \in [Instance -> BOOLEAN]
    /\ dpc \in [Instance -> DrainerState]
    /\ todo \in [Instance -> SUBSET SnapshotType]
    /\ depth \in [Instance -> Nat]
    /\ table \in [RowId -> RowType]
    /\ ch \in [Event -> Nat]
    /\ billed \in [Event -> Nat]
    /\ dropped \in SUBSET Event
    /\ vanished \in SUBSET Event
    /\ refused \in [RowId -> Nat]
    /\ recovered \in [Instance -> BOOLEAN]
    /\ faults \in Nat
    /\ crashes \in Nat
    /\ \A i \in Instance :
          /\ fpc[i] = "select" => cur[i] = {}
          /\ fpc[i] \in {"insert", "meter", "clear", "dlq"} => buf[i] # {}
          /\ dpc[i] \in {"row", "bump", "delete", "meter", "clear"} <=> todo[i] # {}
          /\ \A s \in todo[i] : table[s.id].status # "none"

Sent == EventsIn(accepted)
InMemory == UNION {Held(i) : i \in Instance}
Landed == {e \in Event : ch[e] > 0}

\* An accepted event is always somewhere: in the memory of a process, in
\* ClickHouse or in the dead-letter queue, unless a batch was refused by both
\* databases or the process holding it crashed.  No other step loses one; and
\* a batch is dropped only after a call to ClickHouse has failed and, unless
\* something in it is not for Postgres, another to Postgres.
NoSilentLoss ==
    /\ Sent \subseteq InMemory \cup Landed \cup Parked \cup Quarantined \cup dropped \cup vanished
    /\ dropped # {} => faults >= IF Parkable(dropped) THEN 2 ELSE 1

\* Usage is reported only for events that are in ClickHouse, and never more
\* often than they are there.
MeteredOnlyIfLanded == \A e \in Event : billed[e] <= ch[e]

\* docs/extending.md: "Each event is counted exactly once, at its first
\* successful insert".  One process never counts an event twice, whatever fails
\* and whenever it crashes; two that overlap can.
MeteredAtMostOnce == \A e \in Event : billed[e] <= 1

\* docs/extending.md says that "an event never passes through two successful
\* inserts".  It does: a row is deleted only after its replay has landed, and a
\* delete that fails, or a crash before it, leaves the row to be replayed again.
\* What does hold of one process is that nothing else repeats an insert: an
\* event already in ClickHouse is inserted again only out of a row of
\* failed_events that is still active.  A clean flush is final, and so is a
\* deleted or quarantined row.
InsertedAgainOnlyFromQueue ==
    [][\A e \in Event : ch[e] > 0 /\ ch'[e] > ch[e] => e \in Parked]_vars

\* A row is given up on only for its age, or when AttemptLimit inserts of its
\* batch into ClickHouse have really failed, however many drainers counted them
\* from what they read long ago.  One of the AttemptLimit is the flush that
\* parked the row: dlq.go and failed_events.sql promise as many retries, and
\* the code gives up after one less (ShouldQuarantine).
QuarantineIsEarned ==
    \A k \in RowsIn("quarantined") : table[k].old \/ refused[k] >= AttemptLimit

\* Once both databases have refused a batch, /healthz and the ingest endpoint
\* answer 503 until the flag goes down.  It goes down when an insert of the
\* process has succeeded since it went up, with the process, or in one more
\* way that state.go ("cleared by the first clean flush after CH recovers") does
\* not name: the drainer clears it for a row it has replayed and deleted, also
\* when the replay landed before the flag went up.
FatalClearedBySuccess ==
    [][\A i \in Instance :
         fatal[i] /\ ~fatal'[i] =>
            \/ recovered[i]
            \/ /\ dpc[i] = "clear"
               /\ table[Row(i).id].status = "deleted"
               /\ \A e \in table[Row(i).id].events : ch[e] > 0
            \/ crashes' > crashes]_vars

\* How far an event has got, for EventDelivery.
Stage(e) ==
    IF e \notin Sent THEN "client"
    ELSE IF e \in Landed THEN "landed"
    ELSE IF e \in Parked THEN "parked"
    ELSE IF e \in Quarantined THEN "quarantined"
    ELSE IF e \in InMemory THEN "held"
    ELSE "lost"

Delivery == INSTANCE EventDelivery WITH stage <- [e \in Event |-> Stage(e)]
ImplementsEventDelivery == Delivery!Spec

\* Once calls stop failing, no accepted event is left in between.
EverythingSettles ==
    \A r \in Request :
        r \in accepted ~>
            \A e \in EventsOf[r] : e \in Landed \cup Quarantined \cup dropped \cup vanished

\* The gauge behind /healthz comes to agree with the table.
DepthCatchesUp ==
    \A i \in Instance : []<>(depth[i] = Cardinality(RowsIn("active")))

\* docs/self-host.md: "The flag clears itself on the next successful write -
\* there is no manual reset"; docs/api.md: "a producer that retries ingests
\* everything".  So while a producer still has a batch to send, and the
\* databases answer again, the flag does not stay up.
FatalClears ==
    \A i \in Instance : fatal[i] /\ accepted # Request ~> ~fatal[i]
=============================================================================
