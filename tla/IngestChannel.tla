---------------------------- MODULE IngestChannel ----------------------------
(***************************************************************************)
(* The in-memory buffer of internal/ingest: channel.go's Go channel of     *)
(* envelopes with its atomic counter of pending events, filled by one      *)
(* goroutine per HTTP request and emptied by the flusher goroutine of      *)
(* flusher.go and, when the shutdown grace has run out, by the residual    *)
(* capture of lifecycle.go beside it.                                      *)
(*                                                                         *)
(* One step is one atomic operation of the code: an atomic load, a         *)
(* compare-and-swap, a channel operation, an atomic add.  The flusher's    *)
(* appends touch only its own slice, so a run of them is one step.  What   *)
(* attemptFlush does with the batch is IngestPipeline's subject; here it   *)
(* is the time between the state "flush" and the decrement.                *)
(***************************************************************************)
EXTENDS Integers, Sequences, FiniteSets

CONSTANTS
    Event,         \* event identities
    Request,       \* one Submit call each; a retry is another request
    EventsOf,      \* [Request -> SUBSET Event]: the validated batch
    EventBuffer,   \* INGEST_EVENT_BUFFER, the event ceiling
    FlushEvents,   \* INGEST_FLUSH_EVENTS, the flush trigger
    MinChanCap     \* the floor of the channel's capacity, 100 in NewService

ASSUME LimitsAssumption ==
    /\ EventBuffer \in Nat \ {0}
    /\ FlushEvents \in Nat \ {0}
    /\ MinChanCap \in Nat \ {0}

ASSUME BatchAssumption ==
    /\ EventsOf \in [Request -> SUBSET Event]
    /\ \A r \in Request : IsFiniteSet(EventsOf[r])
    /\ \A r, s \in Request : r # s => EventsOf[r] \cap EventsOf[s] = {}

VARIABLES
    pending,   \* channel.pending
    queue,     \* channel.ch, a sequence of requests
    closed,    \* channel.ch has been closed
    pc,        \* where each Submit call is
    seen,      \* the value of pending each call loaded
    fpc,       \* where the flusher goroutine is
    cur,       \* events of the envelope in hand not yet appended to buf
    buf,       \* the flusher's buf
    residual,  \* events captureResidual has taken from the channel
    captured,  \* captureResidual has tried to write them
    released,  \* events whose slots have been given back
    cancelled  \* the context given to Start is done

callers == <<pc, seen>>
flusher == <<fpc, cur, buf>>
capture == <<residual, captured>>
vars == <<pending, queue, closed, pc, seen, fpc, cur, buf, residual, captured, released, cancelled>>

CallState == {"start", "cas", "reserved", "full", "accepted", "refused", "panicked"}
FlusherState == {"select", "append", "flush", "lastflush", "stopped"}

\* len(env.Events)
Size(r) == Cardinality(EventsOf[r])

ChanCap ==
    IF EventBuffer \div FlushEvents < MinChanCap
    THEN MinChanCap
    ELSE EventBuffer \div FlushEvents

Init ==
    /\ pending = 0
    /\ queue = <<>>
    /\ closed = FALSE
    /\ pc = [r \in Request |-> "start"]
    /\ seen = [r \in Request |-> 0]
    /\ fpc = "select"
    /\ cur = {}
    /\ buf = {}
    /\ residual = {}
    /\ captured = FALSE
    /\ released = {}
    /\ cancelled = FALSE
-----------------------------------------------------------------------------
(* Submit, the callers' side *)

\* An empty batch never reaches the channel.
SubmitEmpty(r) ==
    /\ pc[r] = "start"
    /\ EventsOf[r] = {}
    /\ pc' = [pc EXCEPT ![r] = "accepted"]
    /\ UNCHANGED <<pending, queue, closed, seen, flusher, capture, released, cancelled>>

\* pending.Load() and the gate on the value it returned.
Load(r) ==
    /\ pc[r] = "start"
    /\ EventsOf[r] # {}
    /\ seen' = [seen EXCEPT ![r] = pending]
    /\ pc' = [pc EXCEPT ![r] = IF pending + Size(r) > EventBuffer THEN "refused" ELSE "cas"]
    /\ UNCHANGED <<pending, queue, closed, flusher, capture, released, cancelled>>

\* Mutant: a plain store where the code compares and swaps.
SwapBlind(r) ==
    /\ pc[r] = "cas"
    /\ pending' = seen[r] + Size(r)
    /\ pc' = [pc EXCEPT ![r] = "reserved"]
    /\ UNCHANGED <<queue, closed, seen, flusher, capture, released, cancelled>>

\* Mutant: a failed swap is tried again without loading the counter anew.
SwapStale(r) ==
    /\ pc[r] = "cas"
    /\ pending = seen[r]
    /\ pending' = seen[r] + Size(r)
    /\ pc' = [pc EXCEPT ![r] = "reserved"]
    /\ UNCHANGED <<queue, closed, seen, flusher, capture, released, cancelled>>

\* CompareAndSwap(cur, cur+n); a failed swap goes round the loop again.
Swap(r) ==
    /\ pc[r] = "cas"
    /\ \/ /\ pending = seen[r]
          /\ pending' = seen[r] + Size(r)
          /\ pc' = [pc EXCEPT ![r] = "reserved"]
       \/ /\ pending # seen[r]
          /\ pc' = [pc EXCEPT ![r] = "start"]
          /\ UNCHANGED pending
    /\ UNCHANGED <<queue, closed, seen, flusher, capture, released, cancelled>>

\* Mutant: a full channel drops the envelope and still answers 202.
SendDrops(r) ==
    /\ pc[r] = "reserved"
    /\ queue' = IF Len(queue) < ChanCap THEN Append(queue, r) ELSE queue
    /\ pc' = [pc EXCEPT ![r] = "accepted"]
    /\ UNCHANGED <<pending, closed, seen, flusher, capture, released, cancelled>>

\* The non-blocking send.  A send on a closed channel panics; the reservation
\* already made is never given back.
Send(r) ==
    /\ pc[r] = "reserved"
    /\ \/ /\ closed
          /\ pc' = [pc EXCEPT ![r] = "panicked"]
          /\ UNCHANGED queue
       \/ /\ ~closed
          /\ Len(queue) < ChanCap
          /\ queue' = Append(queue, r)
          /\ pc' = [pc EXCEPT ![r] = "accepted"]
       \/ /\ ~closed
          /\ Len(queue) >= ChanCap
          /\ pc' = [pc EXCEPT ![r] = "full"]
          /\ UNCHANGED queue
    /\ UNCHANGED <<pending, closed, seen, flusher, capture, released, cancelled>>

\* Mutant: the reservation is kept when the channel was full.
RollbackForgets(r) ==
    /\ pc[r] = "full"
    /\ pc' = [pc EXCEPT ![r] = "refused"]
    /\ UNCHANGED <<pending, queue, closed, seen, flusher, capture, released, cancelled>>

\* pending.Add(-n) after the channel was found full.
Rollback(r) ==
    /\ pc[r] = "full"
    /\ pending' = pending - Size(r)
    /\ pc' = [pc EXCEPT ![r] = "refused"]
    /\ UNCHANGED <<queue, closed, seen, flusher, capture, released, cancelled>>

Submit(r) == SubmitEmpty(r) \/ Load(r) \/ Swap(r) \/ Send(r) \/ Rollback(r)
-----------------------------------------------------------------------------
(* The flusher goroutine *)

Receive ==
    /\ fpc = "select"
    /\ queue # <<>>
    /\ cur' = EventsOf[Head(queue)]
    /\ queue' = Tail(queue)
    /\ fpc' = "append"
    /\ UNCHANGED <<pending, closed, callers, buf, capture, released, cancelled>>

\* Append the envelope's events until buf reaches FlushEvents or they run out.
AppendEvents ==
    /\ fpc = "append"
    /\ \E T \in SUBSET cur :
          /\ Cardinality(buf \cup T) <= FlushEvents
          /\ T = cur \/ Cardinality(buf \cup T) = FlushEvents
          /\ buf' = buf \cup T
          /\ cur' = cur \ T
          /\ fpc' = IF Cardinality(buf \cup T) = FlushEvents THEN "flush" ELSE "select"
    /\ UNCHANGED <<pending, queue, closed, callers, capture, released, cancelled>>

\* Mutant: no interval flush, only full batches leave the buffer.
TickFullOnly ==
    /\ fpc = "select"
    /\ Cardinality(buf) >= FlushEvents
    /\ fpc' = "flush"
    /\ UNCHANGED <<pending, queue, closed, callers, cur, buf, capture, released, cancelled>>

Tick ==
    /\ fpc = "select"
    /\ buf # {}
    /\ fpc' = "flush"
    /\ UNCHANGED <<pending, queue, closed, callers, cur, buf, capture, released, cancelled>>

\* attemptFlush has returned: chBuf.drained(len(buf)), buf = buf[:0].
Drained ==
    /\ fpc \in {"flush", "lastflush"}
    /\ pending' = pending - Cardinality(buf)
    /\ released' = released \cup buf
    /\ buf' = {}
    /\ fpc' = CASE fpc = "lastflush" -> "stopped"
                [] fpc = "flush" /\ cur # {} -> "append"
                [] OTHER -> "select"
    /\ UNCHANGED <<queue, closed, callers, cur, capture, cancelled>>

\* The two ways out of the loop: the channel is closed and empty, or the
\* context is done (then envelopes may be left behind in the channel).
Stop ==
    /\ fpc = "select"
    /\ (closed /\ queue = <<>>) \/ cancelled
    /\ fpc' = IF buf = {} THEN "stopped" ELSE "lastflush"
    /\ UNCHANGED <<pending, queue, closed, callers, cur, buf, capture, released, cancelled>>

Flusher == Receive \/ AppendEvents \/ Tick \/ Drained \/ Stop
-----------------------------------------------------------------------------
(* The rest of the process *)

\* Shutdown closes the channel, once.
Close ==
    /\ ~closed
    /\ closed' = TRUE
    /\ UNCHANGED <<pending, queue, callers, flusher, capture, released, cancelled>>

Cancel ==
    /\ ~cancelled
    /\ cancelled' = TRUE
    /\ UNCHANGED <<pending, queue, closed, callers, flusher, capture, released>>

\* The grace has run out: captureResidual takes envelopes out of the closed
\* channel, racing the flusher for them.
ResidualTake ==
    /\ closed
    /\ ~captured
    /\ queue # <<>>
    /\ residual' = residual \cup EventsOf[Head(queue)]
    /\ queue' = Tail(queue)
    /\ UNCHANGED <<pending, closed, callers, flusher, captured, released, cancelled>>

\* chBuf.drained(len(items)) once they are in failed_events; if the write fails
\* the counter stays as it is.
ResidualWrite ==
    /\ ~captured
    /\ residual # {}
    /\ captured' = TRUE
    /\ \/ /\ pending' = pending - Cardinality(residual)
          /\ released' = released \cup residual
          /\ residual' = {}
       \/ UNCHANGED <<pending, released, residual>>
    /\ UNCHANGED <<queue, closed, callers, flusher, cancelled>>

Next ==
    \/ \E r \in Request : Submit(r)
    \/ Flusher
    \/ ResidualTake
    \/ ResidualWrite
    \/ Close
    \/ Cancel

\* Goroutines run; nobody is obliged to shut the process down, but a capture
\* that has begun ends after two seconds.
Fairness ==
    /\ \A r \in Request : WF_vars(Submit(r))
    /\ WF_vars(Flusher)
    /\ WF_vars(ResidualWrite)

Spec == Init /\ [][Next]_vars
FairSpec == Spec /\ Fairness
-----------------------------------------------------------------------------
EventsIn(S) == UNION {EventsOf[r] : r \in S}
Queued == {queue[i] : i \in 1..Len(queue)}

\* Requests that hold a reservation whose envelope is not in the channel.
Reserving == {r \in Request : pc[r] \in {"reserved", "full", "panicked"}}

\* Events accepted and not yet released.
Held == EventsIn(Queued) \cup cur \cup buf \cup residual

\* Every event that owns a slot of the counter.
InFlight == EventsIn(Reserving) \cup Held

TypeOK ==
    /\ pending \in 0..EventBuffer
    /\ queue \in Seq(Request)
    /\ closed \in BOOLEAN
    /\ pc \in [Request -> CallState]
    /\ seen \in [Request -> 0..EventBuffer]
    /\ fpc \in FlusherState
    /\ cur \in SUBSET Event
    /\ buf \in SUBSET Event
    /\ residual \in SUBSET Event
    /\ captured \in BOOLEAN
    /\ released \in SUBSET Event
    /\ cancelled \in BOOLEAN

\* The counter is exact at every instant, whatever the interleaving of
\* reservations, rollbacks, panics, split envelopes and the decrements of the
\* flusher and the capture (flusher.go: "so Submit's accounting stays exact").
PendingExact == pending = Cardinality(InFlight)

\* channel.go: one oversized batch cannot pass the ceiling and concurrent
\* submitters never race past each other.
CeilingRespected == Cardinality(InFlight) <= EventBuffer

\* A request is answered 202 exactly when its events went through the channel,
\* and each of its events is then in one place; a refused or panicked
\* request left nothing behind.
FateMatchesAnswer ==
    /\ \A r \in Request :
          IF pc[r] = "accepted"
          THEN EventsOf[r] \subseteq Held \cup released
          ELSE EventsOf[r] \cap (Held \cup released) = {}
    /\ released \cap Held = {}

\* Unless the context is cancelled, or a capture at the end fails to write what
\* it took, every accepted event's slot is given back: backpressure ends.
SlotsComeBack ==
    \A r \in Request :
        pc[r] = "accepted" ~> \/ EventsOf[r] \subseteq released
                              \/ cancelled
                              \/ captured /\ EventsOf[r] \cap residual # {}

\* Every Submit call returns: the compare-and-swap loop does not spin for ever.
SubmitReturns ==
    \A r \in Request : <>(pc[r] \in {"accepted", "refused", "panicked"})

\* What the caller of a Submit in this state has been told.
Answer(state) ==
    CASE state = "accepted" -> "accepted"
      [] state = "refused" -> "refused"
      [] state = "panicked" -> "failed"
      [] OTHER -> "open"

\* The promise of Submit, with the reservation protocol hidden.
Buffer == INSTANCE BoundedBuffer WITH
    Ceiling <- EventBuffer,
    held <- Held,
    outcome <- [r \in Request |-> Answer(pc[r])]

\* Every step of the channel is a step BoundedBuffer allows, or none: batches
\* enter whole or not at all and only the consumer takes events out.
ImplementsBoundedBuffer == Buffer!Spec
=============================================================================
