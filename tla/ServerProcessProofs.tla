------------------------ MODULE ServerProcessProofs ------------------------
(***************************************************************************)
(* Proofs about ServerProcess, for any events and requests, batch size and *)
(* number of faults: nothing is served before both schemas are current,    *)
(* nothing is closed under those who use it, no event has two owners, and  *)
(* a process that ends accounts for every event it took.                   *)
(*                                                                         *)
(* The argument for the last is conservation: the events taken out of the  *)
(* channel are in the flusher's hands, in the residual capture's, in a     *)
(* row, in ClickHouse or given up; who may still insert them is one of the *)
(* first four.  A batch that is given up has cost the failed calls that    *)
(* gave it up, as long as every call could have succeeded.  A flusher that *)
(* stops under a live context has found the channel closed and empty, and  *)
(* nothing is sent on a closed channel.                                    *)
(***************************************************************************)
EXTENDS ServerProcess, FiniteSetTheorems, TLAPS

Launched == fpc # "unstarted"

\* Before the goroutines run nothing has happened, and Build has done what it
\* says; while anything is served every pool is open.
BootOK ==
    /\ fpc = "unstarted" <=> dpc = "unstarted"
    /\ ~Launched => /\ main \in {"build", "close", "exited"}
                    /\ \A r \in Request : conn[r] = "client"
                    /\ queue = <<>> /\ cur = {} /\ buf = {} /\ ~unwaited
    /\ main = "build" =>
          /\ ~Launched
          /\ built = 0 => pools = {}
          /\ \A k \in 1..built : /\ BuildSteps[k] \in Pool => BuildSteps[k] \in pools
                                 /\ BuildSteps[k] \in Schema => schema[BuildSteps[k]] = "current"
    /\ Launched => schema = [d \in Schema |-> "current"]
    /\ main \in {"serving", "http", "ingest", "wait", "residual"} => pools = Pool
    /\ main = "exited" => pools = {}
    /\ main = "residual" => expired
    /\ Launched /\ main \in {"close", "exited"} => (fpc = "stopped" /\ dpc = "stopped") \/ expired

\* The channel is closed when nobody is left to send, or phase 3 did not wait.
HandlersOK ==
    /\ closed => main \in {"wait", "residual", "close", "exited"}
    /\ main \notin {"build", "serving", "http"} => unwaited \/ InHandler = {}
    /\ (\E r \in Request : conn[r] = "panicked") => unwaited
    /\ "pg" \notin pools => \A r \in Request : conn[r] # "lookup"

\* A flusher that stops has nothing in hand, and under a live context nothing
\* to come.
FlusherOK ==
    /\ fpc \in {"stopped", "lastflush", "lastpark"} => CtxDone \/ (closed /\ queue = <<>>)
    /\ fpc \in {"select", "lastflush", "lastpark", "stopped"} => cur = {}
    /\ fpc = "stopped" => buf = {}
    /\ main # "residual" => resid = {}

\* The channel holds accepted requests, each once.
QueueOK ==
    /\ queue \in Seq(Request)
    /\ \A k \in 1..Len(queue) : conn[queue[k]] = "accepted"
    /\ \A k, m \in 1..Len(queue) : k # m => queue[k] # queue[m]

\* The events taken out of the channel.
Taken == EventsIn({r \in Request : conn[r] = "accepted" /\ r \notin Queued})

\* Each is somewhere, and at most one may still insert it.
Conserved ==
    /\ cur \cup buf \cup resid \cup Parked \cup landed \cup dropped \cup unsaved = Taken
    /\ cur \cap (buf \cup resid \cup Parked) = {}
    /\ buf \cap (resid \cup Parked) = {}
    /\ resid \cap Parked = {}
    /\ \A R, T \in rows : R # T => R \cap T = {}

\* A row is deleted once its batch has landed.
ReplayOK == replay \subseteq landed /\ (dpc # "delete" => replay = {})

\* While every call could succeed, a batch to be parked has cost a failed call,
\* and one given up two, or one if failed_events cannot hold it.
CausesOK ==
    /\ Parking => CtxDone \/ expired \/ faults >= 1
    /\ dropped # {} => CtxDone \/ expired \/ (faults >= 1 /\ (dropped \cap Unparkable = {} => faults >= 2))
    /\ unsaved # {} => expired /\ (unsaved \cap Unparkable # {} \/ faults >= 1)

Typed ==
    /\ main \in {"build", "serving", "http", "ingest", "wait", "residual", "close", "exited"}
    /\ built \in 0..Len(BuildSteps)
    /\ schema \in [Schema -> Version]
    /\ pools \subseteq Pool
    /\ conn \in [Request -> HandlerState]
    /\ fpc \in {"unstarted", "select", "append", "flush", "lastflush", "park", "lastpark", "stopped"}
    /\ dpc \in {"unstarted", "idle", "pass", "delete", "stopped"}
    /\ {shared, signalled, unwaited, expired, disabled, fatal, closed} \subseteq BOOLEAN
    /\ faults \in 0..MaxFaults

IndInv == Typed /\ BootOK /\ HandlersOK /\ FlusherOK /\ QueueOK /\ Conserved /\ ReplayOK /\ CausesOK
-----------------------------------------------------------------------------
(* Events and the channel *)

\* The steps of Build, one by one.
LEMMA Steps ==
    /\ Len(BuildSteps) = 7
    /\ BuildSteps[1] = "pg" /\ BuildSteps[2] = "pg schema" /\ BuildSteps[3] = "ch database"
    /\ BuildSteps[4] = "admin" /\ BuildSteps[5] = "ch user" /\ BuildSteps[6] = "ch schema"
    /\ BuildSteps[7] = "readonly"
  BY DEF BuildSteps

\* What a set of requests carries.
LEMMA Carried ==
    /\ \A S \in SUBSET Request : EventsIn(S) \subseteq Event
    /\ \A S, T \in SUBSET Request : S \cap T = {} => EventsIn(S) \cap EventsIn(T) = {}
    /\ \A S \in SUBSET Request, r \in Request : EventsIn(S \cup {r}) = EventsIn(S) \cup EventsOf[r]
    /\ \A S \in SUBSET Request, r \in Request : r \notin S => EventsOf[r] \cap EventsIn(S) = {}
    /\ \A r \in Request : EventsOf[r] \in SUBSET Event
PROOF
  <1>1. \A r \in Request : EventsOf[r] \in SUBSET Event
    BY ShutdownAssumption
  <1>2. \A S \in SUBSET Request : EventsIn(S) \subseteq Event
    BY <1>1 DEF EventsIn
  <1>3. \A S, T \in SUBSET Request : S \cap T = {} => EventsIn(S) \cap EventsIn(T) = {}
    BY ShutdownAssumption DEF EventsIn
  <1>4. \A S \in SUBSET Request, r \in Request : EventsIn(S \cup {r}) = EventsIn(S) \cup EventsOf[r]
    BY DEF EventsIn
  <1>5. \A S \in SUBSET Request, r \in Request : r \notin S => EventsOf[r] \cap EventsIn(S) = {}
    BY ShutdownAssumption DEF EventsIn
  <1> QED BY <1>1, <1>2, <1>3, <1>4, <1>5

\* Whoever is in the channel is a request.
LEMMA QueuedRequests ==
    ASSUME QueueOK
    PROVE  Queued \in SUBSET Request /\ \A r \in Queued : conn[r] = "accepted"
  BY DEF QueueOK, Queued

\* Nothing that the events depend on changes.
LEMMA KeepEvents ==
    ASSUME QueueOK, Conserved, UNCHANGED <<queue, cur, buf, resid, rows, landed, dropped, unsaved>>,
           \A r \in Request : conn'[r] = "accepted" <=> conn[r] = "accepted"
    PROVE  QueueOK' /\ Conserved'
PROOF
  <1>1. QueueOK'
    <2>1. \A k \in 1..Len(queue) : queue[k] \in Request
      BY DEF QueueOK
    <2> QED BY <2>1 DEF QueueOK
  <1>2. Taken' = Taken
    BY DEF Taken, Queued
  <1> QED BY <1>1, <1>2 DEF Conserved, Parked

\* Nothing is given up, and no batch is sent on to be parked.
LEMMA KeepCauses ==
    ASSUME CausesOK, UNCHANGED <<dropped, unsaved>>, faults \in Nat, faults' \in Nat, faults' >= faults,
           CtxDone => CtxDone', expired => expired', Parking' => Parking
    PROVE  CausesOK'
  BY DEF CausesOK

\* An envelope is sent.
LEMMA SendKeeps ==
    ASSUME QueueOK, Conserved, UNCHANGED <<cur, buf, resid, rows, landed, dropped, unsaved>>,
           NEW r \in Request, conn[r] # "accepted", conn \in [Request -> HandlerState],
           conn' = [conn EXCEPT ![r] = "accepted"], queue' = Append(queue, r)
    PROVE  QueueOK' /\ Conserved'
PROOF
  <1>1. /\ queue \in Seq(Request) /\ Len(queue) \in Nat
        /\ \A k \in 1..Len(queue) : queue[k] \in Request /\ conn[queue[k]] = "accepted" /\ queue[k] # r
        /\ \A k, m \in 1..Len(queue) : k # m => queue[k] # queue[m]
    BY DEF QueueOK
  <1>2. /\ queue' \in Seq(Request) /\ Len(queue') = Len(queue) + 1
        /\ queue'[Len(queue) + 1] = r
        /\ \A k \in 1..Len(queue) : queue'[k] = queue[k]
    BY <1>1
  <1>3. \A k \in 1..Len(queue') : k \in 1..Len(queue) \/ k = Len(queue) + 1
    BY <1>1, <1>2
  <1>4. \A s \in Request : conn'[s] = "accepted" <=> s = r \/ conn[s] = "accepted"
    OBVIOUS
  <1>5. QueueOK'
    BY <1>1, <1>2, <1>3, <1>4 DEF QueueOK
  <1>6. Queued' = Queued \cup {r}
    BY <1>1, <1>2, <1>3 DEF Queued
  <1>7. Taken' = Taken
    <2>1. {s \in Request : conn'[s] = "accepted" /\ s \notin Queued'}
             = {s \in Request : conn[s] = "accepted" /\ s \notin Queued}
      BY <1>4, <1>6
    <2> QED BY <2>1 DEF Taken
  <1> QED BY <1>5, <1>7 DEF Conserved, Parked

\* An envelope is taken out: its events are nowhere else.
LEMMA TakeOut ==
    ASSUME QueueOK, queue # <<>>, queue' = Tail(queue), UNCHANGED conn
    PROVE  /\ QueueOK'
           /\ Head(queue) \in Request
           /\ Taken' = Taken \cup EventsOf[Head(queue)]
           /\ EventsOf[Head(queue)] \cap Taken = {}
PROOF
  <1> DEFINE h == Head(queue)
  <1>1. /\ queue \in Seq(Request) /\ Len(queue) \in Nat /\ Len(queue) > 0
        /\ h = queue[1] /\ h \in Request /\ conn[h] = "accepted"
        /\ \A k \in 1..Len(queue) : queue[k] \in Request /\ conn[queue[k]] = "accepted"
        /\ \A k, m \in 1..Len(queue) : k # m => queue[k] # queue[m]
    BY DEF QueueOK
  <1>2. /\ queue' \in Seq(Request) /\ Len(queue') = Len(queue) - 1
        /\ \A k \in 1..Len(queue') : k + 1 \in 1..Len(queue) /\ queue'[k] = queue[k + 1]
    BY <1>1
  <1>3. QueueOK'
    <2>1. \A k \in 1..Len(queue') : conn'[queue'[k]] = "accepted"
      BY <1>1, <1>2
    <2>2. ASSUME NEW k \in 1..Len(queue'), NEW m \in 1..Len(queue'), k # m
          PROVE  queue'[k] # queue'[m]
      <3>1. k + 1 # m + 1 /\ k + 1 \in 1..Len(queue) /\ m + 1 \in 1..Len(queue)
        BY <1>2, <2>2
      <3> QED BY <1>1, <1>2, <3>1
    <2> QED BY <1>2, <2>1, <2>2 DEF QueueOK
  <1>4. Queued' = Queued \ {h}
    <2>1. \A k \in 1..Len(queue') : queue'[k] \in Queued /\ queue'[k] # h
      BY <1>1, <1>2 DEF Queued
    <2>2. ASSUME NEW k \in 1..Len(queue), queue[k] # h
          PROVE  queue[k] \in {queue'[m] : m \in 1..Len(queue')}
      <3>1. k - 1 \in 1..Len(queue') /\ (k - 1) + 1 = k
        BY <1>1, <1>2, <2>2
      <3>2. queue'[k - 1] = queue[k]
        BY <1>2, <3>1
      <3> QED BY <3>1, <3>2
    <2> QED BY <2>1, <2>2 DEF Queued
  <1>5. h \in Queued
    BY <1>1 DEF Queued
  <1> DEFINE S == {s \in Request : conn[s] = "accepted" /\ s \notin Queued}
  <1>6. {s \in Request : conn'[s] = "accepted" /\ s \notin Queued'} = S \cup {h}
    BY <1>1, <1>4, <1>5
  <1>7. S \in SUBSET Request /\ h \in Request \ S
    BY <1>1, <1>5
  <1>8. Taken' = EventsIn(S \cup {h}) /\ Taken = EventsIn(S)
    BY <1>6 DEF Taken
  <1> HIDE DEF S, h
  <1>9. EventsIn(S \cup {h}) = EventsIn(S) \cup EventsOf[h] /\ EventsOf[h] \cap EventsIn(S) = {}
    BY <1>7, Carried
  <1> QED BY <1>1, <1>3, <1>8, <1>9 DEF h

\* A row is put into the table, or perhaps taken out of it.
LEMMA RowsMove ==
    ASSUME \A R, T \in rows : R # T => R \cap T = {}
    PROVE  /\ \A X : /\ UNION (rows \ {X}) \subseteq Parked
                     /\ Parked \subseteq (UNION (rows \ {X})) \cup X
                     /\ \A R, T \in rows \ {X} : R # T => R \cap T = {}
           /\ \A B : B \cap Parked = {} =>
                 /\ UNION (rows \cup {B}) = Parked \cup B
                 /\ \A R, T \in rows \cup {B} : R # T => R \cap T = {}
PROOF
  <1>1. \A X : /\ UNION (rows \ {X}) \subseteq Parked
               /\ \A R, T \in rows \ {X} : R # T => R \cap T = {}
    BY DEF Parked
  <1>2. ASSUME NEW X, NEW e \in Parked, e \notin X
        PROVE  e \in UNION (rows \ {X})
    <2>1. PICK R \in rows : e \in R
      BY DEF Parked
    <2>2. R # X
      BY <1>2, <2>1
    <2>3. R \in rows \ {X}
      BY <2>1, <2>2
    <2> QED BY <2>1, <2>3
  <1>3. \A B : B \cap Parked = {} =>
           /\ UNION (rows \cup {B}) = Parked \cup B
           /\ \A R, T \in rows \cup {B} : R # T => R \cap T = {}
    BY DEF Parked
  <1>4. \A X : Parked \subseteq (UNION (rows \ {X})) \cup X
    BY <1>2
  <1> QED BY <1>1, <1>3, <1>4

LEMMA ReceiveEvents ==
    ASSUME IndInv, Receive
    PROVE  QueueOK' /\ Conserved'
PROOF
  <1>1. cur = {} /\ cur' = EventsOf[Head(queue)] /\ UNCHANGED <<buf, resid, rows, landed, dropped, unsaved>>
    BY DEF IndInv, FlusherOK, Receive, stores
  <1>2. QueueOK' /\ Taken' = Taken \cup EventsOf[Head(queue)] /\ EventsOf[Head(queue)] \cap Taken = {}
    BY TakeOut DEF IndInv, Receive
  <1>3. Parked' = Parked
    BY <1>1 DEF Parked
  <1> QED BY <1>1, <1>2, <1>3 DEF IndInv, Conserved

LEMMA AppendKeeps ==
    ASSUME IndInv, AppendEvents
    PROVE  QueueOK' /\ Conserved'
PROOF
  <1>1. PICK T \in SUBSET cur : buf' = buf \cup T /\ cur' = cur \ T
    BY DEF AppendEvents
  <1>2. UNCHANGED <<conn, queue, resid, rows, landed, dropped, unsaved>>
    BY DEF AppendEvents, stores
  <1>3. QueueOK' /\ Taken' = Taken /\ Parked' = Parked
    BY <1>2 DEF IndInv, QueueOK, Taken, Queued, Parked
  <1> QED BY <1>1, <1>2, <1>3 DEF IndInv, Conserved

\* A batch lands, perhaps without the flusher's knowing.
LEMMA FlushInsertKeeps ==
    ASSUME IndInv, FlushInsert
    PROVE  QueueOK' /\ Conserved'
PROOF
  <1>1. /\ UNCHANGED <<conn, queue, cur, resid, rows, dropped, unsaved>>
        /\ \/ landed' = landed \cup buf /\ buf' = {}
           \/ landed' \in {landed, landed \cup buf} /\ buf' = buf
    BY DEF FlushInsert, BatchDone, Perhaps
  <1>2. QueueOK' /\ Taken' = Taken /\ Parked' = Parked
    BY <1>1 DEF IndInv, QueueOK, Taken, Queued, Parked
  <1> QED BY <1>1, <1>2 DEF IndInv, Conserved

\* A batch is parked, or given up, or both.
LEMMA FlushDLQKeeps ==
    ASSUME IndInv, FlushDLQ
    PROVE  QueueOK' /\ Conserved'
PROOF
  <1>1. /\ buf' = {} /\ UNCHANGED <<conn, queue, cur, resid, landed, unsaved>>
        /\ \/ rows' = rows \cup {buf} /\ dropped' \in {dropped, dropped \cup buf}
           \/ rows' = rows /\ dropped' = dropped \cup buf
    BY DEF FlushDLQ, BatchDone, Perhaps
  <1>2. QueueOK' /\ Taken' = Taken
    BY <1>1 DEF IndInv, QueueOK, Taken, Queued
  <1>3. CASE rows' = rows \cup {buf} /\ dropped' \in {dropped, dropped \cup buf}
    <2>1. buf \cap Parked = {} /\ \A R, T \in rows : R # T => R \cap T = {}
      BY DEF IndInv, Conserved
    <2>2. Parked' = Parked \cup buf /\ \A R, T \in rows' : R # T => R \cap T = {}
      <3>1. /\ UNION (rows \cup {buf}) = Parked \cup buf
            /\ \A R, T \in rows \cup {buf} : R # T => R \cap T = {}
        BY <2>1, RowsMove
      <3>2. Parked' = UNION (rows \cup {buf})
        BY <1>3 DEF Parked
      <3> QED BY <1>3, <3>1, <3>2
    <2> QED BY <1>1, <1>2, <1>3, <2>2 DEF IndInv, Conserved
  <1>4. CASE rows' = rows /\ dropped' = dropped \cup buf
    <2>1. Parked' = Parked
      BY <1>4 DEF Parked
    <2> QED BY <1>1, <1>2, <1>4, <2>1 DEF IndInv, Conserved
  <1> QED BY <1>1, <1>3, <1>4

LEMMA ResidualTakeKeeps ==
    ASSUME IndInv, ResidualTake
    PROVE  QueueOK' /\ Conserved'
PROOF
  <1>1. resid' = resid \cup EventsOf[Head(queue)] /\ UNCHANGED <<cur, buf, rows, landed, dropped, unsaved>>
    BY DEF ResidualTake, flusher, drainer, stores
  <1>2. QueueOK' /\ Taken' = Taken \cup EventsOf[Head(queue)] /\ EventsOf[Head(queue)] \cap Taken = {}
    BY TakeOut DEF IndInv, ResidualTake
  <1>3. Parked' = Parked
    BY <1>1 DEF Parked
  <1> QED BY <1>1, <1>2, <1>3 DEF IndInv, Conserved

\* What the capture took is in one row, or given up, or both.
LEMMA ResidualWriteKeeps ==
    ASSUME IndInv, ResidualWrite
    PROVE  QueueOK' /\ Conserved'
PROOF
  <1>1. /\ resid' = {} /\ UNCHANGED <<conn, queue, cur, buf, landed, dropped>>
        /\ \/ rows' = rows \cup {resid} /\ unsaved' \in {unsaved, unsaved \cup resid}
           \/ rows' = rows /\ unsaved' = unsaved \cup resid
    BY DEF ResidualWrite, flusher
  <1>2. QueueOK' /\ Taken' = Taken
    BY <1>1 DEF IndInv, QueueOK, Taken, Queued
  <1>3. CASE rows' = rows \cup {resid} /\ unsaved' \in {unsaved, unsaved \cup resid}
    <2>1. resid \cap Parked = {} /\ \A R, T \in rows : R # T => R \cap T = {}
      BY DEF IndInv, Conserved
    <2>2. Parked' = Parked \cup resid /\ \A R, T \in rows' : R # T => R \cap T = {}
      <3>1. /\ UNION (rows \cup {resid}) = Parked \cup resid
            /\ \A R, T \in rows \cup {resid} : R # T => R \cap T = {}
        BY <2>1, RowsMove
      <3>2. Parked' = UNION (rows \cup {resid})
        BY <1>3 DEF Parked
      <3> QED BY <1>3, <3>1, <3>2
    <2> QED BY <1>1, <1>2, <1>3, <2>2 DEF IndInv, Conserved
  <1>4. CASE rows' = rows /\ unsaved' = unsaved \cup resid
    <2>1. Parked' = Parked
      BY <1>4 DEF Parked
    <2> QED BY <1>1, <1>2, <1>4, <2>1 DEF IndInv, Conserved
  <1> QED BY <1>1, <1>3, <1>4

\* A replayed batch lands; its row stays.
LEMMA DrainInsertKeeps ==
    ASSUME IndInv, DrainInsert
    PROVE  QueueOK' /\ Conserved' /\ ReplayOK'
PROOF
  <1>1. PICK row \in rows : /\ landed' \in {landed, landed \cup row}
                            /\ \/ landed' = landed \cup row /\ replay' = row /\ dpc' = "delete"
                               \/ UNCHANGED <<dpc, replay>>
    BY DEF DrainInsert, Perhaps, drainer
  <1>2. UNCHANGED <<conn, queue, cur, buf, resid, rows, dropped, unsaved>>
    BY DEF DrainInsert, flusher
  <1>3. QueueOK' /\ Taken' = Taken /\ Parked' = Parked
    BY <1>2 DEF IndInv, QueueOK, Taken, Queued, Parked
  <1>4. row \subseteq Parked
    BY DEF Parked
  <1>5. Conserved'
    BY <1>1, <1>2, <1>3, <1>4 DEF IndInv, Conserved
  <1>6. ReplayOK'
    BY <1>1 DEF IndInv, ReplayOK
  <1> QED BY <1>3, <1>5, <1>6

\* Its row goes once it has landed.
LEMMA DrainDeleteKeeps ==
    ASSUME IndInv, DrainDelete
    PROVE  QueueOK' /\ Conserved'
PROOF
  <1>1. /\ rows' \in {rows, rows \ {replay}} /\ replay \subseteq landed
        /\ UNCHANGED <<conn, queue, cur, buf, resid, landed, dropped, unsaved>>
    BY DEF DrainDelete, Perhaps, flusher, IndInv, ReplayOK
  <1>2. QueueOK' /\ Taken' = Taken
    BY <1>1 DEF IndInv, QueueOK, Taken, Queued
  <1>3. \A R, T \in rows : R # T => R \cap T = {}
    BY DEF IndInv, Conserved
  <1>4. /\ Parked' \subseteq Parked /\ Parked \subseteq Parked' \cup replay
        /\ \A R, T \in rows' : R # T => R \cap T = {}
    BY <1>1, <1>3, RowsMove DEF Parked
  <1> QED BY <1>1, <1>2, <1>4 DEF IndInv, Conserved
-----------------------------------------------------------------------------
(* The handlers *)

\* A handler is at work only while the goroutines run; one that is still there
\* when phase 3 has begun was not waited for.
LEMMA HandlerInv ==
    ASSUME IndInv, NEW r \in Request, Handler(r)
    PROVE  IndInv'
PROOF
  <1>1. PICK to \in HandlerState \ {"client"} :
          /\ conn' = [conn EXCEPT ![r] = to]
          /\ to = "lookup" => "pg" \in pools
          /\ to = "panicked" => closed
          /\ IF to = "accepted" THEN ~closed /\ queue' = Append(queue, r) ELSE queue' = queue
    BY DEF Handler, Arrive, Lookup, Resolve, ReadDisabled, ReadFatal, Submit, Goto, HandlerState
  <1>2. /\ conn[r] \in {"client", "arrived", "lookup", "known", "enabled", "checked"}
        /\ conn[r] = "client" => main \in {"serving", "http"} \/ unwaited
        /\ UNCHANGED <<shared, main, built, schema, pools, signalled, unwaited, expired, disabled, fatal, closed,
                       cur, buf, fpc, dpc, replay, rows, landed, dropped, resid, unsaved, faults>>
    BY DEF Handler, Arrive, Lookup, Resolve, ReadDisabled, ReadFatal, Submit, Goto, phases, boot, flusher, drainer, stores
  <1>3. conn \in [Request -> HandlerState]
    BY DEF IndInv, Typed
  <1>4. \A s \in Request : conn'[s] = (IF s = r THEN to ELSE conn[s])
    BY <1>1, <1>3
  <1>5. Launched
    BY <1>2 DEF IndInv, BootOK
  <1>6. Typed'
    BY <1>1, <1>2, <1>3 DEF IndInv, Typed
  <1>7. BootOK'
    BY <1>2, <1>5 DEF IndInv, BootOK, Launched
  <1>8. HandlersOK'
    <2>1. main \notin {"build", "serving", "http"} => unwaited
      BY <1>2 DEF IndInv, HandlersOK, InHandler
    <2>2. (\E s \in Request : conn'[s] = "panicked") => unwaited
      BY <1>1, <1>4, <2>1 DEF IndInv, HandlersOK
    <2>3. "pg" \notin pools => \A s \in Request : conn'[s] # "lookup"
      BY <1>1, <1>4 DEF IndInv, HandlersOK
    <2> QED BY <1>2, <2>1, <2>2, <2>3 DEF IndInv, HandlersOK
  <1>9. FlusherOK'
    BY <1>1, <1>2 DEF IndInv, FlusherOK, CtxDone
  <1>10. QueueOK' /\ Conserved'
    <2>1. CASE to = "accepted"
      BY <1>1, <1>2, <1>3, <2>1, SendKeeps DEF IndInv
    <2>2. CASE to # "accepted"
      <3>1. \A s \in Request : conn'[s] = "accepted" <=> conn[s] = "accepted"
        BY <1>2, <1>4, <2>2
      <3> QED BY <1>1, <1>2, <2>2, <3>1, KeepEvents DEF IndInv
    <2> QED BY <2>1, <2>2
  <1>11. ReplayOK' /\ CausesOK'
    BY <1>2 DEF IndInv, ReplayOK, CausesOK, Parking, CtxDone
  <1> QED BY <1>6, <1>7, <1>8, <1>9, <1>10, <1>11 DEF IndInv
-----------------------------------------------------------------------------
(* Build *)

\* A step of Build is done.
LEMMA StepDoneInv ==
    ASSUME IndInv, OpenPool \/ Bootstrap \/ Migrate
    PROVE  IndInv'
PROOF
  <1>1. /\ main = "build" /\ built < Len(BuildSteps) /\ built' = built + 1
        /\ UNCHANGED <<shared, main, signalled, unwaited, expired, disabled, fatal, conn, queue, closed,
                       cur, buf, fpc, dpc, replay, rows, landed, dropped, resid, unsaved, faults>>
    BY DEF OpenPool, Bootstrap, Migrate, StepDone, flusher, drainer, stores
  <1>2. built \in 0..7 /\ built + 1 \in 1..7 /\ Len(BuildSteps) = 7
    <2>1. Len(BuildSteps) = 7
      BY Steps
    <2>2. built \in 0..Len(BuildSteps)
      BY DEF IndInv, Typed
    <2> QED BY ONLY <1>1, <2>1, <2>2
  <1>3. /\ schema' \in [Schema -> Version] /\ pools' \subseteq Pool
        /\ pools \subseteq pools' /\ \A d \in Schema : schema[d] = "current" => schema'[d] = "current"
        /\ Due \in Pool => Due \in pools'
        /\ Due \in Schema => schema'[Due] = "current"
    <2>1. schema \in [Schema -> Version] /\ pools \subseteq Pool
      BY DEF IndInv, Typed
    <2>2. Pool \cap Schema = {}
      BY DEF Pool, Schema
    <2>3. CASE OpenPool
      BY <2>1, <2>2, <2>3 DEF OpenPool
    <2>4. CASE Bootstrap
      BY <2>1, <2>4 DEF Bootstrap
    <2>5. CASE Migrate
      BY <2>1, <2>2, <2>5 DEF Migrate, Version
    <2> QED BY <2>3, <2>4, <2>5
  <1>4. Typed'
    BY <1>1, <1>2, <1>3 DEF IndInv, Typed
  <1>5. BootOK'
    <2>1. \A k \in 1..built + 1 : /\ BuildSteps[k] \in Pool => BuildSteps[k] \in pools'
                                  /\ BuildSteps[k] \in Schema => schema'[BuildSteps[k]] = "current"
      <3>1. \A k \in 1..built + 1 : k \in 1..built \/ k = built + 1
        BY <1>2
      <3>2. /\ BuildSteps[built + 1] \in Pool => BuildSteps[built + 1] \in pools'
            /\ BuildSteps[built + 1] \in Schema => schema'[BuildSteps[built + 1]] = "current"
        BY <1>3 DEF Due
      <3>3. \A k \in 1..built : /\ BuildSteps[k] \in Pool => BuildSteps[k] \in pools'
                                /\ BuildSteps[k] \in Schema => schema'[BuildSteps[k]] = "current"
        BY <1>1, <1>3 DEF IndInv, BootOK
      <3> QED BY <3>1, <3>2, <3>3
    <2> QED BY <1>1, <1>2, <2>1 DEF IndInv, BootOK, Launched
  <1>6. HandlersOK'
    BY <1>1, <1>3 DEF IndInv, HandlersOK, InHandler
  <1>7. FlusherOK'
    BY <1>1 DEF IndInv, FlusherOK, CtxDone
  <1>8. QueueOK' /\ Conserved'
    BY <1>1, KeepEvents DEF IndInv
  <1>9. ReplayOK' /\ CausesOK'
    BY <1>1 DEF IndInv, ReplayOK, CausesOK, Parking, CtxDone
  <1> QED BY <1>4, <1>5, <1>6, <1>7, <1>8, <1>9 DEF IndInv

\* Build ends early: nobody has been served.
LEMMA BuildEndsInv ==
    ASSUME IndInv, ConfigInvalid \/ BuildFails
    PROVE  IndInv'
PROOF
  <1>1. /\ main = "build" /\ main' \in {"close", "exited"} /\ (main' = "exited" => built = 0)
        /\ UNCHANGED <<shared, built, pools, signalled, unwaited, expired, disabled, fatal, conn, queue, closed,
                       cur, buf, fpc, dpc, replay, rows, landed, dropped, resid, unsaved>>
    BY DEF ConfigInvalid, BuildFails, boot, flusher, drainer, stores
  <1>2. /\ schema' \in [Schema -> Version] /\ faults' \in 0..MaxFaults /\ faults' >= faults /\ faults \in Nat
    BY ShutdownAssumption DEF ConfigInvalid, BuildFails, Fault, boot, IndInv, Typed, Version
  <1>3. Typed'
    BY <1>1, <1>2 DEF IndInv, Typed
  <1>4. ~Launched /\ \A r \in Request : conn[r] = "client"
    BY <1>1 DEF IndInv, BootOK
  <1>5. BootOK'
    BY <1>1, <1>4 DEF IndInv, BootOK, Launched
  <1>6. HandlersOK'
    BY <1>1, <1>4 DEF IndInv, HandlersOK, InHandler
  <1>7. FlusherOK'
    BY <1>1 DEF IndInv, FlusherOK, CtxDone
  <1>8. QueueOK' /\ Conserved'
    BY <1>1, KeepEvents DEF IndInv
  <1>9. faults' \in Nat
    BY <1>2
  <1>10. CausesOK'
    BY <1>1, <1>2, <1>9, KeepCauses DEF IndInv, Parking, CtxDone
  <1>11. ReplayOK'
    BY <1>1 DEF IndInv, ReplayOK
  <1> QED BY <1>3, <1>5, <1>6, <1>7, <1>8, <1>10, <1>11 DEF IndInv

\* The goroutines start on open pools and current schemas.
LEMMA LaunchInv ==
    ASSUME IndInv, Launch
    PROVE  IndInv'
PROOF
  <1>1. /\ main = "build" /\ built = 7 /\ main' = "serving" /\ fpc' = "select" /\ dpc' = "idle"
        /\ UNCHANGED <<shared, built, schema, pools, signalled, unwaited, expired, disabled, fatal, conn, queue, closed,
                       cur, buf, replay, rows, landed, dropped, resid, unsaved, faults>>
    BY Steps DEF Launch, boot, stores
  <1>2. Typed'
    BY <1>1 DEF IndInv, Typed
  <1>3. \A k \in 1..7 : /\ BuildSteps[k] \in Pool => BuildSteps[k] \in pools
                        /\ BuildSteps[k] \in Schema => schema[BuildSteps[k]] = "current"
    BY <1>1 DEF IndInv, BootOK
  <1>4. {"pg", "admin", "readonly"} \subseteq pools /\ schema["pg schema"] = "current" /\ schema["ch schema"] = "current"
    <2>1. "pg" \in Pool /\ "admin" \in Pool /\ "readonly" \in Pool /\ "pg schema" \in Schema /\ "ch schema" \in Schema
      BY DEF Pool, Schema
    <2>2. /\ BuildSteps[1] = "pg" /\ BuildSteps[2] = "pg schema" /\ BuildSteps[4] = "admin"
          /\ BuildSteps[6] = "ch schema" /\ BuildSteps[7] = "readonly"
      BY Steps
    <2>3. 1 \in 1..7 /\ 2 \in 1..7 /\ 4 \in 1..7 /\ 6 \in 1..7 /\ 7 \in 1..7
      OBVIOUS
    <2>4. "pg" \in pools /\ "admin" \in pools /\ "readonly" \in pools
      BY <1>3, <2>1, <2>2, <2>3
    <2>5. schema["pg schema"] = "current" /\ schema["ch schema"] = "current"
      BY <1>3, <2>1, <2>2, <2>3
    <2> QED BY <2>4, <2>5
  <1>5. pools = Pool /\ schema = [d \in Schema |-> "current"]
    BY <1>4 DEF IndInv, Typed, Pool, Schema
  <1>6. BootOK'
    BY <1>1, <1>5 DEF BootOK, Launched
  <1>7. HandlersOK'
    BY <1>1 DEF IndInv, HandlersOK, InHandler
  <1>8. FlusherOK'
    BY <1>1 DEF IndInv, BootOK, FlusherOK, CtxDone
  <1>9. QueueOK' /\ Conserved'
    BY <1>1, KeepEvents DEF IndInv
  <1>10. CausesOK'
    BY <1>1 DEF IndInv, CausesOK, Parking, CtxDone
  <1>11. ReplayOK'
    BY <1>1 DEF IndInv, BootOK, Launched, ReplayOK
  <1> QED BY <1>2, <1>6, <1>7, <1>8, <1>9, <1>10, <1>11 DEF IndInv
-----------------------------------------------------------------------------
(* App.Run *)

\* The main goroutine goes through its phases: it waits for the handlers, or
\* notes that it did not; for the goroutines, or notes that the grace ran out.
LEMMA PhasesInv ==
    ASSUME IndInv,
           Sigterm \/ Phase1 \/ Phase2 \/ ListenFails \/ Phase3 \/ GoroutinesDone \/ GraceExpires \/ Exit
    PROVE  IndInv'
PROOF
  <1>1. UNCHANGED <<shared, built, schema, pools, fatal, conn, queue, cur, buf, fpc, dpc, replay, rows, landed,
                    dropped, resid, unsaved, faults>>
    BY DEF Sigterm, Phase1, Phase2, ListenFails, Phase3, GoroutinesDone, GraceExpires, Exit, boot, flusher, drainer, stores
  <1>2. \/ main' = main /\ UNCHANGED <<unwaited, expired, closed>>
        \/ main = "serving" /\ main' = "http" /\ UNCHANGED <<unwaited, expired, closed>>
        \/ main = "http" /\ main' = "ingest" /\ UNCHANGED <<expired, closed>>
              /\ (unwaited' = TRUE \/ (InHandler = {} /\ UNCHANGED unwaited))
        \/ main = "serving" /\ main' = "ingest" /\ unwaited' = TRUE /\ UNCHANGED <<expired, closed>>
        \/ main = "ingest" /\ main' = "wait" /\ closed' = TRUE /\ UNCHANGED <<unwaited, expired>>
        \/ /\ main = "wait" /\ main' = "close" /\ fpc = "stopped" /\ dpc = "stopped"
           /\ UNCHANGED <<unwaited, expired, closed>>
        \/ main = "wait" /\ main' = "residual" /\ expired' = TRUE /\ UNCHANGED <<unwaited, closed>>
        \/ main = "close" /\ main' = "exited" /\ pools = {} /\ UNCHANGED <<unwaited, expired, closed>>
    BY DEF Sigterm, Phase1, Phase2, ListenFails, Phase3, GoroutinesDone, GraceExpires, Exit
  <1>3. /\ signalled' \in {signalled, TRUE} /\ disabled' \in {disabled, TRUE}
    BY DEF Sigterm, Phase1, Phase2, ListenFails, Phase3, GoroutinesDone, GraceExpires, Exit
  <1>4. /\ main \in {"build", "serving", "http", "ingest", "wait", "residual", "close", "exited"}
        /\ {shared, signalled, unwaited, expired, disabled, fatal, closed} \subseteq BOOLEAN
    BY DEF IndInv, Typed
  <1>5. Typed'
    <2>1. main' \in {"build", "serving", "http", "ingest", "wait", "residual", "close", "exited"}
      BY <1>2, <1>4
    <2>2. signalled' \in BOOLEAN /\ disabled' \in BOOLEAN
      BY <1>3, <1>4
    <2>3. unwaited' \in BOOLEAN /\ expired' \in BOOLEAN /\ closed' \in BOOLEAN
      BY <1>2, <1>4
    <2> QED BY <1>1, <2>1, <2>2, <2>3 DEF IndInv, Typed
  <1>6. BootOK'
    <2>1. main \notin {"build", "close", "exited"} \/ unwaited' = unwaited
      BY <1>2
    <2> QED BY <1>1, <1>2, <2>1 DEF IndInv, BootOK, Launched
  <1>7. HandlersOK'
    <2>1. InHandler' = InHandler
      BY <1>1 DEF InHandler
    <2>2. unwaited => unwaited'
      BY <1>2
    <2>3. closed' => main' \in {"wait", "residual", "close", "exited"}
      BY <1>2 DEF IndInv, HandlersOK
    <2>4. main' \notin {"build", "serving", "http"} => unwaited' \/ InHandler = {}
      BY <1>2, <2>2 DEF IndInv, HandlersOK
    <2> QED BY <1>1, <2>1, <2>2, <2>3, <2>4 DEF IndInv, HandlersOK
  <1>8. FlusherOK'
    <2>1. CtxDone => CtxDone'
      BY <1>1, <1>3 DEF CtxDone
    <2>2. closed => closed'
      BY <1>2
    <2>3. resid = {}  \/ main' = "residual"
      BY <1>2 DEF IndInv, FlusherOK
    <2> QED BY <1>1, <2>1, <2>2, <2>3 DEF IndInv, FlusherOK
  <1>9. QueueOK' /\ Conserved'
    BY <1>1, KeepEvents DEF IndInv
  <1>10. ReplayOK'
    BY <1>1 DEF IndInv, ReplayOK
  <1>11. CausesOK'
    <2>1. CtxDone => CtxDone'
      BY <1>1, <1>3 DEF CtxDone
    <2>2. expired => expired'
      BY <1>2
    <2> QED BY <1>1, <2>1, <2>2 DEF IndInv, CausesOK, Parking
  <1> QED BY <1>5, <1>6, <1>7, <1>8, <1>9, <1>10, <1>11 DEF IndInv

\* The capture empties the channel while the flusher may still take from it.
LEMMA ResidualInv ==
    ASSUME IndInv, ResidualTake \/ ResidualWrite
    PROVE  IndInv'
PROOF
  <1>1. QueueOK' /\ Conserved'
    BY ResidualTakeKeeps, ResidualWriteKeeps
  <1>2. /\ main = "residual"
        /\ UNCHANGED <<shared, built, schema, pools, signalled, unwaited, expired, disabled, fatal, conn, closed,
                       cur, buf, fpc, dpc, replay, landed, dropped>>
        /\ main' = main \/ (main' = "close" /\ resid' = {})
        /\ queue' = queue \/ queue # <<>>
    BY DEF ResidualTake, ResidualWrite, phases, boot, flusher, drainer, stores
  <1>3. faults' \in 0..MaxFaults /\ faults' >= faults /\ faults \in Nat
    BY ShutdownAssumption DEF ResidualTake, ResidualWrite, Fault, stores, IndInv, Typed
  <1>4. Typed'
    BY <1>2, <1>3 DEF IndInv, Typed
  <1>5. Launched /\ expired
    BY <1>2 DEF IndInv, BootOK, Typed
  <1>6. BootOK'
    BY <1>2, <1>5 DEF IndInv, BootOK, Launched
  <1>7. HandlersOK'
    BY <1>2 DEF IndInv, HandlersOK, InHandler
  <1>8. FlusherOK'
    BY <1>2 DEF IndInv, FlusherOK, CtxDone
  <1>9. ReplayOK'
    BY <1>2 DEF IndInv, ReplayOK
  <1>10. CausesOK'
    <2>1. unsaved' # {} => unsaved' \cap Unparkable # {} \/ faults' >= 1
      <3>1. \/ unsaved' = unsaved
            \/ unsaved' = unsaved \cup resid /\ (resid \cap Unparkable # {} \/ faults' = faults + 1)
        BY DEF ResidualTake, ResidualWrite, Fault, stores
      <3>2. unsaved # {} => unsaved \cap Unparkable # {} \/ faults >= 1
        BY DEF IndInv, CausesOK
      <3>3. faults \in Nat /\ faults' \in Int /\ faults' >= faults
        BY <1>3
      <3> QED BY <3>1, <3>2, <3>3
    <2> QED BY <1>2, <1>5, <2>1 DEF CausesOK
  <1> QED BY <1>1, <1>4, <1>6, <1>7, <1>8, <1>9, <1>10 DEF IndInv

\* A pool is closed when the goroutines have been waited for, the Postgres pool
\* when no handler has its connection.
LEMMA CloseInv ==
    ASSUME IndInv, Close
    PROVE  IndInv'
PROOF
  <1>1. /\ main = "close" /\ pools' \subseteq pools
        /\ "pg" \notin pools' => "pg" \notin pools \/ \A r \in Request : conn[r] # "lookup"
        /\ UNCHANGED <<shared, main, built, schema, signalled, unwaited, expired, disabled, fatal, conn, queue, closed,
                       cur, buf, fpc, dpc, replay, rows, landed, dropped, resid, unsaved, faults>>
    BY DEF Close, flusher, drainer, stores
  <1>2. Typed'
    BY <1>1 DEF IndInv, Typed
  <1>3. BootOK'
    BY <1>1 DEF IndInv, BootOK, Launched
  <1>4. HandlersOK'
    BY <1>1 DEF IndInv, HandlersOK, InHandler
  <1>5. FlusherOK'
    BY <1>1 DEF IndInv, FlusherOK, CtxDone
  <1>6. QueueOK' /\ Conserved'
    BY <1>1, KeepEvents DEF IndInv
  <1>7. ReplayOK' /\ CausesOK'
    BY <1>1 DEF IndInv, ReplayOK, CausesOK, Parking, CtxDone
  <1> QED BY <1>2, <1>3, <1>4, <1>5, <1>6, <1>7 DEF IndInv
-----------------------------------------------------------------------------
(* The goroutines *)

\* While the grace lasts, a flusher's calls reach both databases unless the
\* context is done.
LEMMA PoolsOpen ==
    ASSUME IndInv, Running, fpc \notin {"unstarted", "stopped"}
    PROVE  expired \/ CtxDone \/ (Reaches("admin") /\ Reaches("pg"))
PROOF
  <1>1. expired \/ main \in {"serving", "http", "ingest", "wait", "residual"}
    BY DEF IndInv, Typed, BootOK, Launched, Running
  <1> QED BY <1>1 DEF IndInv, BootOK, Reaches, Pool

\* What the flusher gives up has cost its two calls, where they could succeed.
LEMMA FlushCauses ==
    ASSUME IndInv, FlushInsert \/ FlushDLQ
    PROVE  /\ CausesOK'
           /\ faults' \in 0..MaxFaults
PROOF
  <1>1. /\ Running /\ fpc \in {"flush", "lastflush", "park", "lastpark"}
        /\ UNCHANGED <<shared, signalled, expired, unsaved>>
    BY DEF FlushInsert, FlushDLQ, Flushing, Parking, phases
  <1>2. expired \/ CtxDone \/ (Reaches("admin") /\ Reaches("pg"))
    BY <1>1, PoolsOpen
  <1>3. faults \in Nat /\ faults <= MaxFaults /\ MaxFaults \in Nat
    BY ShutdownAssumption DEF IndInv, Typed
  <1>4. (CtxDone' <=> CtxDone) /\ (expired' <=> expired)
    BY <1>1 DEF CtxDone
  <1>5. CASE FlushInsert
    <2>1. /\ dropped' = dropped
          /\ \/ faults' = faults /\ fpc' \notin {"park", "lastpark"}
             \/ Fails("admin")
      BY <1>5 DEF FlushInsert, BatchDone
    <2>2. CASE faults' = faults /\ fpc' \notin {"park", "lastpark"}
      BY <1>1, <1>3, <1>4, <2>1, <2>2 DEF IndInv, CausesOK, Parking
    <2>3. CASE Fails("admin")
      <3>1. \/ faults' = faults /\ (expired \/ CtxDone)
            \/ faults' = faults + 1 /\ faults < MaxFaults
        BY <1>2, <2>3 DEF Fails, Fault
      <3> QED BY <1>1, <1>3, <1>4, <2>1, <3>1 DEF IndInv, CausesOK, Parking
    <2> QED BY <2>1, <2>2, <2>3
  <1>6. CASE FlushDLQ
    <2>1. fpc' \notin {"park", "lastpark"} /\ Parking
      BY <1>6 DEF FlushDLQ, BatchDone
    <2>2. CtxDone \/ expired \/ faults >= 1
      BY <2>1 DEF IndInv, CausesOK
    <2>3. \/ dropped' = dropped /\ faults' = faults
          \/ dropped' = dropped \cup buf /\ buf \cap Unparkable # {} /\ faults' = faults
          \/ dropped' = dropped \cup buf /\ Fails("pg")
      BY <1>6 DEF FlushDLQ
    <2>4. CASE dropped' = dropped /\ faults' = faults
      BY <1>1, <1>3, <1>4, <2>1, <2>4 DEF IndInv, CausesOK, Parking
    <2>5. CASE dropped' = dropped \cup buf /\ buf \cap Unparkable # {} /\ faults' = faults
      <3>1. dropped' \cap Unparkable # {}
        BY <2>5
      <3> QED BY <1>1, <1>3, <1>4, <2>1, <2>2, <2>5, <3>1 DEF IndInv, CausesOK, Parking
    <2>6. CASE Fails("pg")
      <3>1. \/ faults' = faults /\ (expired \/ CtxDone)
            \/ faults' = faults + 1 /\ faults < MaxFaults
        BY <1>2, <2>6 DEF Fails, Fault
      <3>2. unsaved # {} => expired /\ (unsaved \cap Unparkable # {} \/ faults' >= 1)
        BY <1>3, <3>1 DEF IndInv, CausesOK
      <3>3. faults' \in 0..MaxFaults
        BY <1>3, <3>1
      <3> QED BY <1>1, <1>3, <1>4, <2>1, <2>2, <3>1, <3>2, <3>3 DEF CausesOK, Parking
    <2> QED BY <2>3, <2>4, <2>5, <2>6
  <1> QED BY <1>5, <1>6

\* The flusher stops at its select, with nothing in hand but its buffer, which
\* a last flush empties.
LEMMA FlusherInv ==
    ASSUME IndInv, Flusher
    PROVE  IndInv'
PROOF
  <1>1. QueueOK' /\ Conserved'
    <2>1. CASE Tick \/ Stop
      BY <2>1, KeepEvents DEF IndInv, Tick, Stop, stores
    <2> QED BY <2>1, ReceiveEvents, AppendKeeps, FlushInsertKeeps, FlushDLQKeeps DEF Flusher
  <1>2. /\ main # "exited" /\ fpc \in {"select", "append", "flush", "lastflush", "park", "lastpark"}
        /\ UNCHANGED <<shared, main, built, schema, pools, signalled, unwaited, expired, disabled, conn, closed,
                       dpc, replay, resid, unsaved>>
        /\ queue' = queue \/ queue # <<>>
    BY DEF Flusher, Receive, AppendEvents, Tick, Stop, FlushInsert, FlushDLQ, Flushing, Parking, Running, phases, boot,
           drainer, stores
  <1>3. /\ fpc' \in {"select", "append", "flush", "lastflush", "park", "lastpark", "stopped"}
        /\ fatal' \in {fatal, TRUE, FALSE}
    BY DEF Flusher, Receive, AppendEvents, Tick, Stop, FlushInsert, FlushDLQ, BatchDone
  <1>4. CausesOK' /\ faults' \in 0..MaxFaults
    <2>1. CASE FlushInsert \/ FlushDLQ
      BY <2>1, FlushCauses
    <2>2. CASE Receive \/ AppendEvents \/ Tick \/ Stop
      <3>1. UNCHANGED <<faults, dropped>> /\ fpc' \notin {"park", "lastpark"}
        BY <2>2 DEF Receive, AppendEvents, Tick, Stop, stores
      <3> QED BY <1>2, <3>1 DEF IndInv, Typed, CausesOK, Parking, CtxDone
    <2> QED BY <2>1, <2>2 DEF Flusher
  <1>5. Typed'
    BY <1>2, <1>3, <1>4 DEF IndInv, Typed
  <1>6. Launched
    BY <1>2 DEF Launched
  <1>7. BootOK'
    BY <1>2, <1>3, <1>6 DEF IndInv, BootOK, Launched
  <1>8. HandlersOK'
    BY <1>2 DEF IndInv, HandlersOK, InHandler
  <1>9. FlusherOK'
    <2>1. CASE Receive
      BY <2>1 DEF Receive, phases, stores, IndInv, FlusherOK
    <2>2. CASE AppendEvents
      BY <2>2 DEF AppendEvents, phases, IndInv, FlusherOK
    <2>3. CASE Tick
      BY <2>3 DEF Tick, phases, IndInv, FlusherOK
    <2>4. CASE Stop
      BY <2>4 DEF Stop, phases, boot, CtxDone, IndInv, FlusherOK
    <2>5. CASE FlushInsert \/ FlushDLQ
      <3>1. /\ UNCHANGED <<shared, signalled, closed, queue, cur, main, resid>>
            /\ \/ /\ fpc \in {"flush", "lastflush"} /\ buf' = buf
                  /\ fpc' = IF fpc = "flush" THEN "park" ELSE "lastpark"
               \/ fpc \in {"flush", "park"} /\ buf' = {} /\ (fpc' = "append" \/ (fpc' = "select" /\ cur = {}))
               \/ fpc \in {"lastflush", "lastpark"} /\ buf' = {} /\ fpc' = "stopped"
        BY <2>5 DEF FlushInsert, FlushDLQ, BatchDone, Flushing, Parking, phases
      <3> QED BY <3>1 DEF IndInv, FlusherOK, CtxDone
    <2> QED BY <2>1, <2>2, <2>3, <2>4, <2>5 DEF Flusher
  <1>10. ReplayOK'
    <2>1. landed \subseteq landed'
      BY DEF Flusher, Receive, AppendEvents, Tick, Stop, FlushInsert, FlushDLQ, Perhaps, stores
    <2> QED BY <1>2, <2>1 DEF IndInv, ReplayOK
  <1> QED BY <1>1, <1>4, <1>5, <1>7, <1>8, <1>9, <1>10 DEF IndInv

\* The drain goroutine runs from Launch to its stop.
LEMMA DrainerInv ==
    ASSUME IndInv, Drainer
    PROVE  IndInv'
PROOF
  <1>1. QueueOK' /\ Conserved'
    <2>1. CASE DrainStart \/ DrainEnd \/ DrainStop
      BY <2>1, KeepEvents DEF IndInv, DrainStart, DrainEnd, DrainStop, flusher, stores
    <2> QED BY <2>1, DrainInsertKeeps, DrainDeleteKeeps DEF Drainer
  <1>2. /\ main # "exited" /\ dpc \in {"idle", "pass", "delete"} /\ dpc' \in {"idle", "pass", "delete", "stopped"}
        /\ UNCHANGED <<shared, main, built, schema, pools, signalled, unwaited, expired, disabled, conn, queue, closed,
                       cur, buf, fpc, resid, dropped, unsaved>>
        /\ fatal' \in {fatal, FALSE}
    BY DEF Drainer, DrainStart, DrainInsert, DrainDelete, DrainEnd, DrainStop, Running, phases, boot, flusher, drainer,
           stores
  <1>3. /\ faults \in 0..MaxFaults /\ MaxFaults \in Nat /\ faults \in Nat
        /\ faults' \in 0..MaxFaults /\ faults' \in Nat /\ faults' >= faults
    <2>1. faults \in 0..MaxFaults /\ MaxFaults \in Nat
      BY ShutdownAssumption DEF IndInv, Typed
    <2>2. faults' = faults \/ (faults < MaxFaults /\ faults' = faults + 1)
      BY DEF Drainer, DrainStart, DrainInsert, DrainDelete, DrainEnd, DrainStop, Fails, Fault
    <2> QED BY <2>1, <2>2
  <1>4. Typed'
    BY <1>2, <1>3 DEF IndInv, Typed
  <1>5. BootOK'
    BY <1>2 DEF IndInv, BootOK, Launched
  <1>6. HandlersOK'
    BY <1>2 DEF IndInv, HandlersOK, InHandler
  <1>7. FlusherOK'
    BY <1>2 DEF IndInv, FlusherOK, CtxDone
  <1>8. ReplayOK'
    <2>1. CASE DrainStart \/ DrainEnd \/ DrainStop
      BY <2>1 DEF IndInv, ReplayOK, DrainStart, DrainEnd, DrainStop, stores
    <2>2. CASE DrainDelete
      BY <2>2 DEF DrainDelete, ReplayOK
    <2> QED BY <2>1, <2>2, DrainInsertKeeps DEF Drainer
  <1>9. CausesOK'
    BY <1>2, <1>3, KeepCauses DEF IndInv, Parking, CtxDone
  <1> QED BY <1>1, <1>4, <1>5, <1>6, <1>7, <1>8, <1>9 DEF IndInv
-----------------------------------------------------------------------------
LEMMA InitInv == Init => IndInv
PROOF
  <1> SUFFICES ASSUME Init
               PROVE  IndInv
    OBVIOUS
  <1>1. Typed
    <2>1. schema \in [Schema -> Version] /\ pools \subseteq Pool
      BY DEF Init
    <2>2. conn \in [Request -> HandlerState]
      BY DEF Init, HandlerState
    <2>3. built \in 0..Len(BuildSteps)
      <3>1. Len(BuildSteps) = 7 /\ built = 0
        BY Steps DEF Init
      <3> QED BY ONLY <3>1
    <2>4. faults \in 0..MaxFaults
      BY ShutdownAssumption DEF Init
    <2> QED BY <2>1, <2>2, <2>3, <2>4 DEF Init, Typed
  <1>2. BootOK /\ FlusherOK
    BY DEF Init, BootOK, FlusherOK, Launched
  <1>3. HandlersOK
    BY DEF Init, HandlersOK, InHandler
  <1>4. QueueOK
    BY DEF Init, QueueOK
  <1>5. Conserved
    <2>1. {r \in Request : conn[r] = "accepted" /\ r \notin Queued} = {} /\ Parked = {}
      BY DEF Init, Parked
    <2>2. Taken = {}
      BY <2>1 DEF Taken, EventsIn
    <2> QED BY <2>1, <2>2 DEF Init, Conserved
  <1>6. ReplayOK /\ CausesOK
    BY DEF Init, ReplayOK, CausesOK, Parking
  <1> QED BY <1>1, <1>2, <1>3, <1>4, <1>5, <1>6 DEF IndInv

\* Every step keeps the invariant.
LEMMA NextInv == IndInv /\ [Next]_vars => IndInv'
PROOF
  <1> SUFFICES ASSUME IndInv, [Next]_vars
               PROVE  IndInv'
    OBVIOUS
  <1>1. CASE UNCHANGED vars
    <2>1. UNCHANGED <<shared, main, built, schema, pools, signalled, unwaited, expired, disabled, fatal, conn, queue,
                      closed, cur, buf, fpc, dpc, replay, rows, landed, dropped, resid, unsaved, faults>>
      BY <1>1 DEF vars
    <2>2. QueueOK' /\ Conserved'
      BY <2>1, KeepEvents DEF IndInv
    <2>3. Typed' /\ BootOK' /\ HandlersOK' /\ FlusherOK'
      BY <2>1 DEF IndInv, Typed, BootOK, Launched, HandlersOK, InHandler, FlusherOK, CtxDone
    <2>4. ReplayOK' /\ CausesOK'
      BY <2>1 DEF IndInv, ReplayOK, CausesOK, Parking, CtxDone
    <2> QED BY <2>2, <2>3, <2>4 DEF IndInv
  <1>2. ASSUME NEW r \in Request, Handler(r)
        PROVE  IndInv'
    BY <1>2, HandlerInv
  <1>3. CASE Build
    BY <1>3, StepDoneInv, BuildEndsInv, LaunchInv DEF Build
  <1>4. CASE Phase1 \/ Phase2 \/ Phase3 \/ GoroutinesDone \/ GraceExpires \/ Exit \/ Sigterm \/ ListenFails
    BY <1>4, PhasesInv
  <1>5. CASE ResidualTake \/ ResidualWrite \/ Close
    BY <1>5, ResidualInv, CloseInv
  <1>6. CASE Flusher \/ Drainer
    BY <1>6, FlusherInv, DrainerInv
  <1> QED BY <1>1, <1>2, <1>3, <1>4, <1>5, <1>6 DEF Next, Main

LEMMA SpecInv == Spec => []IndInv
PROOF
  <1> QED BY InitInv, NextInv, PTL DEF Spec

\* Every variable keeps its type, and the flusher's hands are empty where they
\* have to be.
THEOREM TypeCorrect == Spec => []TypeOK
PROOF
  <1>1. IndInv => TypeOK
    <2> SUFFICES ASSUME IndInv PROVE TypeOK
      OBVIOUS
    <2>1. Taken \subseteq Event
      BY Carried DEF Taken
    <2>2. /\ Parked \subseteq Event /\ landed \subseteq Event /\ dropped \subseteq Event
          /\ resid \subseteq Event /\ cur \subseteq Event /\ buf \subseteq Event /\ unsaved \subseteq Event
          /\ replay \subseteq Event
      BY <2>1 DEF IndInv, Conserved, ReplayOK
    <2>3. rows \subseteq SUBSET Event
      BY <2>2 DEF Parked
    <2> QED BY <2>2, <2>3 DEF IndInv, Typed, QueueOK, FlusherOK, ReplayOK, TypeOK
  <1> QED BY SpecInv, <1>1, PTL

\* At most one of the channel, the flusher, the residual capture and the rows
\* has an event to insert, for any number of handlers.
THEOREM OneOwnerEach == Spec => []OneOwner
PROOF
  <1>1. IndInv => OneOwner
    <2> SUFFICES ASSUME IndInv PROVE OneOwner
      OBVIOUS
    <2> DEFINE places == [queue |-> EventsIn(Queued), cur |-> cur, buf |-> buf, resid |-> resid, rows |-> Parked]
    <2>1. EventsIn(Queued) \cap Taken = {}
      <3>1. Queued \in SUBSET Request
        BY QueuedRequests DEF IndInv
      <3>2. {r \in Request : conn[r] = "accepted" /\ r \notin Queued} \cap Queued = {}
        OBVIOUS
      <3> QED BY <3>1, <3>2, Carried DEF Taken
    <2>2. DOMAIN places = {"queue", "cur", "buf", "resid", "rows"}
      OBVIOUS
    <2>3. /\ places["queue"] = EventsIn(Queued) /\ places["cur"] = cur /\ places["buf"] = buf
          /\ places["resid"] = resid /\ places["rows"] = Parked
      OBVIOUS
    <2> HIDE DEF places
    <2>4. \A p, q \in DOMAIN places : p # q => places[p] \cap places[q] = {}
      BY <2>1, <2>2, <2>3 DEF IndInv, Conserved
    <2> QED BY <2>4 DEF IndInv, Conserved, OneOwner, places
  <1> QED BY SpecInv, <1>1, PTL

\* The channel, and the pools, are closed when nobody uses them any more, or
\* when whoever did was given up waiting for.
THEOREM ClosedQuietly == Spec => []ClosedOnlyWhenQuiet
PROOF
  <1>1. IndInv => ClosedOnlyWhenQuiet
    BY DEF IndInv, Typed, BootOK, Launched, HandlersOK, ClosedOnlyWhenQuiet
  <1> QED BY SpecInv, <1>1, PTL

\* Only a process with both schemas current serves, and one that ends has
\* closed its pools.
THEOREM ReadyServes == Spec => []ServesOnlyReady
PROOF
  <1>1. IndInv => ServesOnlyReady
    BY DEF IndInv, BootOK, Launched, ServesOnlyReady
  <1> QED BY SpecInv, <1>1, PTL

\* A process that ends has every accepted event in a database, or lost to one
\* of the causes named, which cost the failed calls they say.
THEOREM ExitAccounts == Spec => []ExitAccountsForAll
PROOF
  <1>1. IndInv => ExitAccountsForAll
    <2> SUFFICES ASSUME IndInv, main = "exited"
                 PROVE  /\ Sent \subseteq landed \cup Parked \cup dropped \cup unsaved
                                          \cup (IF expired THEN cur \cup buf ELSE {})
                                          \cup (IF expired \/ CtxDone THEN EventsIn(Queued) ELSE {})
                        /\ dropped # {} => CtxDone \/ expired \/ faults >= IF dropped \cap Unparkable = {} THEN 2 ELSE 1
                        /\ unsaved # {} => expired /\ (unsaved \cap Unparkable # {} \/ faults >= 1)
      BY DEF ExitAccountsForAll
    <2>1. Sent \subseteq Taken \cup EventsIn(Queued)
      BY DEF Sent, Taken, EventsIn
    <2>2. resid = {}
      BY DEF IndInv, FlusherOK
    <2>3. ~expired => cur = {} /\ buf = {} /\ (CtxDone \/ queue = <<>>)
      BY DEF IndInv, BootOK, FlusherOK
    <2>4. ~expired /\ ~CtxDone => EventsIn(Queued) = {}
      <3>1. ~expired /\ ~CtxDone => Queued = {}
        BY <2>3 DEF Queued
      <3> QED BY <3>1 DEF EventsIn
    <2>5. Sent \subseteq landed \cup Parked \cup dropped \cup unsaved
                        \cup (IF expired THEN cur \cup buf ELSE {})
                        \cup (IF expired \/ CtxDone THEN EventsIn(Queued) ELSE {})
      BY <2>1, <2>2, <2>3, <2>4 DEF IndInv, Conserved
    <2> QED BY <2>5 DEF IndInv, CausesOK
  <1> QED BY SpecInv, <1>1, PTL
=============================================================================
