------------------------ MODULE IngestDeliveryProofs ------------------------
(***************************************************************************)
(* IngestPipeline implements EventDelivery, for any number of processes    *)
(* that share the databases; and a process that is alone with them meters  *)
(* no event twice, and inserts one again only from the dead-letter queue.  *)
(*                                                                         *)
(* Both rest on where an event can be: it is in one place at a time.  The  *)
(* channel, the envelope in hand and the buffer of a process share no      *)
(* event with each other, with another process or with a row of            *)
(* failed_events, and no two rows share one.                               *)
(***************************************************************************)
EXTENDS IngestPipelineProofs

\* A batch is taken once: a handler that has not submitted it yet is the only
\* one that may.
SubmittedOnce ==
    \A r \in Request : \A i \in Instance :
        r \in handlers[i] => r \notin accepted /\ \A j \in Instance : r \in handlers[j] => j = i

\* A process has an envelope in its channel once, accepted; its channel, the
\* envelope in hand and its buffer share nothing.
Apart(i) ==
    /\ \A a, b \in 1..Len(queue[i]) : queue[i][a] = queue[i][b] => a = b
    /\ Queued(i) \subseteq accepted
    /\ EventsIn(Queued(i)) \cap (cur[i] \cup buf[i]) = {}
    /\ cur[i] \cap buf[i] = {}

\* Two processes share nothing.
ProcessesApart ==
    \A i, j \in Instance : j # i => Held(i) \cap Held(j) = {}

\* Rows share nothing with each other or with a process.
RowsApart ==
    \A k \in RowId :
        /\ table[k].status = "none" => table[k].events = {}
        /\ \A l \in RowId : l # k => table[k].events \cap table[l].events = {}
        /\ \A i \in Instance : Held(i) \cap table[k].events = {}

\* No place has an event that was not accepted.
OnlySent ==
    /\ \A i \in Instance : Held(i) \subseteq Sent
    /\ \A k \in RowId : table[k].events \subseteq Sent
    /\ Landed \subseteq Sent

DeletedIsLanded ==
    \A k \in RowId : table[k].status = "deleted" => table[k].events \subseteq Landed

Places ==
    /\ SubmittedOnce
    /\ \A i \in Instance : Apart(i)
    /\ ProcessesApart
    /\ RowsApart
    /\ OnlySent
    /\ DeletedIsLanded
-----------------------------------------------------------------------------
(* What the steps do to the memory of a process *)

\* Requests that were not accepted are apart from those that were.
LEMMA NotSent ==
    ASSUME NEW r \in Request, r \notin accepted, accepted \in SUBSET Request
    PROVE  EventsOf[r] \cap Sent = {}
BY BatchAssumption DEF Sent, EventsIn

\* The envelope a flusher receives shares nothing with those left behind.
LEMMA ReceiveApart ==
    ASSUME TypeOK, NEW i \in Instance, Receive(i),
           \A a, b \in 1..Len(queue[i]) : queue[i][a] = queue[i][b] => a = b
    PROVE  /\ Queued(i) = Queued(i)' \cup {Head(queue[i])}
           /\ EventsIn(Queued(i)) = EventsIn(Queued(i)') \cup EventsOf[Head(queue[i])]
           /\ EventsIn(Queued(i)') \cap EventsOf[Head(queue[i])] = {}
           /\ \A a, b \in 1..Len(queue'[i]) : queue'[i][a] = queue'[i][b] => a = b
<1>1. queue[i] \in Seq(Request) /\ queue[i] # <<>> /\ queue'[i] = Tail(queue[i])
  BY DEF Receive, TypeOK
<1>2. Len(queue[i]) \in Nat /\ Len(queue[i]) > 0 /\ Head(queue[i]) = queue[i][1]
  BY <1>1, EmptySeq
<1>3. /\ Len(queue'[i]) = Len(queue[i]) - 1
      /\ \A k \in 1..Len(queue'[i]) : queue'[i][k] = queue[i][k + 1]
  BY <1>1, HeadTailProperties
<1>4. Queued(i) = Queued(i)' \cup {Head(queue[i])}
  <2>1. {queue[i][k] : k \in 1..Len(queue[i])} =
           {Tail(queue[i])[k] : k \in 1..Len(Tail(queue[i]))} \cup {Head(queue[i])}
    BY <1>1, QueueTaken
  <2> QED
    BY <1>1, <2>1 DEF Queued
<1>5. Head(queue[i]) \notin Queued(i)'
  BY <1>2, <1>3 DEF Queued
<1>6. \A q \in Queued(i) : q \in Request
  BY <1>1, ElementOfSeq DEF Queued
<1>7. \A q \in Queued(i)' : EventsOf[q] \cap EventsOf[Head(queue[i])] = {}
  BY <1>4, <1>5, <1>6, BatchAssumption
<1>8. EventsIn(Queued(i)) = EventsIn(Queued(i)') \cup EventsOf[Head(queue[i])]
  BY <1>4 DEF EventsIn
<1>9. EventsIn(Queued(i)') \cap EventsOf[Head(queue[i])] = {}
  BY <1>7 DEF EventsIn
<1>10. ASSUME NEW a \in 1..Len(queue'[i]), NEW b \in 1..Len(queue'[i]), queue'[i][a] = queue'[i][b]
       PROVE  a = b
  <2>1. a + 1 \in 1..Len(queue[i]) /\ b + 1 \in 1..Len(queue[i])
    BY <1>2, <1>3
  <2> QED
    BY <1>3, <1>10, <2>1
<1> QED
  BY <1>4, <1>8, <1>9, <1>10

\* A flusher moves events from place to place; after a batch it holds the rest.
LEMMA FlusherMoves ==
    ASSUME TypeOK, NEW i \in Instance, Apart(i), Flusher(i)
    PROVE  /\ Held(i)' = IF FlushClear(i) \/ FlushDLQ(i) THEN Held(i) \ buf[i] ELSE Held(i)
           /\ Apart(i)'
<1>0. /\ EventsIn(Queued(i)) \cap (cur[i] \cup buf[i]) = {} /\ cur[i] \cap buf[i] = {}
      /\ \A a, b \in 1..Len(queue[i]) : queue[i][a] = queue[i][b] => a = b
      /\ Queued(i) \subseteq accepted
      /\ accepted' = accepted
  BY DEF Apart, Flusher, Receive, AppendEvents, Tick, FlushInsert, FlushMeter, FlushClear, FlushDLQ
<1>1. CASE Receive(i)
  <2>1. cur'[i] = EventsOf[Head(queue[i])] /\ buf'[i] = buf[i] /\ cur[i] = {}
    BY <1>1 DEF Receive, TypeOK
  <2>2. /\ Queued(i) = Queued(i)' \cup {Head(queue[i])}
        /\ EventsIn(Queued(i)) = EventsIn(Queued(i)') \cup EventsOf[Head(queue[i])]
        /\ EventsIn(Queued(i)') \cap EventsOf[Head(queue[i])] = {}
        /\ \A a, b \in 1..Len(queue'[i]) : queue'[i][a] = queue'[i][b] => a = b
    BY <1>0, <1>1, ReceiveApart
  <2>3. ~FlushClear(i) /\ ~FlushDLQ(i)
    BY <1>1 DEF Receive, FlushClear, FlushDLQ
  <2>4. Held(i)' = Held(i)
    BY <2>1, <2>2 DEF Held
  <2> QED
    BY <1>0, <2>1, <2>2, <2>3, <2>4 DEF Apart
<1>2. CASE AppendEvents(i)
  <2>1. /\ queue' = queue /\ cur[i] \cup buf[i] = cur'[i] \cup buf'[i]
        /\ cur'[i] \cap buf'[i] = {}
    BY <1>0, <1>2 DEF AppendEvents, TypeOK
  <2>2. Queued(i)' = Queued(i)
    BY <2>1 DEF Queued
  <2>3. ~FlushClear(i) /\ ~FlushDLQ(i)
    BY <1>2 DEF AppendEvents, FlushClear, FlushDLQ
  <2>4. EventsIn(Queued(i)') = EventsIn(Queued(i))
    BY <2>2 DEF EventsIn
  <2>5. Held(i)' = Held(i)
    BY <2>1, <2>4 DEF Held
  <2> QED
    BY <1>0, <2>1, <2>2, <2>3, <2>4, <2>5 DEF Apart
<1>3. CASE FlushClear(i) \/ FlushDLQ(i)
  <2>1. queue'[i] = queue[i] /\ cur'[i] = cur[i] /\ buf'[i] = {}
    BY <1>3 DEF FlushClear, FlushDLQ, BufferDone, TypeOK
  <2>2. Queued(i)' = Queued(i)
    BY <2>1 DEF Queued
  <2>3. EventsIn(Queued(i)') = EventsIn(Queued(i))
    BY <2>2 DEF EventsIn
  <2>4. Held(i)' = Held(i) \ buf[i]
    BY <1>0, <2>1, <2>3 DEF Held
  <2> QED
    BY <1>0, <1>3, <2>1, <2>2, <2>3, <2>4 DEF Apart
<1>4. CASE Tick(i) \/ FlushInsert(i) \/ FlushMeter(i)
  <2>1. queue' = queue /\ cur' = cur /\ buf' = buf
    BY <1>4 DEF Tick, FlushInsert, FlushMeter, memory
  <2>2. Queued(i)' = Queued(i) /\ Held(i)' = Held(i)
    BY <2>1, HeldSame DEF Queued
  <2>3. EventsIn(Queued(i)') = EventsIn(Queued(i))
    BY <2>2 DEF EventsIn
  <2>4. ~FlushClear(i) /\ ~FlushDLQ(i)
    BY <1>4 DEF Tick, FlushInsert, FlushMeter, FlushClear, FlushDLQ
  <2> QED
    BY <1>0, <2>1, <2>2, <2>3, <2>4 DEF Apart
<1> QED
  BY <1>1, <1>2, <1>3, <1>4 DEF Flusher

\* A request joins the channel.
LEMMA AcceptMoves ==
    ASSUME TypeOK, NEW r \in Request, NEW i \in Instance, Apart(i), Accept(r, i), r \notin accepted,
           Held(i) \subseteq Sent
    PROVE  /\ Held(i)' = Held(i) \cup EventsOf[r]
           /\ Apart(i)'
           /\ Sent' = Sent \cup EventsOf[r]
<1>0. /\ EventsIn(Queued(i)) \cap (cur[i] \cup buf[i]) = {} /\ cur[i] \cap buf[i] = {}
      /\ \A a, b \in 1..Len(queue[i]) : queue[i][a] = queue[i][b] => a = b
      /\ Queued(i) \subseteq accepted
      /\ accepted' = accepted \cup {r}
  BY DEF Apart, Accept
<1>1. queue[i] \in Seq(Request) /\ queue'[i] = Append(queue[i], r) /\ cur' = cur /\ buf' = buf
  BY DEF Accept, TypeOK
<1>2. Queued(i)' = Queued(i) \cup {r}
  <2>1. {Append(queue[i], r)[k] : k \in 1..Len(Append(queue[i], r))} =
           {queue[i][k] : k \in 1..Len(queue[i])} \cup {r}
    BY <1>1, QueueGrown
  <2> QED
    BY <1>1, <2>1 DEF Queued
<1>3. EventsIn(Queued(i)') = EventsIn(Queued(i)) \cup EventsOf[r]
  BY <1>2 DEF EventsIn
<1>4. Held(i)' = Held(i) \cup EventsOf[r]
  BY <1>1, <1>3 DEF Held
<1>5. r \notin Queued(i)
  BY <1>0
<1>6. /\ Len(queue[i]) \in Nat /\ Len(queue'[i]) = Len(queue[i]) + 1
      /\ \A k \in 1..Len(queue[i]) : queue'[i][k] = queue[i][k]
      /\ queue'[i][Len(queue[i]) + 1] = r
  BY <1>1, AppendProperties, LenProperties
<1>7. ASSUME NEW a \in 1..Len(queue'[i]), NEW b \in 1..Len(queue'[i]), queue'[i][a] = queue'[i][b]
      PROVE  a = b
  <2>1. \A k \in 1..Len(queue[i]) : queue'[i][k] # r
    BY <1>5, <1>6 DEF Queued
  <2>2. CASE a \in 1..Len(queue[i]) /\ b \in 1..Len(queue[i])
    BY <1>0, <1>6, <1>7, <2>2
  <2>3. CASE a = Len(queue[i]) + 1 \/ b = Len(queue[i]) + 1
    BY <1>6, <1>7, <2>1, <2>3
  <2> QED
    BY <1>6, <2>2, <2>3
<1>8. Sent' = Sent \cup EventsOf[r]
  BY <1>0 DEF Sent, EventsIn
<1>9. EventsOf[r] \cap (cur[i] \cup buf[i]) = {}
  <2>1. EventsOf[r] \cap Sent = {}
    BY NotSent DEF TypeOK
  <2> QED
    BY <2>1 DEF Held
<1> QED
  BY <1>0, <1>1, <1>2, <1>3, <1>4, <1>7, <1>8, <1>9 DEF Apart

\* A process whose memory a step leaves alone.
LEMMA MemorySame ==
    ASSUME NEW j \in Instance, queue'[j] = queue[j], cur'[j] = cur[j], buf'[j] = buf[j],
           accepted \subseteq accepted'
    PROVE  /\ Held(j)' = Held(j)
           /\ Apart(j) => Apart(j)'
<1>1. Queued(j)' = Queued(j)
  BY DEF Queued
<1>2. EventsIn(Queued(j)') = EventsIn(Queued(j))
  BY <1>1 DEF EventsIn
<1> QED
  BY <1>1, <1>2 DEF Held, Apart

\* A process that restarts holds nothing.
LEMMA MemoryGone ==
    ASSUME NEW i \in Instance, queue'[i] = <<>>, cur'[i] = {}, buf'[i] = {}
    PROVE  Held(i)' = {} /\ Apart(i)'
<1>1. Queued(i)' = {}
  BY EmptySeq DEF Queued
<1>2. EventsIn(Queued(i)') = {}
  BY <1>1 DEF EventsIn
<1>3. \A a, b \in 1..Len(queue'[i]) : queue'[i][a] = queue'[i][b] => a = b
  BY EmptySeq
<1> QED
  BY <1>1, <1>2, <1>3 DEF Held, Apart
-----------------------------------------------------------------------------
(* What the steps do to the rows *)

\* No row is written and the rows keep their events.
RowsSame ==
    \A k \in RowId :
        /\ table'[k].events = table[k].events
        /\ table'[k].status = "none" <=> table[k].status = "none"

\* A step of a drainer writes no row.
LEMMA DrainerRows ==
    ASSUME TypeOK, NEW i \in Instance, Drainer(i)
    PROVE  RowsSame
<1>1. CASE table' = table
  BY <1>1 DEF RowsSame
<1>2. ASSUME Quarantine(i) \/ DrainBump(i) \/ DrainDelete(i), table' # table
      PROVE  RowsSame
  <2>1. Row(i).id \in RowId /\ table[Row(i).id].status # "none"
    BY <1>2, BusyDrainer DEF Quarantine, DrainBump, DrainDelete
  <2>2. \/ \E status \in {"quarantined", "deleted"} : table' = [table EXCEPT ![Row(i).id].status = status]
        \/ table' = [table EXCEPT ![Row(i).id].attempts = @ + 1]
    BY <1>2 DEF Quarantine, DrainBump, DrainDelete
  <2>3. /\ \A l \in RowId : l # Row(i).id => table'[l] = table[l]
        /\ RowKept(Row(i).id)
    BY <2>1, <2>2, RowMarked, RowTried
  <2> QED
    BY <2>1, <2>3 DEF RowsSame, RowKept
<1> QED
  BY <1>1, <1>2 DEF Drainer, List, DrainInsert, DrainMeter, DrainClear, Count

\* Only a flusher that gives up on ClickHouse writes one.
LEMMA RowsStep ==
    ASSUME TypeOK, [Next]_vars
    PROVE  \/ RowsSame
           \/ \E i \in Instance : FlushDLQ(i) /\ InsertRow(buf[i])
<1>1. CASE table' = table
  BY <1>1 DEF RowsSame
<1>2. CASE \E i \in Instance : Drainer(i)
  BY <1>2, DrainerRows
<1>3. CASE \E k \in RowId : Age(k)
  BY <1>3 DEF Age, TypeOK, RowType, RowsSame
<1> QED
  BY <1>1, <1>2, <1>3 DEF Next, Handler, Check, Accept, Refuse, Crash, vars,
     Flusher, Receive, AppendEvents, Tick, FlushInsert, FlushMeter, FlushClear, FlushDLQ

\* What is in ClickHouse after a step was there or was in a batch or a row.
LEMMA LandedStep ==
    ASSUME TypeOK, [Next]_vars
    PROVE  \/ ch' = ch
           \/ \E i \in Instance : FlushInsert(i) /\ ch' = Bump(ch, buf[i])
           \/ \E i \in Instance : DrainInsert(i) /\ ch' = Bump(ch, table[Row(i).id].events)
BY DEF Next, Handler, Check, Accept, Refuse, Crash, Age, vars,
     Flusher, Receive, AppendEvents, Tick, FlushInsert, FlushMeter, FlushClear, FlushDLQ,
     Drainer, List, Quarantine, DrainInsert, DrainBump, DrainDelete, DrainMeter, DrainClear, Count

LEMMA LandedBumped ==
    ASSUME TypeOK, NEW S, ch' = Bump(ch, S)
    PROVE  Landed' = Landed \cup (S \cap Event)
<1>1. ch \in [Event -> Nat]
  BY DEF TypeOK
<1>2. \A e \in Event : ch'[e] = IF e \in S THEN ch[e] + 1 ELSE ch[e]
  BY <1>1, Bumped
<1>3. \A e \in Event : ch[e] \in Nat
  BY <1>1
<1>4. \A e \in Event : ch'[e] > 0 <=> e \in S \/ ch[e] > 0
  BY <1>2, <1>3
<1> QED
  BY <1>4 DEF Landed

\* Nothing lands that was not accepted.
LEMMA LandedSent ==
    ASSUME TypeOK, OnlySent, [Next]_vars, Sent \subseteq Sent'
    PROVE  Landed' \subseteq Sent'
<1>1. CASE ch' = ch
  BY <1>1 DEF OnlySent, Landed
<1>2. ASSUME NEW i \in Instance, ch' = Bump(ch, buf[i]) PROVE Landed' \subseteq Sent'
  <2>1. Landed' = Landed \cup (buf[i] \cap Event)
    BY <1>2, LandedBumped
  <2> QED
    BY <2>1 DEF OnlySent, Held
<1>3. ASSUME NEW i \in Instance, DrainInsert(i), ch' = Bump(ch, table[Row(i).id].events)
      PROVE  Landed' \subseteq Sent'
  <2>1. Row(i).id \in RowId
    BY <1>3, BusyDrainer DEF DrainInsert
  <2>2. Landed' = Landed \cup (table[Row(i).id].events \cap Event)
    BY <1>3, LandedBumped
  <2> QED
    BY <2>1, <2>2 DEF OnlySent
<1> QED
  BY <1>1, <1>2, <1>3, LandedStep

\* A deleted row is one whose events have landed.
LEMMA DeletedStep ==
    ASSUME TypeOK, TypeOK', StoresGrow, RowsSame, DeletedIsLanded
    PROVE  DeletedIsLanded'
<1>1. Landed \subseteq Landed'
  BY LandedGrows
<1>2. ASSUME NEW k \in RowId, table'[k].status = "deleted"
      PROVE  table'[k].events \subseteq Landed'
  <2>1. table'[k].events = table[k].events
    BY DEF RowsSame
  <2>2. table[k].status = "deleted" \/ table[k].events \subseteq Landed
    BY <1>2 DEF StoresGrow, StatusStep
  <2> QED
    BY <1>1, <2>1, <2>2 DEF DeletedIsLanded
<1> QED
  BY <1>2 DEF DeletedIsLanded
-----------------------------------------------------------------------------
(* Every event stays in one place *)

\* A step that lets processes hold less and writes no row.
LEMMA ApartLess ==
    ASSUME TypeOK, Places, RowsSame, accepted' = accepted, Landed' \subseteq Sent',
           \A j \in Instance : Held(j)' \subseteq Held(j)
    PROVE  ProcessesApart' /\ RowsApart' /\ OnlySent'
<1>1. Sent' = Sent
  BY DEF Sent
<1>2. ProcessesApart'
  BY DEF Places, ProcessesApart
<1>3. RowsApart'
  BY DEF Places, RowsApart, RowsSame
<1>4. OnlySent'
  BY <1>1 DEF Places, OnlySent, RowsSame
<1> QED
  BY <1>2, <1>3, <1>4

\* A flusher that parks its batch lets go of it.
LEMMA ApartParked ==
    ASSUME TypeOK, Places, NEW i \in Instance, InsertRow(buf[i]), accepted' = accepted, ch' = ch,
           Held(i)' = Held(i) \ buf[i], \A j \in Instance : j # i => Held(j)' = Held(j)
    PROVE  ProcessesApart' /\ RowsApart' /\ OnlySent' /\ DeletedIsLanded'
<1>1. Sent' = Sent /\ Landed' = Landed
  BY DEF Sent, Landed
<1>2. buf[i] \in SUBSET Event /\ buf[i] \subseteq Held(i) /\ buf[i] \cap Held(i)' = {}
  BY DEF TypeOK, Held
<1>3. PICK k \in RowId : LET row == [status |-> "active", events |-> buf[i], attempts |-> 0, old |-> FALSE] IN
         table[k].status = "none" /\ table' = [table EXCEPT ![k] = row]
  BY <1>2, RowInserted
<1>4. /\ table'[k].status = "active" /\ table'[k].events = buf[i]
      /\ \A l \in RowId : l # k => table'[l] = table[l]
  BY <1>3 DEF TypeOK
<1>5. ProcessesApart'
  BY DEF Places, ProcessesApart
<1>6. RowsApart'
  <2>1. \A l \in RowId : table'[l].status = "none" => table'[l].events = {}
    BY <1>4 DEF Places, RowsApart
  <2>2. \A l, m \in RowId : l # m => table'[l].events \cap table'[m].events = {}
    BY <1>2, <1>4 DEF Places, RowsApart
  <2>3. \A l \in RowId, j \in Instance : Held(j)' \cap table'[l].events = {}
    BY <1>2, <1>4 DEF Places, RowsApart, ProcessesApart
  <2> QED
    BY <2>1, <2>2, <2>3 DEF RowsApart
<1>7. OnlySent'
  BY <1>1, <1>2, <1>4 DEF Places, OnlySent
<1>8. DeletedIsLanded'
  BY <1>1, <1>4 DEF Places, DeletedIsLanded
<1> QED
  BY <1>5, <1>6, <1>7, <1>8

\* A request that is accepted is new everywhere.
LEMMA ApartAccepted ==
    ASSUME TypeOK, Places, NEW r \in Request, NEW i \in Instance, Accept(r, i)
    PROVE  Places'
<1>1. r \in handlers[i] /\ r \notin accepted
  BY DEF Accept, Places, SubmittedOnce
<1>2. EventsOf[r] \cap Sent = {}
  BY <1>1, NotSent DEF TypeOK
<1>3. Apart(i) /\ Held(i) \subseteq Sent
  BY DEF Places, OnlySent
<1>4. Held(i)' = Held(i) \cup EventsOf[r] /\ Apart(i)' /\ Sent' = Sent \cup EventsOf[r]
  BY <1>1, <1>3, AcceptMoves
<1>5. \A j \in Instance : j # i => Held(j)' = Held(j) /\ Apart(j)'
  <2>1. ASSUME NEW j \in Instance, j # i
        PROVE  queue'[j] = queue[j] /\ cur'[j] = cur[j] /\ buf'[j] = buf[j]
    BY <2>1 DEF Accept, TypeOK
  <2>2. accepted \subseteq accepted'
    BY DEF Accept
  <2> QED
    BY <2>1, <2>2, MemorySame DEF Places
<1>6. table' = table /\ Landed' = Landed
  BY DEF Accept, Landed
<1>7. SubmittedOnce'
  <2>1. \A j \in Instance : handlers'[j] \subseteq handlers[j]
    BY DEF Accept, TypeOK
  <2>2. r \notin handlers'[i] /\ \A j \in Instance : j # i => r \notin handlers[j]
    BY <1>1 DEF Accept, TypeOK, Places, SubmittedOnce
  <2>3. \A j \in Instance : r \notin handlers'[j]
    BY <2>1, <2>2
  <2> QED
    BY <2>1, <2>3 DEF Accept, Places, SubmittedOnce
<1>8. ProcessesApart'
  BY <1>2, <1>4, <1>5 DEF Places, ProcessesApart, OnlySent
<1>9. RowsApart'
  BY <1>2, <1>4, <1>5, <1>6 DEF Places, RowsApart, OnlySent
<1>10. OnlySent'
  BY <1>4, <1>5, <1>6 DEF Places, OnlySent
<1>11. DeletedIsLanded'
  BY <1>6 DEF Places, DeletedIsLanded
<1> QED
  BY <1>4, <1>5, <1>7, <1>8, <1>9, <1>10, <1>11 DEF Places

LEMMA FlusherPlaces ==
    ASSUME IndInv, TypeOK', StoresGrow, Places, NEW i \in Instance, Flusher(i)
    PROVE  Places'
<1>0. TypeOK
  BY DEF IndInv
<1>1. /\ Held(i)' = IF FlushClear(i) \/ FlushDLQ(i) THEN Held(i) \ buf[i] ELSE Held(i)
      /\ Apart(i)'
  BY <1>0, FlusherMoves DEF Places
<1>2. accepted' = accepted /\ handlers' = handlers
  BY DEF Flusher, Receive, AppendEvents, Tick, FlushInsert, FlushMeter, FlushClear, FlushDLQ
<1>3. \A j \in Instance : j # i => Held(j)' = Held(j) /\ Apart(j)'
  <2>1. ASSUME NEW j \in Instance, j # i
        PROVE  queue'[j] = queue[j] /\ cur'[j] = cur[j] /\ buf'[j] = buf[j]
    BY <1>0, <2>1 DEF TypeOK, Flusher, Receive, AppendEvents, Tick, FlushInsert, FlushMeter, FlushClear,
       FlushDLQ, BufferDone, memory
  <2> QED
    BY <1>2, <2>1, MemorySame DEF Places
<1>4. SubmittedOnce'
  BY <1>2 DEF Places, SubmittedOnce
<1>5. CASE FlushDLQ(i) /\ InsertRow(buf[i])
  <2>1. ch' = ch
    BY <1>5 DEF FlushDLQ
  <2>2. Held(i)' = Held(i) \ buf[i]
    BY <1>1, <1>5
  <2> QED
    BY <1>0, <1>1, <1>2, <1>3, <1>4, <1>5, <2>1, <2>2, ApartParked DEF Places
<1>6. CASE table' = table
  <2>1. RowsSame
    BY <1>6 DEF RowsSame
  <2>2. Landed' \subseteq Sent'
    <3>1. Sent' = Sent
      BY <1>2 DEF Sent
    <3>2. [Next]_vars
      BY DEF Next
    <3> QED
      BY <1>0, <3>1, <3>2, LandedSent DEF Places
  <2>3. \A j \in Instance : Held(j)' \subseteq Held(j)
    BY <1>1, <1>3
  <2>4. DeletedIsLanded'
    BY <1>0, <2>1, DeletedStep DEF Places
  <2> QED
    BY <1>0, <1>1, <1>2, <1>3, <1>4, <2>1, <2>2, <2>3, <2>4, ApartLess DEF Places
<1> QED
  BY <1>5, <1>6 DEF Flusher, Receive, AppendEvents, Tick, FlushInsert, FlushMeter, FlushClear, FlushDLQ

\* Any other step.
LEMMA OtherPlaces ==
    ASSUME IndInv, TypeOK', StoresGrow, Places, [Next]_vars, RowsSame,
           accepted' = accepted, SubmittedOnce',
           \A j \in Instance : (Held(j)' = Held(j) \/ Held(j)' = {}) /\ Apart(j)'
    PROVE  Places'
<1>0. TypeOK
  BY DEF IndInv
<1>1. Landed' \subseteq Sent'
  <2>1. Sent' = Sent
    BY DEF Sent
  <2> QED
    BY <1>0, <2>1, LandedSent DEF Places
<1>2. \A j \in Instance : Held(j)' \subseteq Held(j)
  OBVIOUS
<1>3. DeletedIsLanded'
  BY <1>0, DeletedStep DEF Places
<1> QED
  BY <1>0, <1>1, <1>2, <1>3, ApartLess DEF Places

LEMMA PlacesStep == IndInv /\ Places /\ [Next]_vars => Places'
<1> SUFFICES ASSUME IndInv, Places, [Next]_vars PROVE Places'
  OBVIOUS
<1>0. TypeOK /\ TypeOK' /\ StoresGrow
  BY TypesKept, StepGrows DEF IndInv
<1>1. CASE \E i \in Instance : Flusher(i)
  BY <1>0, <1>1, FlusherPlaces
<1>2. CASE \E r \in Request, i \in Instance : Accept(r, i)
  BY <1>0, <1>2, ApartAccepted
<1>3. CASE \E i \in Instance : Crash(i)
  <2>1. PICK i \in Instance : Crash(i)
    BY <1>3
  <2>2. RowsSame /\ accepted' = accepted
    BY <2>1 DEF Crash, RowsSame
  <2>3. SubmittedOnce'
    <3>1. \A j \in Instance : handlers'[j] \subseteq handlers[j]
      BY <1>0, <2>1 DEF Crash, TypeOK
    <3> QED
      BY <2>2, <3>1 DEF Places, SubmittedOnce
  <2>4. Held(i)' = {} /\ Apart(i)'
    BY <1>0, <2>1, MemoryGone DEF Crash, TypeOK
  <2>5. \A j \in Instance : j # i => Held(j)' = Held(j) /\ Apart(j)'
    BY <1>0, <2>1, <2>2, MemorySame DEF Crash, TypeOK, Places
  <2> QED
    BY <1>0, <2>2, <2>3, <2>4, <2>5, OtherPlaces
<1>4. ASSUME queue' = queue, cur' = cur, buf' = buf, accepted' = accepted, SubmittedOnce', RowsSame
      PROVE  Places'
  <2>1. \A j \in Instance : Held(j)' = Held(j) /\ Apart(j)'
    BY <1>4, MemorySame DEF Places
  <2> QED
    BY <1>0, <1>4, <2>1, OtherPlaces
<1>5. CASE \E r \in Request, i \in Instance : Check(r, i) \/ Refuse(r, i)
  <2>1. PICK r \in Request, i \in Instance : Check(r, i) \/ Refuse(r, i)
    BY <1>5
  <2>2. queue' = queue /\ cur' = cur /\ buf' = buf /\ accepted' = accepted /\ table' = table
    BY <2>1 DEF Check, Refuse, memory
  <2>3. CASE Refuse(r, i)
    <3>1. \A j \in Instance : handlers'[j] \subseteq handlers[j]
      BY <1>0, <2>3 DEF Refuse, TypeOK
    <3>2. SubmittedOnce' /\ RowsSame
      BY <2>2, <3>1 DEF Places, SubmittedOnce, RowsSame
    <3> QED
      BY <1>4, <2>2, <3>2
  <2>4. CASE Check(r, i)
    <3>1. /\ r \notin accepted /\ \A j \in Instance : r \notin handlers[j]
          /\ \A j \in Instance : handlers'[j] = IF j = i THEN handlers[i] \cup {r} ELSE handlers[j]
      BY <1>0, <2>4 DEF Check, TypeOK
    <3>2. SubmittedOnce' /\ RowsSame
      BY <2>2, <3>1 DEF Places, SubmittedOnce, RowsSame
    <3> QED
      BY <1>4, <2>2, <3>2
  <2> QED
    BY <2>1, <2>3, <2>4
<1>6. CASE \/ \E i \in Instance : Drainer(i)
           \/ \E k \in RowId : Age(k)
           \/ UNCHANGED vars
  <2>1. queue' = queue /\ cur' = cur /\ buf' = buf /\ accepted' = accepted /\ handlers' = handlers
    BY <1>6 DEF Drainer, List, Quarantine, DrainInsert, DrainBump, DrainDelete, DrainMeter, DrainClear, Count,
       Age, vars, memory
  <2>2. SubmittedOnce'
    BY <2>1 DEF Places, SubmittedOnce
  <2>3. RowsSame
    <3>1. CASE \E i \in Instance : Drainer(i)
      BY <1>0, <3>1, DrainerRows
    <3>2. CASE \E k \in RowId : Age(k)
      BY <1>0, <3>2 DEF Age, TypeOK, RowType, RowsSame
    <3>3. CASE UNCHANGED vars
      BY <3>3 DEF vars, RowsSame
    <3> QED
      BY <1>6, <3>1, <3>2, <3>3
  <2> QED
    BY <1>4, <2>1, <2>2, <2>3
<1> QED
  BY <1>1, <1>2, <1>3, <1>5, <1>6 DEF Next, Handler

LEMMA InitPlaces == Init => Places
<1> SUFFICES ASSUME Init PROVE Places
  OBVIOUS
<1>1. \A i \in Instance : Queued(i) = {}
  BY EmptySeq DEF Init, Queued
<1>2. \A i \in Instance : Held(i) = {}
  BY <1>1 DEF Init, Held, EventsIn
<1>3. \A i \in Instance : Apart(i)
  BY <1>1, EmptySeq DEF Init, Apart
<1>4. Landed = {}
  BY DEF Init, Landed
<1> QED
  BY <1>2, <1>3, <1>4 DEF Init, NoRow, Places, SubmittedOnce, ProcessesApart, RowsApart, OnlySent, DeletedIsLanded
-----------------------------------------------------------------------------
(* The moves of EventDelivery *)

\* Some events go from one stage to another, the rest stay.
Moves(from, to) ==
    \A e \in Event : Stage(e)' = Stage(e) \/ (Stage(e) = from /\ Stage(e)' = to)

\* Such a step is one of EventDelivery, or a stutter.
LEMMA MoveIsLegal ==
    ASSUME NEW from, NEW to, <<from, to>> \in Delivery!Legal, Moves(from, to)
    PROVE  [Delivery!Move]_([e \in Event |-> Stage(e)])
<1> DEFINE S == {e \in Event : Stage(e)' # Stage(e)}
<1>1. \A e \in S : Stage(e) = from /\ Stage(e)' = to
  BY DEF Moves
<1>2. CASE S = {}
  <2>1. \A e \in Event : Stage(e)' = Stage(e)
    BY <1>2
  <2> QED
    BY <2>1
<1>3. CASE S # {}
  <2> DEFINE move == <<from, to>>
  <2>1. \A e \in S : [d \in Event |-> Stage(d)][e] = move[1]
    BY <1>1
  <2>2. \A e \in Event : Stage(e)' = IF e \in S THEN move[2] ELSE [d \in Event |-> Stage(d)][e]
    BY <1>1
  <2>3. [e \in Event |-> Stage(e)]' = [e \in Event |-> IF e \in S THEN move[2] ELSE [d \in Event |-> Stage(d)][e]]
    BY <2>2
  <2>4. S \in SUBSET Event /\ move \in Delivery!Legal
    OBVIOUS
  <2> HIDE DEF S, move
  <2> QED
    BY <1>3, <2>1, <2>3, <2>4 DEF Delivery!Move
<1> QED
  BY <1>2, <1>3

\* What the stages are computed from, when rows keep status and events.
LEMMA StatusSame ==
    ASSUME \A k \in RowId : table'[k].status = table[k].status /\ table'[k].events = table[k].events
    PROVE  Parked' = Parked /\ Quarantined' = Quarantined
<1>1. RowsIn("active")' = RowsIn("active") /\ RowsIn("quarantined")' = RowsIn("quarantined")
  BY DEF RowsIn
<1>2. \A k \in RowsIn("active") \cup RowsIn("quarantined") : table'[k].events = table[k].events
  BY DEF RowsIn
<1> QED
  BY <1>1, <1>2 DEF Parked, Quarantined

\* A step of a flusher.
LEMMA FlusherStages ==
    ASSUME IndInv, TypeOK', Places, Places', NEW i \in Instance, Flusher(i)
    PROVE  Moves("held", "landed") \/ Moves("held", "parked") \/ Moves("held", "lost")
<1>0. TypeOK /\ BatchLanded
  BY DEF IndInv
<1>1. Held(i)' = IF FlushClear(i) \/ FlushDLQ(i) THEN Held(i) \ buf[i] ELSE Held(i)
  BY <1>0, FlusherMoves DEF Places
<1>2. \A j \in Instance : j # i => Held(j)' = Held(j)
  <2>1. ASSUME NEW j \in Instance, j # i
        PROVE  queue'[j] = queue[j] /\ cur'[j] = cur[j] /\ buf'[j] = buf[j] /\ accepted' = accepted
    BY <1>0, <2>1 DEF TypeOK, Flusher, Receive, AppendEvents, Tick, FlushInsert, FlushMeter, FlushClear,
       FlushDLQ, BufferDone, memory
  <2> QED
    BY <2>1, MemorySame DEF Places
<1>3. InMemory' = IF FlushClear(i) \/ FlushDLQ(i) THEN InMemory \ buf[i] ELSE InMemory
  <2>1. buf[i] \subseteq Held(i) /\ \A j \in Instance : j # i => buf[i] \cap Held(j) = {}
    BY DEF Places, ProcessesApart, Held
  <2> QED
    BY <1>1, <1>2, <2>1 DEF InMemory
<1>4. Sent' = Sent
  BY DEF Sent, Flusher, Receive, AppendEvents, Tick, FlushInsert, FlushMeter, FlushClear, FlushDLQ
<1>5. /\ buf[i] \subseteq Event /\ buf[i] \subseteq Sent /\ buf[i] \subseteq InMemory
      /\ buf[i] \cap (Parked \cup Quarantined) = {}
  BY <1>0 DEF TypeOK, Places, OnlySent, RowsApart, Held, InMemory, Parked, Quarantined, RowsIn
<1>6. CASE FlushInsert(i) /\ ch' # ch
  <2>1. ch' = Bump(ch, buf[i]) /\ table' = table /\ InMemory' = InMemory
    BY <1>3, <1>6 DEF FlushInsert, FlushClear, FlushDLQ
  <2>2. Landed' = Landed \cup buf[i]
    BY <1>0, <1>5, <2>1, LandedBumped
  <2>3. Parked' = Parked /\ Quarantined' = Quarantined
    BY <2>1, StatusSame
  <2>4. Moves("held", "landed")
    BY <1>4, <1>5, <2>1, <2>2, <2>3 DEF Moves, Stage
  <2> QED
    BY <2>4
<1>7. CASE FlushDLQ(i) /\ table' # table
  <2>1. InsertRow(buf[i]) /\ ch' = ch /\ InMemory' = InMemory \ buf[i]
    BY <1>3, <1>7 DEF FlushDLQ
  <2>2. PICK k \in RowId : LET row == [status |-> "active", events |-> buf[i], attempts |-> 0, old |-> FALSE] IN
           table[k].status = "none" /\ table' = [table EXCEPT ![k] = row]
    BY <1>0, <1>5, <2>1, RowInserted
  <2>3. /\ table'[k].status = "active" /\ table'[k].events = buf[i]
        /\ \A l \in RowId : l # k => table'[l] = table[l]
    BY <1>0, <2>2 DEF TypeOK
  <2>4. RowsIn("active")' = RowsIn("active") \cup {k} /\ RowsIn("quarantined")' = RowsIn("quarantined")
    BY <2>2, <2>3 DEF RowsIn
  <2>5. k \notin RowsIn("active") /\ k \notin RowsIn("quarantined")
    BY <2>2 DEF RowsIn
  <2>6. Parked' = Parked \cup buf[i]
    BY <2>3, <2>4, <2>5 DEF Parked, RowsIn
  <2>7. Quarantined' = Quarantined
    BY <2>3, <2>4, <2>5 DEF Quarantined, RowsIn
  <2>8. Landed' = Landed
    BY <2>1 DEF Landed
  <2>9. Moves("held", "parked")
    BY <1>4, <1>5, <2>1, <2>6, <2>7, <2>8 DEF Moves, Stage
  <2> QED
    BY <2>9
<1>8. CASE ch' = ch /\ table' = table
  <2>1. Landed' = Landed
    BY <1>8 DEF Landed
  <2>2. Parked' = Parked /\ Quarantined' = Quarantined
    BY <1>8, StatusSame
  <2>3. CASE InMemory' = InMemory \ buf[i]
    <3>1. Moves("held", "lost")
      BY <1>4, <1>5, <2>1, <2>2, <2>3 DEF Moves, Stage
    <3> QED
      BY <3>1
  <2>4. CASE InMemory' = InMemory
    <3>1. Moves("held", "lost")
      BY <1>4, <2>1, <2>2, <2>4 DEF Moves, Stage
    <3> QED
      BY <3>1
  <2> QED
    BY <1>3, <2>3, <2>4
<1> QED
  BY <1>6, <1>7, <1>8 DEF Flusher, Receive, AppendEvents, Tick, FlushInsert, FlushMeter, FlushClear, FlushDLQ

\* A step of a drainer.
LEMMA DrainerStages ==
    ASSUME IndInv, TypeOK', Places, Places', NEW i \in Instance, Drainer(i)
    PROVE  Moves("parked", "landed") \/ Moves("quarantined", "landed") \/ Moves("parked", "quarantined")
<1>0. TypeOK /\ ReplayLanded
  BY DEF IndInv
<1>1. Sent' = Sent /\ InMemory' = InMemory
  <2>1. queue' = queue /\ cur' = cur /\ buf' = buf /\ accepted' = accepted
    BY DEF Drainer, List, Quarantine, DrainInsert, DrainBump, DrainDelete, DrainMeter, DrainClear, Count, memory
  <2>2. \A j \in Instance : Held(j)' = Held(j)
    BY <2>1, HeldSame
  <2> QED
    BY <2>1, <2>2 DEF Sent, InMemory
<1>2. CASE \A k \in RowId : table'[k].status = table[k].status /\ table'[k].events = table[k].events
  <2>1. Parked' = Parked /\ Quarantined' = Quarantined
    BY <1>2, StatusSame
  <2>2. CASE ch' = ch
    <3>1. Moves("parked", "landed")
      BY <1>1, <2>1, <2>2 DEF Moves, Stage, Landed
    <3> QED
      BY <3>1
  <2>3. CASE DrainInsert(i) /\ ch' = Bump(ch, table[Row(i).id].events)
    <3> DEFINE row == table[Row(i).id]
    <3>1. Row(i).id \in RowId /\ row \in RowType /\ row.status # "none"
      BY <1>0, <2>3, BusyDrainer DEF DrainInsert
    <3>2. row.events \subseteq Event /\ row.status \in {"active", "quarantined", "deleted"}
      BY <3>1 DEF RowType, RowStatus
    <3>3. Landed' = Landed \cup row.events
      BY <1>0, <2>3, <3>2, LandedBumped
    <3>4. row.events \subseteq Sent
      BY <3>1 DEF Places, OnlySent
    <3>5. \A l \in RowId : l # Row(i).id => table[l].events \cap row.events = {}
      BY <3>1 DEF Places, RowsApart
    <3>6. CASE row.status = "active"
      <4>1. row.events \subseteq Parked
        BY <3>1, <3>6 DEF Parked, RowsIn
      <4>2. Moves("parked", "landed")
        BY <1>1, <2>1, <3>3, <3>4, <4>1 DEF Moves, Stage
      <4> QED
        BY <4>2
    <3>7. CASE row.status = "quarantined"
      <4>1. row.events \subseteq Quarantined /\ row.events \cap Parked = {}
        BY <3>1, <3>5, <3>7 DEF Parked, Quarantined, RowsIn
      <4>2. Moves("quarantined", "landed")
        BY <1>1, <2>1, <3>3, <3>4, <4>1 DEF Moves, Stage
      <4> QED
        BY <4>2
    <3>8. CASE row.status = "deleted"
      <4>1. row.events \subseteq Landed
        BY <3>1, <3>8 DEF Places, DeletedIsLanded
      <4>2. Moves("parked", "landed")
        BY <1>1, <2>1, <3>3, <4>1 DEF Moves, Stage
      <4> QED
        BY <4>2
    <3> QED
      BY <3>2, <3>6, <3>7, <3>8
  <2> QED
    BY <2>2, <2>3 DEF Drainer, List, Quarantine, DrainInsert, DrainBump, DrainDelete, DrainMeter, DrainClear, Count
<1>3. ASSUME NEW k \in RowId, NEW status \in {"quarantined", "deleted"}, table[k].status # "none",
             table' = [table EXCEPT ![k].status = status]
      PROVE  /\ RowsIn("active")' = RowsIn("active") \ {k}
             /\ RowsIn("quarantined")' = IF status = "quarantined" THEN RowsIn("quarantined") \cup {k}
                                         ELSE RowsIn("quarantined") \ {k}
             /\ \A l \in RowId : table'[l].events = table[l].events
  <2>1. /\ table'[k].status = status
        /\ \A l \in RowId : l # k => table'[l] = table[l]
        /\ RowKept(k)
    BY <1>0, <1>3, RowMarked
  <2> QED
    BY <2>1 DEF RowsIn, RowKept
<1>4. CASE Quarantine(i) /\ table' # table
  <2> DEFINE k == Row(i).id
  <2>1. k \in RowId /\ table[k].status = "active" /\ table' = [table EXCEPT ![k].status = "quarantined"]
    BY <1>0, <1>4, BusyDrainer DEF Quarantine
  <2>2. /\ RowsIn("active")' = RowsIn("active") \ {k}
        /\ RowsIn("quarantined")' = RowsIn("quarantined") \cup {k}
        /\ \A l \in RowId : table'[l].events = table[l].events
    BY <1>3, <2>1
  <2>3. \A l \in RowId : l # k => table[l].events \cap table[k].events = {}
    BY <2>1 DEF Places, RowsApart
  <2>4. k \in RowsIn("active") /\ RowsIn("active") \subseteq RowId /\ RowsIn("quarantined") \subseteq RowId
    BY <2>1 DEF RowsIn
  <2> HIDE DEF k
  <2>5. Parked' = Parked \ table[k].events /\ table[k].events \subseteq Parked
    BY <2>1, <2>2, <2>3, <2>4 DEF Parked
  <2>6. Quarantined' = Quarantined \cup table[k].events
    BY <2>1, <2>2, <2>4 DEF Quarantined
  <2>7. Landed' = Landed
    BY <1>4 DEF Quarantine, Landed
  <2>8. Moves("parked", "quarantined")
    BY <1>1, <2>5, <2>6, <2>7 DEF Moves, Stage
  <2> QED
    BY <2>8
<1>5. CASE DrainDelete(i) /\ table' # table
  <2> DEFINE k == Row(i).id
  <2>1. /\ k \in RowId /\ table[k].status # "none" /\ table' = [table EXCEPT ![k].status = "deleted"]
        /\ table[k].events \subseteq Landed
    BY <1>0, <1>5, BusyDrainer DEF DrainDelete, ReplayLanded
  <2>2. /\ RowsIn("active")' = RowsIn("active") \ {k}
        /\ RowsIn("quarantined")' = RowsIn("quarantined") \ {k}
        /\ \A l \in RowId : table'[l].events = table[l].events
    BY <1>3, <2>1
  <2>3. RowsIn("active") \subseteq RowId /\ RowsIn("quarantined") \subseteq RowId
    BY DEF RowsIn
  <2> HIDE DEF k
  <2>4. /\ Parked' \subseteq Parked /\ Parked \subseteq Parked' \cup table[k].events
        /\ Quarantined' \subseteq Quarantined /\ Quarantined \subseteq Quarantined' \cup table[k].events
    BY <2>2, <2>3 DEF Parked, Quarantined
  <2>5. Landed' = Landed
    BY <1>5 DEF DrainDelete, Landed
  <2>6. Moves("parked", "landed")
    BY <1>1, <2>1, <2>4, <2>5 DEF Moves, Stage
  <2> QED
    BY <2>6
<1>6. CASE DrainBump(i)
  <2>1. Row(i).id \in RowId /\ table[Row(i).id].status # "none"
    BY <1>0, <1>6, BusyDrainer DEF DrainBump
  <2>2. table' = table \/ table' = [table EXCEPT ![Row(i).id].attempts = @ + 1]
    BY <1>6 DEF DrainBump
  <2>3. \A k \in RowId : table'[k].status = table[k].status /\ table'[k].events = table[k].events
    BY <1>0, <2>1, <2>2, RowTried DEF RowKept
  <2> QED
    BY <1>2, <2>3
<1> QED
  BY <1>2, <1>4, <1>5, <1>6 DEF Drainer, List, Quarantine, DrainInsert, DrainDelete, DrainMeter, DrainClear, Count

\* A step of a client, of the clock or of whatever kills processes.
LEMMA OtherStages ==
    ASSUME IndInv, TypeOK', Places, Places',
           \/ \E r \in Request, i \in Instance : Handler(r, i)
           \/ \E i \in Instance : Crash(i)
           \/ \E k \in RowId : Age(k)
           \/ UNCHANGED vars
    PROVE  Moves("client", "held") \/ Moves("held", "lost")
<1>0. TypeOK
  BY DEF IndInv
<1>1. ch' = ch /\ \A k \in RowId : table'[k].status = table[k].status /\ table'[k].events = table[k].events
  <2>1. CASE \E k \in RowId : Age(k)
    BY <1>0, <2>1 DEF Age, TypeOK, RowType
  <2>2. CASE ch' = ch /\ table' = table
    BY <2>2
  <2> QED
    BY <2>1, <2>2 DEF Handler, Check, Accept, Refuse, Crash, vars
<1>2. Landed' = Landed /\ Parked' = Parked /\ Quarantined' = Quarantined
  BY <1>1, StatusSame DEF Landed
<1>3. CASE \E r \in Request, i \in Instance : Accept(r, i)
  <2>1. PICK r \in Request, i \in Instance : Accept(r, i)
    BY <1>3
  <2>2. r \notin accepted
    BY <2>1 DEF Accept, Places, SubmittedOnce
  <2>3. EventsOf[r] \cap Sent = {}
    BY <1>0, <2>2, NotSent DEF TypeOK
  <2>4. Held(i)' = Held(i) \cup EventsOf[r] /\ Sent' = Sent \cup EventsOf[r]
    BY <1>0, <2>1, <2>2, AcceptMoves DEF Places, OnlySent
  <2>5. \A j \in Instance : j # i => Held(j)' = Held(j)
    <3>1. ASSUME NEW j \in Instance, j # i
          PROVE  queue'[j] = queue[j] /\ cur'[j] = cur[j] /\ buf'[j] = buf[j] /\ accepted \subseteq accepted'
      BY <1>0, <2>1, <3>1 DEF Accept, TypeOK
    <3> QED
      BY <3>1, MemorySame
  <2>6. InMemory' = InMemory \cup EventsOf[r]
    BY <2>4, <2>5 DEF InMemory
  <2>7. (Landed \cup Parked \cup Quarantined) \cap EventsOf[r] = {}
    BY <2>3 DEF Places, OnlySent, Parked, Quarantined, RowsIn
  <2>8. Moves("client", "held")
    BY <1>2, <2>3, <2>4, <2>6, <2>7 DEF Moves, Stage
  <2> QED
    BY <2>8
<1>4. CASE \E i \in Instance : Crash(i)
  <2>1. PICK i \in Instance : Crash(i)
    BY <1>4
  <2>2. Sent' = Sent
    BY <2>1 DEF Crash, Sent
  <2>3. Held(i)' = {}
    BY <1>0, <2>1, MemoryGone DEF Crash, TypeOK
  <2>4. \A j \in Instance : j # i => Held(j)' = Held(j)
    <3>1. ASSUME NEW j \in Instance, j # i
          PROVE  queue'[j] = queue[j] /\ cur'[j] = cur[j] /\ buf'[j] = buf[j] /\ accepted' = accepted
      BY <1>0, <2>1, <3>1 DEF Crash, TypeOK
    <3> QED
      BY <3>1, MemorySame
  <2>5. InMemory' \subseteq InMemory
    BY <2>3, <2>4 DEF InMemory
  <2>6. Moves("held", "lost")
    BY <1>2, <2>2, <2>5 DEF Moves, Stage
  <2> QED
    BY <2>6
<1>5. CASE accepted' = accepted /\ queue' = queue /\ cur' = cur /\ buf' = buf
  <2>1. \A j \in Instance : Held(j)' = Held(j)
    BY <1>5, HeldSame
  <2>2. Sent' = Sent /\ InMemory' = InMemory
    BY <1>5, <2>1 DEF Sent, InMemory
  <2>3. Moves("held", "lost")
    BY <1>2, <2>2 DEF Moves, Stage
  <2> QED
    BY <2>3
<1> QED
  BY <1>3, <1>4, <1>5 DEF Handler, Check, Refuse, Age, vars, memory

\* The pipeline does to every event what EventDelivery allows and nothing
\* else, whatever fails, however many processes share the databases: an event
\* is lost only from memory, what is parked stays filed and what has landed
\* stays landed.
THEOREM DeliveryImplemented == Spec => ImplementsEventDelivery
<1>1. Init => Delivery!Init
  <2> SUFFICES ASSUME Init, NEW e \in Event PROVE Stage(e) = "client"
    BY DEF Delivery!Init
  <2>1. Sent = {}
    BY DEF Init, Sent, EventsIn
  <2> QED
    BY <2>1 DEF Stage
<1>2. IndInv /\ Places /\ [Next]_vars => [Delivery!Move]_([e \in Event |-> Stage(e)])
  <2> SUFFICES ASSUME IndInv, Places, [Next]_vars
               PROVE  [Delivery!Move]_([e \in Event |-> Stage(e)])
    OBVIOUS
  <2>1. TypeOK' /\ Places'
    BY TypesKept, PlacesStep DEF IndInv
  <2>2. \/ \E i \in Instance : Flusher(i)
        \/ \E i \in Instance : Drainer(i)
        \/ \/ \E r \in Request, i \in Instance : Handler(r, i)
           \/ \E i \in Instance : Crash(i)
           \/ \E k \in RowId : Age(k)
           \/ UNCHANGED vars
    BY DEF Next
  <2>3. \E move \in Delivery!Legal : Moves(move[1], move[2])
    <3>1. \/ Moves("held", "landed") \/ Moves("held", "parked") \/ Moves("held", "lost")
          \/ Moves("parked", "landed") \/ Moves("quarantined", "landed") \/ Moves("parked", "quarantined")
          \/ Moves("client", "held")
      BY <2>1, <2>2, FlusherStages, DrainerStages, OtherStages
    <3> QED
      BY <3>1 DEF Delivery!Legal
  <2>4. PICK move \in Delivery!Legal : Moves(move[1], move[2])
    BY <2>3
  <2>5. <<move[1], move[2]>> \in Delivery!Legal
    BY <2>4 DEF Delivery!Legal
  <2> QED
    BY <2>4, <2>5, MoveIsLegal
<1> QED
  BY <1>1, <1>2, InitPlaces, PlacesStep, SpecInv, PTL DEF Spec, ImplementsEventDelivery, Delivery!Spec
-----------------------------------------------------------------------------
(* One process *)

\* Nobody shares the databases.
Alone == \A i, j \in Instance : i = j

\* What waits to be inserted has not landed: true of any number of processes.
NotLandedYet ==
    \A i \in Instance :
        /\ (EventsIn(Queued(i)) \cup cur[i]) \cap Landed = {}
        /\ fpc[i] \in {"select", "append", "insert"} => buf[i] \cap Landed = {}

\* The rows a drainer has listed are still to be replayed, but for the one it
\* has just deleted; and it has listed each once.
ListedActive ==
    \A i \in Instance : \A s \in todo[i] :
        /\ table[s.id].status = IF dpc[i] \in {"meter", "clear"} /\ s = Row(i) THEN "deleted" ELSE "active"
        /\ \A t \in todo[i] : t.id = s.id => t = s

\* What is still to be reported has not been.
Unreported ==
    /\ \A i \in Instance : fpc[i] \in {"meter", "dlq"} => \A e \in buf[i] : billed[e] = 0
    /\ \A k \in RowId : table[k].status = "active" => \A e \in table[k].events : billed[e] = 0
    /\ \A i \in Instance : dpc[i] = "meter" => \A e \in table[Row(i).id].events : billed[e] = 0
    /\ MeteredAtMostOnce

AloneInv ==
    /\ Alone
    /\ Places
    /\ AllCovered
    /\ NotLandedYet
    /\ ListedActive
    /\ Unreported

\* Only an insert lands an event, and it has a batch or a row in hand, not what
\* is still on its way.
LEMMA NotLandedStep ==
    ASSUME IndInv, TypeOK', Places, Places', NotLandedYet, [Next]_vars
    PROVE  NotLandedYet'
<1>0. TypeOK
  BY DEF IndInv
<1> SUFFICES ASSUME NEW i \in Instance
             PROVE  /\ (EventsIn(Queued(i)') \cup cur'[i]) \cap Landed' = {}
                    /\ fpc'[i] \in {"select", "append", "insert"} => buf'[i] \cap Landed' = {}
  BY DEF NotLandedYet
<1>1. CASE Landed' = Landed
  <2>1. CASE Flusher(i)
    <3>1. CASE Receive(i)
      <4>1. cur'[i] = EventsOf[Head(queue[i])] /\ buf' = buf /\ fpc[i] = "select"
        BY <1>0, <3>1 DEF Receive, TypeOK
      <4>2. EventsIn(Queued(i)) = EventsIn(Queued(i)') \cup EventsOf[Head(queue[i])]
        BY <1>0, <3>1, ReceiveApart DEF Places, Apart
      <4> QED
        BY <1>1, <4>1, <4>2 DEF NotLandedYet
    <3>2. ASSUME ~Receive(i) PROVE EventsIn(Queued(i)') = EventsIn(Queued(i))
      <4>1. queue' = queue
        BY <2>1, <3>2 DEF Flusher, AppendEvents, Tick, FlushInsert, FlushMeter, FlushClear, FlushDLQ,
           BufferDone, memory
      <4>2. Queued(i)' = Queued(i)
        BY <4>1 DEF Queued
      <4> QED
        BY <4>2 DEF EventsIn
    <3>3. CASE AppendEvents(i)
      <4>1. cur'[i] \cup buf'[i] = cur[i] \cup buf[i] /\ cur'[i] \subseteq cur[i] /\ fpc[i] = "append"
        BY <1>0, <3>3 DEF AppendEvents, TypeOK
      <4>2. EventsIn(Queued(i)') = EventsIn(Queued(i))
        BY <3>2, <3>3 DEF AppendEvents, Receive
      <4> QED
        BY <1>1, <4>1, <4>2 DEF NotLandedYet
    <3>4. CASE FlushClear(i) \/ FlushDLQ(i)
      <4>1. cur' = cur /\ buf'[i] = {} /\ fpc[i] \in {"clear", "dlq"}
        BY <1>0, <3>4 DEF FlushClear, FlushDLQ, BufferDone, TypeOK
      <4>2. EventsIn(Queued(i)') = EventsIn(Queued(i))
        BY <3>2, <4>1 DEF Receive
      <4> QED
        BY <1>1, <4>1, <4>2 DEF NotLandedYet
    <3>5. CASE Tick(i) \/ FlushInsert(i) \/ FlushMeter(i)
      <4>1. /\ cur' = cur /\ buf' = buf
            /\ fpc'[i] \in {"select", "append", "insert"} => fpc[i] \in {"select", "append", "insert"}
        BY <1>0, <3>5 DEF Tick, FlushInsert, FlushMeter, Receive, TypeOK, memory
      <4>2. EventsIn(Queued(i)') = EventsIn(Queued(i))
        <5>1. Queued(i)' = Queued(i)
          BY <3>5 DEF Tick, FlushInsert, FlushMeter, memory, Queued
        <5> QED
          BY <5>1 DEF EventsIn
      <4> QED
        BY <1>1, <4>1, <4>2 DEF NotLandedYet
    <3> QED
      BY <2>1, <3>1, <3>3, <3>4, <3>5 DEF Flusher
  <2>2. CASE queue'[i] = queue[i] /\ cur'[i] = cur[i] /\ buf'[i] = buf[i] /\ fpc'[i] = fpc[i]
    <3>1. Queued(i)' = Queued(i)
      BY <2>2 DEF Queued
    <3>2. EventsIn(Queued(i)') = EventsIn(Queued(i))
      BY <3>1 DEF EventsIn
    <3> QED
      BY <1>1, <2>2, <3>2 DEF NotLandedYet
  <2>3. CASE \E r \in Request : Accept(r, i)
    <3>1. PICK r \in Request : Accept(r, i)
      BY <2>3
    <3>2. r \notin accepted
      BY <3>1 DEF Accept, Places, SubmittedOnce
    <3>3. EventsOf[r] \cap Landed = {}
      BY <1>0, <3>2, NotSent DEF TypeOK, Places, OnlySent
    <3>4. Queued(i)' = Queued(i) \cup {r}
      <4>1. queue[i] \in Seq(Request) /\ queue'[i] = Append(queue[i], r)
        BY <1>0, <3>1 DEF Accept, TypeOK
      <4>2. {Append(queue[i], r)[k] : k \in 1..Len(Append(queue[i], r))} =
               {queue[i][k] : k \in 1..Len(queue[i])} \cup {r}
        BY <4>1, QueueGrown
      <4> QED
        BY <4>1, <4>2 DEF Queued
    <3>5. EventsIn(Queued(i)') = EventsIn(Queued(i)) \cup EventsOf[r]
      BY <3>4 DEF EventsIn
    <3>6. cur' = cur /\ buf' = buf /\ fpc' = fpc
      BY <3>1 DEF Accept
    <3> QED
      BY <1>1, <3>3, <3>5, <3>6 DEF NotLandedYet
  <2>4. CASE Crash(i)
    <3>1. queue'[i] = <<>> /\ cur'[i] = {} /\ buf'[i] = {}
      BY <1>0, <2>4 DEF Crash, TypeOK
    <3>2. Queued(i)' = {}
      BY <3>1, EmptySeq DEF Queued
    <3> QED
      BY <3>1, <3>2 DEF EventsIn
  <2>5. CASE \E j \in Instance : j # i /\ (Flusher(j) \/ Crash(j) \/ \E r \in Request : Accept(r, j))
    <3>0. PICK j \in Instance : j # i /\ (Flusher(j) \/ Crash(j) \/ \E r \in Request : Accept(r, j))
      BY <2>5
    <3>1. queue'[i] = queue[i] /\ cur'[i] = cur[i] /\ buf'[i] = buf[i] /\ fpc'[i] = fpc[i]
      <4>1. CASE Flusher(j)
        BY <1>0, <3>0, <4>1, ZenonT(60) DEF TypeOK, Flusher, Receive, AppendEvents, Tick, FlushInsert, FlushMeter,
           FlushClear, FlushDLQ, BufferDone, memory
      <4>2. CASE Crash(j)
        BY <1>0, <3>0, <4>2 DEF TypeOK, Crash
      <4>3. CASE \E r \in Request : Accept(r, j)
        BY <1>0, <3>0, <4>3 DEF TypeOK, Accept
      <4> QED
        BY <3>0, <4>1, <4>2, <4>3
    <3> QED
      BY <2>2, <3>1
  <2> QED
    BY <2>1, <2>2, <2>3, <2>4, <2>5 DEF Next, Handler, Check, Refuse, Age, vars, memory,
       Drainer, List, Quarantine, DrainInsert, DrainBump, DrainDelete, DrainMeter, DrainClear, Count
<1>2. ASSUME NEW j \in Instance, FlushInsert(j), ch' = Bump(ch, buf[j])
      PROVE  /\ (EventsIn(Queued(i)') \cup cur'[i]) \cap Landed' = {}
             /\ fpc'[i] \in {"select", "append", "insert"} => buf'[i] \cap Landed' = {}
  <2>1. queue' = queue /\ cur' = cur /\ buf' = buf /\ fpc'[j] \in {"meter", "dlq"}
        /\ (j # i => fpc'[i] = fpc[i])
    BY <1>0, <1>2 DEF FlushInsert, memory, TypeOK
  <2>2. Landed' = Landed \cup (buf[j] \cap Event)
    BY <1>0, <1>2, LandedBumped
  <2>3. EventsIn(Queued(i)') = EventsIn(Queued(i))
    <3>1. Queued(i)' = Queued(i)
      BY <2>1 DEF Queued
    <3> QED
      BY <3>1 DEF EventsIn
  <2>4. CASE j = i
    BY <2>1, <2>2, <2>3, <2>4 DEF NotLandedYet, Places, Apart
  <2>5. CASE j # i
    <3>1. Held(i) \cap Held(j) = {}
      BY <2>5 DEF Places, ProcessesApart
    <3> QED
      BY <2>1, <2>2, <2>3, <2>5, <3>1 DEF NotLandedYet, Held
  <2> QED
    BY <2>4, <2>5
<1>3. ASSUME NEW j \in Instance, DrainInsert(j), ch' = Bump(ch, table[Row(j).id].events)
      PROVE  /\ (EventsIn(Queued(i)') \cup cur'[i]) \cap Landed' = {}
             /\ fpc'[i] \in {"select", "append", "insert"} => buf'[i] \cap Landed' = {}
  <2>1. queue' = queue /\ cur' = cur /\ buf' = buf /\ fpc' = fpc /\ Row(j).id \in RowId
    BY <1>0, <1>3, BusyDrainer DEF DrainInsert, memory
  <2>2. Landed' = Landed \cup (table[Row(j).id].events \cap Event)
    BY <1>0, <1>3, LandedBumped
  <2>3. EventsIn(Queued(i)') = EventsIn(Queued(i))
    <3>1. Queued(i)' = Queued(i)
      BY <2>1 DEF Queued
    <3> QED
      BY <3>1 DEF EventsIn
  <2>4. Held(i) \cap table[Row(j).id].events = {}
    BY <2>1 DEF Places, RowsApart
  <2> QED
    BY <2>1, <2>2, <2>3, <2>4 DEF NotLandedYet, Held
<1>4. CASE ch' = ch
  <2>1. Landed' = Landed
    BY <1>4 DEF Landed
  <2> QED
    BY <1>1, <2>1
<1> QED
  BY <1>0, <1>2, <1>3, <1>4, LandedStep

\* A row that is done with leaves the list.
LEMMA DoneListed ==
    ASSUME TypeOK, ListedActive, Alone, NEW i \in Instance, todo[i] # {}, RowDone(i),
           \A k \in RowId : k # Row(i).id => table'[k].status = table[k].status
    PROVE  ListedActive'
<1> SUFFICES ASSUME NEW j \in Instance, NEW s \in todo'[j]
             PROVE  /\ table'[s.id].status = IF dpc'[j] \in {"meter", "clear"} /\ s = Row(j)' THEN "deleted" ELSE "active"
                    /\ \A t \in todo'[j] : t.id = s.id => t = s
  BY DEF ListedActive
<1>1. j = i
  BY DEF Alone
<1>2. todo'[i] = todo[i] \ {Row(i)} /\ dpc'[i] \in {"count", "row"}
  BY DEF RowDone, TypeOK
<1>3. Row(i) \in todo[i]
  BY RowListed
<1>4. s \in todo[i] /\ s # Row(i) /\ s.id # Row(i).id /\ s.id \in RowId
  BY <1>1, <1>2, <1>3 DEF ListedActive, TypeOK, SnapshotType
<1> QED
  BY <1>1, <1>2, <1>4 DEF ListedActive

\* A list that stays, in a state that is not about to meter or to leave it.
LEMMA SameListed ==
    ASSUME TypeOK, ListedActive, todo' = todo,
           \A i \in Instance : dpc'[i] \in {"meter", "clear"} <=> dpc[i] \in {"meter", "clear"},
           \A k \in RowId : table[k].status # "none" => table'[k].status = table[k].status
    PROVE  ListedActive'
<1>1. \A i \in Instance : Row(i)' = Row(i)
  BY SameRow
<1>2. \A i \in Instance : \A s \in todo[i] : s.id \in RowId /\ table[s.id].status # "none"
  BY DEF TypeOK, SnapshotType
<1> QED
  BY <1>1, <1>2 DEF ListedActive

LEMMA ListedStep ==
    ASSUME IndInv, TypeOK', Alone, ListedActive, [Next]_vars
    PROVE  ListedActive'
<1>0. TypeOK
  BY DEF IndInv
<1>1. ASSUME NEW i \in Instance, List(i) PROVE ListedActive'
  <2>1. CASE UNCHANGED <<todo, dpc>>
    BY <1>0, <1>1, <2>1, SameListed DEF List
  <2>2. CASE /\ todo' = [todo EXCEPT ![i] = {Snapshot(k) : k \in Oldest}]
             /\ dpc' = [dpc EXCEPT ![i] = IF Oldest = {} THEN "count" ELSE "row"]
    <3>1. \A k \in Oldest : k \in RowId /\ table[k].status = "active"
      BY DEF Oldest, RowsIn
    <3>2. \A j \in Instance : j = i
      BY DEF Alone
    <3>3. todo'[i] = {Snapshot(k) : k \in Oldest} /\ dpc'[i] \in {"count", "row"} /\ table' = table
      BY <1>0, <1>1, <2>2 DEF List, TypeOK
    <3>4. \A k \in Oldest : Snapshot(k).id = k
      BY DEF Snapshot
    <3>5. \A s \in todo'[i] : table'[s.id].status = "active" /\ \A t \in todo'[i] : t.id = s.id => t = s
      BY <3>1, <3>3, <3>4
    <3> QED
      BY <3>2, <3>3, <3>5 DEF ListedActive
  <2> QED
    BY <1>1, <2>1, <2>2 DEF List
<1>2. ASSUME NEW i \in Instance, Quarantine(i) PROVE ListedActive'
  <2>1. todo[i] # {} /\ RowDone(i) /\ Row(i).id \in RowId /\ table[Row(i).id].status # "none"
    BY <1>0, <1>2, BusyDrainer DEF Quarantine
  <2>2. table' = table \/ table' = [table EXCEPT ![Row(i).id].status = "quarantined"]
    BY <1>2 DEF Quarantine
  <2>3. \A k \in RowId : k # Row(i).id => table'[k].status = table[k].status
    BY <1>0, <2>1, <2>2, RowMarked
  <2> QED
    BY <1>0, <2>1, <2>3, DoneListed
<1>3. ASSUME NEW i \in Instance, DrainInsert(i) PROVE ListedActive'
  <2>1. todo' = todo /\ table' = table
    BY <1>3 DEF DrainInsert
  <2>2. \A j \in Instance : dpc'[j] \in {"meter", "clear"} <=> dpc[j] \in {"meter", "clear"}
    BY <1>0, <1>3 DEF DrainInsert, TypeOK
  <2> QED
    BY <1>0, <2>1, <2>2, SameListed
<1>4. ASSUME NEW i \in Instance, DrainBump(i) PROVE ListedActive'
  <2>1. todo[i] # {} /\ RowDone(i) /\ Row(i).id \in RowId /\ table[Row(i).id].status # "none"
    BY <1>0, <1>4, BusyDrainer DEF DrainBump
  <2>2. table' = table \/ table' = [table EXCEPT ![Row(i).id].attempts = @ + 1]
    BY <1>4 DEF DrainBump
  <2>3. \A k \in RowId : k # Row(i).id => table'[k].status = table[k].status
    BY <1>0, <2>1, <2>2, RowTried
  <2> QED
    BY <1>0, <2>1, <2>3, DoneListed
<1>5. ASSUME NEW i \in Instance, DrainDelete(i) PROVE ListedActive'
  <2>1. todo[i] # {} /\ Row(i) \in todo[i] /\ Row(i).id \in RowId /\ table[Row(i).id].status # "none"
    BY <1>0, <1>5, BusyDrainer DEF DrainDelete
  <2>2. table' = table \/ table' = [table EXCEPT ![Row(i).id].status = "deleted"]
    BY <1>5 DEF DrainDelete
  <2>3. \A k \in RowId : k # Row(i).id => table'[k].status = table[k].status
    BY <1>0, <2>1, <2>2, RowMarked
  <2>4. CASE RowDone(i)
    BY <1>0, <2>1, <2>3, <2>4, DoneListed
  <2>5. CASE /\ table' = [table EXCEPT ![Row(i).id].status = "deleted"]
             /\ dpc' = [dpc EXCEPT ![i] = "meter"]
             /\ UNCHANGED <<todo, depth>>
    <3>1. \A j \in Instance : j = i
      BY DEF Alone
    <3>2. Row(i)' = Row(i) /\ dpc'[i] = "meter" /\ dpc[i] = "delete" /\ todo' = todo
      BY <1>0, <1>5, <2>5, SameRow DEF DrainDelete, TypeOK
    <3>3. table'[Row(i).id].status = "deleted"
      BY <1>0, <2>1, <2>5, RowMarked
    <3>4. ASSUME NEW s \in todo[i], s # Row(i) PROVE table'[s.id].status = "active"
      <4>1. s.id # Row(i).id /\ s.id \in RowId
        BY <1>0, <2>1, <3>4 DEF ListedActive, TypeOK, SnapshotType
      <4>2. table[s.id].status = "active"
        BY <3>2 DEF ListedActive
      <4> QED
        BY <2>3, <4>1, <4>2
    <3> QED
      BY <3>1, <3>2, <3>3, <3>4 DEF ListedActive
  <2> QED
    BY <1>5, <2>4, <2>5 DEF DrainDelete
<1>6. ASSUME NEW i \in Instance, DrainMeter(i) PROVE ListedActive'
  <2>1. todo' = todo /\ table' = table
    BY <1>6 DEF DrainMeter
  <2>2. \A j \in Instance : dpc'[j] \in {"meter", "clear"} <=> dpc[j] \in {"meter", "clear"}
    BY <1>0, <1>6 DEF DrainMeter, TypeOK
  <2> QED
    BY <1>0, <2>1, <2>2, SameListed
<1>12. ASSUME NEW i \in Instance, DrainClear(i) PROVE ListedActive'
  <2>1. todo[i] # {} /\ RowDone(i) /\ table' = table
    BY <1>0, <1>12, BusyDrainer DEF DrainClear
  <2> QED
    BY <1>0, <2>1, DoneListed
<1>7. ASSUME NEW i \in Instance, Count(i) PROVE ListedActive'
  <2>1. todo' = todo /\ table' = table
    BY <1>7 DEF Count
  <2>2. \A j \in Instance : dpc'[j] \in {"meter", "clear"} <=> dpc[j] \in {"meter", "clear"}
    BY <1>0, <1>7 DEF Count, TypeOK
  <2> QED
    BY <1>0, <2>1, <2>2, SameListed
<1>8. ASSUME NEW i \in Instance, Crash(i) PROVE ListedActive'
  <2>1. todo'[i] = {} /\ \A j \in Instance : j = i
    BY <1>0, <1>8 DEF Crash, TypeOK, Alone
  <2> QED
    BY <2>1 DEF ListedActive
<1>9. ASSUME NEW i \in Instance, FlushDLQ(i) PROVE ListedActive'
  <2>1. todo' = todo /\ dpc' = dpc
    BY <1>9 DEF FlushDLQ, drainer
  <2>2. \A k \in RowId : table[k].status # "none" => table'[k].status = table[k].status
    <3>1. buf[i] \in SUBSET Event
      BY <1>0 DEF TypeOK
    <3>2. CASE InsertRow(buf[i])
      <4>1. PICK k \in RowId : /\ table[k].status = "none"
                               /\ \E row : table' = [table EXCEPT ![k] = row]
        BY <1>0, <3>1, <3>2, RowInserted
      <4>2. PICK row : table' = [table EXCEPT ![k] = row]
        BY <4>1
      <4> QED
        BY <1>0, <4>1, <4>2 DEF TypeOK
    <3>3. InsertRow(buf[i]) \/ table' = table
      BY <1>9 DEF FlushDLQ
    <3> QED
      BY <3>2, <3>3
  <2> QED
    BY <1>0, <2>1, <2>2, SameListed
<1>10. CASE todo' = todo /\ dpc' = dpc /\ table' = table
  BY <1>0, <1>10, SameListed
<1>11. ASSUME NEW k \in RowId, Age(k) PROVE ListedActive'
  <2>1. todo' = todo /\ dpc' = dpc /\ \A l \in RowId : table'[l].status = table[l].status
    BY <1>0, <1>11 DEF Age, drainer, TypeOK, RowType
  <2> QED
    BY <1>0, <2>1, SameListed
<1> QED
  BY <1>1, <1>2, <1>3, <1>4, <1>5, <1>6, <1>7, <1>8, <1>9, <1>10, <1>11, <1>12 DEF Next, Handler, Check, Accept, Refuse,
     vars, drainer, Flusher, Receive, AppendEvents, Tick, FlushInsert, FlushMeter, FlushClear, Drainer

\* What has not landed has not been reported.
LEMMA UnlandedUnreported ==
    ASSUME TypeOK, AllCovered, NEW e \in Event, e \notin Landed
    PROVE  billed[e] = 0 /\ ch[e] = 0
<1>1. Cardinality(Metering(e)) \in Nat /\ Cardinality(Replaying(e)) \in Nat
  BY OwedCount DEF Metering, Replaying
<1>2. billed[e] \in Nat /\ ch[e] \in Nat /\ ~(ch[e] > 0)
  BY DEF TypeOK, Landed
<1>3. billed[e] + Cardinality(Metering(e)) + Cardinality(Replaying(e)) <= ch[e]
  BY DEF AllCovered, Covered
<1> QED
  BY <1>1, <1>2, <1>3

\* A row that is active was active, or is the batch of a flusher that gave up
\* on ClickHouse.
LEMMA ActiveStep ==
    ASSUME TypeOK, StoresGrow, [Next]_vars, NEW k \in RowId, table'[k].status = "active"
    PROVE  \/ table[k].status = "active" /\ table'[k].events = table[k].events
           \/ \E i \in Instance : FlushDLQ(i) /\ table'[k].events = buf[i]
<1>1. CASE RowsSame
  <2>1. table[k].status # "none" /\ table'[k].events = table[k].events
    BY <1>1 DEF RowsSame
  <2> QED
    BY <2>1 DEF StoresGrow, StatusStep
<1>2. ASSUME NEW i \in Instance, FlushDLQ(i), InsertRow(buf[i])
      PROVE  \/ table[k].status = "active" /\ table'[k].events = table[k].events
             \/ table'[k].events = buf[i]
  <2>1. buf[i] \in SUBSET Event
    BY DEF TypeOK
  <2>2. PICK l \in RowId : LET row == [status |-> "active", events |-> buf[i], attempts |-> 0, old |-> FALSE] IN
           table[l].status = "none" /\ table' = [table EXCEPT ![l] = row]
    BY <1>2, <2>1, RowInserted
  <2> QED
    BY <2>2 DEF TypeOK
<1> QED
  BY <1>1, <1>2, RowsStep

LEMMA UnreportedStep ==
    ASSUME IndInv, TypeOK', StoresGrow, AloneInv, [Next]_vars
    PROVE  Unreported'
<1>0. TypeOK /\ Alone /\ Places /\ AllCovered /\ NotLandedYet /\ ListedActive /\ Unreported
  BY DEF IndInv, AloneInv
<1>1. billed \in [Event -> Nat]
  BY <1>0 DEF TypeOK
<1>2. ASSUME NEW i \in Instance, FlushMeter(i) PROVE Unreported'
  <2>1. /\ billed' = Bump(billed, buf[i]) /\ buf' = buf /\ table' = table /\ todo' = todo /\ dpc' = dpc
        /\ fpc[i] = "meter" /\ fpc'[i] = "clear" /\ \A j \in Instance : j = i
    BY <1>0, <1>2 DEF FlushMeter, memory, drainer, TypeOK, Alone
  <2>2. \A e \in Event : billed'[e] = IF e \in buf[i] THEN billed[e] + 1 ELSE billed[e]
    BY <1>1, <2>1, Bumped
  <2>3. \A k \in RowId : table[k].events \cap buf[i] = {} /\ table[k].events \subseteq Event
    BY <1>0 DEF Places, RowsApart, Held, TypeOK, RowType
  <2>4. \A e \in Event : billed'[e] <= 1
    BY <1>0, <1>1, <2>1, <2>2 DEF Unreported, MeteredAtMostOnce
  <2>5. \A k \in RowId : table'[k].status = "active" => \A e \in table'[k].events : billed'[e] = 0
    BY <1>0, <2>1, <2>2, <2>3 DEF Unreported
  <2>6. dpc'[i] = "meter" => \A e \in table'[Row(i)'.id].events : billed'[e] = 0
    <3>1. Row(i)' = Row(i)
      BY <2>1, SameRow
    <3>2. dpc[i] = "meter" => Row(i).id \in RowId
      BY <1>0, BusyDrainer
    <3> QED
      BY <1>0, <2>1, <2>2, <2>3, <3>1, <3>2 DEF Unreported
  <2> QED
    BY <2>1, <2>4, <2>5, <2>6 DEF Unreported, MeteredAtMostOnce
<1>3. ASSUME NEW i \in Instance, DrainMeter(i) PROVE Unreported'
  <2>0. Row(i) \in todo[i] /\ Row(i).id \in RowId
    BY <1>0, <1>3, BusyDrainer DEF DrainMeter
  <2>1. /\ billed' = Bump(billed, table[Row(i).id].events) /\ buf' = buf /\ table' = table /\ fpc' = fpc
        /\ dpc[i] = "meter" /\ dpc'[i] = "clear" /\ \A j \in Instance : j = i
    BY <1>0, <1>3 DEF DrainMeter, memory, TypeOK, Alone
  <2>2. table[Row(i).id].status = "deleted"
    BY <1>0, <2>0, <2>1 DEF ListedActive
  <2>3. \A e \in Event : billed'[e] = IF e \in table[Row(i).id].events THEN billed[e] + 1 ELSE billed[e]
    BY <1>1, <2>1, Bumped
  <2>4. /\ \A k \in RowId : k # Row(i).id => table[k].events \cap table[Row(i).id].events = {}
        /\ \A k \in RowId : table[k].events \subseteq Event
    BY <1>0, <2>0 DEF Places, RowsApart, TypeOK, RowType
  <2>5. buf[i] \cap table[Row(i).id].events = {} /\ buf[i] \subseteq Event
    BY <1>0, <2>0 DEF Places, RowsApart, Held, TypeOK
  <2>6. \A e \in Event : billed'[e] <= 1
    BY <1>0, <1>1, <2>1, <2>3 DEF Unreported, MeteredAtMostOnce
  <2>7. \A k \in RowId : table'[k].status = "active" => \A e \in table'[k].events : billed'[e] = 0
    BY <1>0, <2>1, <2>2, <2>3, <2>4 DEF Unreported
  <2>8. fpc'[i] \in {"meter", "dlq"} => \A e \in buf'[i] : billed'[e] = 0
    BY <1>0, <2>1, <2>3, <2>5 DEF Unreported
  <2> QED
    BY <2>1, <2>6, <2>7, <2>8 DEF Unreported, MeteredAtMostOnce
<1>4. CASE billed' = billed
  <2>1. ASSUME NEW i \in Instance, fpc'[i] \in {"meter", "dlq"}, NEW e \in buf'[i]
        PROVE  billed[e] = 0
    <3>1. CASE fpc'[i] = fpc[i] /\ buf'[i] = buf[i]
      BY <1>0, <2>1, <3>1 DEF Unreported
    <3>2. CASE FlushInsert(i)
      <4>1. fpc[i] = "insert" /\ buf' = buf
        BY <3>2 DEF FlushInsert, memory
      <4>2. e \in Event /\ e \notin Landed
        BY <1>0, <2>1, <4>1 DEF NotLandedYet, TypeOK
      <4> QED
        BY <1>0, <4>2, UnlandedUnreported
    <3>3. CASE Flusher(i) /\ ~FlushInsert(i)
      BY <1>0, <2>1, <3>3 DEF Flusher, Receive, AppendEvents, Tick, FlushMeter, FlushClear, FlushDLQ, BufferDone, TypeOK
    <3>4. CASE Crash(i)
      BY <1>0, <2>1, <3>4 DEF Crash, TypeOK
    <3>5. \A j \in Instance : j = i
      BY <1>0 DEF Alone
    <3> QED
      BY <3>1, <3>2, <3>3, <3>4, <3>5, FlushersAlone
  <2>2. ASSUME NEW k \in RowId, table'[k].status = "active", NEW e \in table'[k].events
        PROVE  billed[e] = 0
    <3>1. CASE table[k].status = "active" /\ table'[k].events = table[k].events
      BY <1>0, <2>2, <3>1 DEF Unreported
    <3>2. ASSUME NEW i \in Instance, FlushDLQ(i), table'[k].events = buf[i] PROVE billed[e] = 0
      <4>1. fpc[i] = "dlq"
        BY <3>2 DEF FlushDLQ
      <4> QED
        BY <1>0, <2>2, <3>2, <4>1 DEF Unreported
    <3> QED
      BY <1>0, <2>2, <3>1, <3>2, ActiveStep
  <2>3. ASSUME NEW i \in Instance, dpc'[i] = "meter", NEW e \in table'[Row(i)'.id].events
        PROVE  billed[e] = 0
    <3>1. dpc[i] \in {"meter", "delete"} /\ todo'[i] = todo[i]
      <4>1. CASE dpc'[i] = dpc[i] /\ todo'[i] = todo[i]
        BY <2>3, <4>1
      <4>2. CASE Drainer(i) /\ ~(dpc'[i] = dpc[i] /\ todo'[i] = todo[i])
        BY <1>0, <2>3, <4>2 DEF Drainer, List, Quarantine, DrainInsert, DrainBump, DrainDelete, DrainMeter,
           DrainClear, Count, RowDone, TypeOK
      <4>3. CASE Crash(i)
        BY <1>0, <2>3, <4>3 DEF Crash, TypeOK
      <4>4. \A j \in Instance : j = i
        BY <1>0 DEF Alone
      <4> QED
        BY <4>1, <4>2, <4>3, <4>4, DrainersAlone
    <3>2. Row(i)' = Row(i)
      BY <3>1, SameRow
    <3>3. Row(i) \in todo[i] /\ Row(i).id \in RowId /\ table[Row(i).id].status # "none"
      BY <1>0, <3>1, BusyDrainer
    <3>4. table'[Row(i).id].events = table[Row(i).id].events
      BY <3>3 DEF StoresGrow, RowKept
    <3>5. CASE dpc[i] = "meter"
      BY <1>0, <2>3, <3>2, <3>4, <3>5 DEF Unreported
    <3>6. CASE dpc[i] = "delete"
      <4>1. table[Row(i).id].status = "active"
        BY <1>0, <3>3, <3>6 DEF ListedActive
      <4> QED
        BY <1>0, <2>3, <3>2, <3>3, <3>4, <4>1 DEF Unreported
    <3> QED
      BY <3>1, <3>5, <3>6
  <2> QED
    BY <1>0, <1>4, <2>1, <2>2, <2>3 DEF Unreported, MeteredAtMostOnce
<1> QED
  BY <1>2, <1>3, <1>4 DEF Next, Handler, Check, Accept, Refuse, Crash, Age, vars,
     Flusher, Receive, AppendEvents, Tick, FlushInsert, FlushClear, FlushDLQ,
     Drainer, List, Quarantine, DrainInsert, DrainBump, DrainDelete, DrainClear, Count

LEMMA InitAlone == Alone /\ Init => AloneInv
<1> SUFFICES ASSUME Alone, Init PROVE AloneInv
  OBVIOUS
<1>1. Landed = {}
  BY DEF Init, Landed
<1>2. ListedActive
  BY DEF Init, ListedActive
<1>3. NotLandedYet
  BY <1>1 DEF NotLandedYet
<1>4. Unreported
  BY DEF Init, NoRow, Unreported, MeteredAtMostOnce
<1> QED
  BY <1>2, <1>3, <1>4, InitPlaces, InitCovered DEF AloneInv

LEMMA AloneStep == IndInv /\ AloneInv /\ [Next]_vars => AloneInv'
<1> SUFFICES ASSUME IndInv, AloneInv, [Next]_vars PROVE AloneInv'
  OBVIOUS
<1>1. TypeOK' /\ StoresGrow
  BY TypesKept, StepGrows DEF IndInv
<1>2. Places'
  BY PlacesStep DEF AloneInv
<1>3. AllCovered'
  BY CoveredStep DEF AloneInv
<1>4. NotLandedYet'
  BY <1>1, <1>2, NotLandedStep DEF AloneInv
<1>5. ListedActive'
  BY <1>1, ListedStep DEF AloneInv
<1>6. Unreported'
  BY <1>1, UnreportedStep
<1> QED
  BY <1>2, <1>3, <1>4, <1>5, <1>6 DEF AloneInv, Alone

\* A process that is alone with the databases counts no event twice, whatever
\* call fails, whatever reply is lost and whenever the process crashes.
THEOREM AloneMetersOnce == Alone /\ Spec => []MeteredAtMostOnce
<1>1. AloneInv => MeteredAtMostOnce
  BY DEF AloneInv, Unreported
<1> QED
  BY <1>1, InitAlone, AloneStep, SpecInv, PTL DEF Spec

\* And it inserts an event again only out of a row of failed_events that has
\* outlived its landing: a clean flush is final, and so is a deleted row.
THEOREM AloneInsertsAgain == Alone /\ Spec => InsertedAgainOnlyFromQueue
<1>1. ASSUME IndInv, AloneInv, [Next]_vars, NEW e \in Event, ch[e] > 0, ch'[e] > ch[e]
      PROVE  e \in Parked
  <2>0. TypeOK /\ NotLandedYet /\ ListedActive
    BY <1>1 DEF IndInv, AloneInv
  <2>1. ch \in [Event -> Nat] /\ e \in Landed
    BY <1>1, <2>0 DEF TypeOK, Landed
  <2>2. ASSUME NEW i \in Instance, FlushInsert(i), ch' = Bump(ch, buf[i]) PROVE e \in Parked
    <3>1. e \in buf[i]
      BY <1>1, <2>1, <2>2, Bumped
    <3>2. e \notin Landed
      BY <2>0, <2>2, <3>1 DEF FlushInsert, NotLandedYet
    <3> QED
      BY <2>1, <3>2
  <2>3. ASSUME NEW i \in Instance, DrainInsert(i), ch' = Bump(ch, table[Row(i).id].events)
        PROVE  e \in Parked
    <3>1. e \in table[Row(i).id].events
      BY <1>1, <2>1, <2>3, Bumped
    <3>2. Row(i) \in todo[i] /\ Row(i).id \in RowId /\ dpc[i] = "row"
      BY <2>0, <2>3, BusyDrainer DEF DrainInsert
    <3>3. table[Row(i).id].status = "active"
      BY <2>0, <3>2 DEF ListedActive
    <3> QED
      BY <3>1, <3>2, <3>3 DEF Parked, RowsIn
  <2>4. CASE ch' = ch
    BY <1>1, <2>1, <2>4
  <2> QED
    BY <1>1, <2>0, <2>2, <2>3, <2>4, LandedStep
<1>2. IndInv /\ AloneInv /\ [Next]_vars =>
         [\A e \in Event : ch[e] > 0 /\ ch'[e] > ch[e] => e \in Parked]_vars
  BY <1>1
<1> QED
  BY <1>2, InitAlone, AloneStep, SpecInv, PTL DEF Spec, InsertedAgainOnlyFromQueue
=============================================================================
