------------------------ MODULE IngestPipelineProofs ------------------------
(***************************************************************************)
(* Proofs about IngestPipeline, for any number of processes, events,       *)
(* requests, faults and crashes and for any limits.                        *)
(*                                                                         *)
(* Two facts carry the safety of the pipeline.  The databases only grow:   *)
(* an event that is in ClickHouse stays there and a row of failed_events   *)
(* keeps its payload (StoresGrow).  And a goroutine past its insert, with  *)
(* a batch or a row it is about to let go of, has put every event of it in *)
(* ClickHouse (BatchLanded, ReplayLanded).                                 *)
(***************************************************************************)
EXTENDS IngestPipeline, FiniteSetTheorems, SequenceTheorems, WellFoundedInduction, TLAPS

\* What a drainer read of a row is at most what the row says now.
CountsGrow ==
    \A i \in Instance : \A s \in todo[i] : s.attempts <= table[s.id].attempts

\* A flusher past its insert holds a batch that is in ClickHouse.
BatchLanded ==
    \A i \in Instance : fpc[i] \in {"meter", "clear"} => buf[i] \subseteq Landed

\* A drainer past its insert works on a row that is in ClickHouse.
ReplayLanded ==
    \A i \in Instance : dpc[i] \in {"delete", "meter", "clear"} => table[Row(i).id].events \subseteq Landed

\* A drainer past its delete works on a row that is gone.
ReplayDeleted ==
    \A i \in Instance : dpc[i] \in {"meter", "clear"} => table[Row(i).id].status = "deleted"

\* A flusher past its insert has seen one succeed since its flag went up.
InsertRecovers == \A i \in Instance : fpc[i] \in {"meter", "clear"} /\ fatal[i] => recovered[i]

\* A row is quarantined for its age or for the attempts it says it has had.
CountedOut ==
    \A k \in RowsIn("quarantined") : table[k].old \/ table[k].attempts + 1 >= AttemptLimit

\* A batch goes to the dead-letter queue only because a call failed.
DLQAfterFault == \A i \in Instance : fpc[i] = "dlq" => faults >= 1

IndInv ==
    /\ TypeOK
    /\ CountsGrow
    /\ BatchLanded
    /\ ReplayLanded
    /\ ReplayDeleted
    /\ InsertRecovers
    /\ DLQAfterFault
    /\ NoSilentLoss
    /\ CountedOut

\* What a step does to one row of failed_events that is there.
RowKept(k) ==
    /\ table'[k].status # "none"
    /\ table'[k].events = table[k].events
    /\ table'[k].attempts >= table[k].attempts
    /\ table[k].old => table'[k].old

\* A row is written active, quarantined when it has earned it and deleted when
\* its events have landed.
StatusStep(k) ==
    \/ table'[k].status = table[k].status
    \/ table'[k].status = "active" /\ table[k].status = "none"
    \/ /\ table'[k].status = "quarantined" /\ table[k].status = "active"
       /\ table[k].old \/ table[k].attempts + 1 >= AttemptLimit
    \/ table'[k].status = "deleted" /\ table[k].events \subseteq Landed

\* What a step does to the databases.
StoresGrow ==
    /\ \A k \in RowId : StatusStep(k) /\ (table[k].status # "none" => RowKept(k))
    /\ \A e \in Event : ch'[e] >= ch[e]
    /\ faults' >= faults
-----------------------------------------------------------------------------
(* Rows and batches *)

\* A set of numbers has a least element.
LEMMA LeastNumber ==
    ASSUME NEW S \in SUBSET Nat, S # {}
    PROVE  \E m \in S : \A n \in S : m <= n
<1> DEFINE R == {ss \in Nat \X Nat : ss[1] < ss[2]}
<1>1. IsWellFoundedOn(R, Nat)
  BY NatLessThanWellFounded, Zenon DEF OpToRel
<1>2. PICK m \in S : \A n \in S : ~(<<n, m>> \in R)
  BY <1>1, WFMin
<1>3. \A n \in S : ~(n < m)
  BY <1>2
<1> QED
  BY <1>3

\* The row a drainer works on is one it listed.
LEMMA RowListed ==
    ASSUME TypeOK, NEW i \in Instance, todo[i] # {}
    PROVE  /\ Row(i) \in todo[i]
           /\ Row(i).id \in RowId
           /\ Row(i).attempts \in Nat
           /\ table[Row(i).id].status # "none"
           /\ table[Row(i).id] \in RowType
<1>1. todo[i] \subseteq SnapshotType
  BY DEF TypeOK
<1>2. {s.id : s \in todo[i]} \subseteq Nat
  BY <1>1 DEF SnapshotType, RowId
<1>3. PICK m \in {s.id : s \in todo[i]} : \A n \in {s.id : s \in todo[i]} : m <= n
  BY <1>2, LeastNumber
<1>4. \E s \in todo[i] : \A t \in todo[i] : s.id <= t.id
  BY <1>3
<1>5. Row(i) \in todo[i]
  BY <1>4 DEF Row
<1> QED
  BY <1>1, <1>5 DEF TypeOK, SnapshotType

\* A busy drainer has a row.
LEMMA BusyDrainer ==
    ASSUME TypeOK, NEW i \in Instance, dpc[i] \in {"row", "bump", "delete", "meter", "clear"}
    PROVE  /\ Row(i) \in todo[i]
           /\ Row(i).id \in RowId
           /\ Row(i).attempts \in Nat
           /\ table[Row(i).id].status # "none"
           /\ table[Row(i).id] \in RowType
<1>1. todo[i] # {}
  BY DEF TypeOK
<1> QED
  BY <1>1, RowListed

\* The number of rows of a status is a number.
LEMMA RowsCount ==
    ASSUME NEW status
    PROVE  /\ IsFiniteSet(RowsIn(status))
           /\ Cardinality(RowsIn(status)) \in Nat
<1>1. IsFiniteSet(RowId)
  BY LimitAssumption, FS_Interval DEF RowId
<1>2. RowsIn(status) \in SUBSET RowId
  BY DEF RowsIn
<1> QED
  BY <1>1, <1>2, FS_Subset, FS_CardinalityType

\* InsertFailedEvent writes a row that was not there.
LEMMA RowInserted ==
    ASSUME TypeOK, NEW events \in SUBSET Event, InsertRow(events)
    PROVE  \E k \in RowId :
              LET row == [status |-> "active", events |-> events, attempts |-> 0, old |-> FALSE] IN
              /\ table[k].status = "none"
              /\ row \in RowType
              /\ table' = [table EXCEPT ![k] = row]
              /\ refused' = [refused EXCEPT ![k] = 1]
BY DEF InsertRow, RowsIn, RowType, RowStatus

\* Quarantining and deleting change nothing but the status of a row.
LEMMA RowMarked ==
    ASSUME TypeOK, NEW k \in RowId, table[k].status # "none",
           NEW status \in {"quarantined", "deleted"},
           table' = [table EXCEPT ![k].status = status]
    PROVE  /\ table' \in [RowId -> RowType]
           /\ table'[k].status = status
           /\ table'[k].attempts = table[k].attempts /\ table'[k].old = table[k].old
           /\ \A l \in RowId : l # k => table'[l] = table[l]
           /\ \A l \in RowId : table[l].status # "none" => RowKept(l)
<1>1. table \in [RowId -> RowType]
  BY DEF TypeOK
<1> QED
  BY <1>1 DEF RowType, RowStatus, RowKept

\* A failed replay adds one to the attempts of a row.
LEMMA RowTried ==
    ASSUME TypeOK, NEW k \in RowId, table[k].status # "none",
           table' = [table EXCEPT ![k].attempts = @ + 1]
    PROVE  /\ table' \in [RowId -> RowType]
           /\ table'[k].status = table[k].status /\ table'[k].old = table[k].old
           /\ \A l \in RowId : l # k => table'[l] = table[l]
           /\ \A l \in RowId : table[l].status # "none" => RowKept(l)
<1>1. table \in [RowId -> RowType]
  BY DEF TypeOK
<1> QED
  BY <1>1 DEF RowType, RowStatus, RowKept

\* One more copy, or one more bill, of some events.
LEMMA Bumped ==
    ASSUME NEW f \in [Event -> Nat], NEW S
    PROVE  /\ Bump(f, S) \in [Event -> Nat]
           /\ \A e \in Event : Bump(f, S)[e] = IF e \in S THEN f[e] + 1 ELSE f[e]
           /\ \A e \in Event : Bump(f, S)[e] >= f[e]
BY DEF Bump
-----------------------------------------------------------------------------
(* Types *)

\* Initially.
LEMMA InitTypes == Init => TypeOK
BY EmptySeq, LimitAssumption DEF Init, TypeOK, NoRow, RowType, RowStatus, FlusherState, DrainerState

\* The flag and the histories of the inserts.
LEMMA FlagTypes ==
    ASSUME TypeOK, NEW i \in Instance,
           \/ UNCHANGED <<fatal, recovered>>
           \/ UNCHANGED fatal /\ Recovers(i)
           \/ \E v \in BOOLEAN : SetFatal(i, v)
    PROVE  fatal' \in [Instance -> BOOLEAN] /\ recovered' \in [Instance -> BOOLEAN]
BY DEF TypeOK, Recovers, SetFatal

\* The handler.
LEMMA HandlerTypes ==
    ASSUME TypeOK, NEW r \in Request, NEW i \in Instance, Handler(r, i)
    PROVE  TypeOK'
<1>1. CASE Check(r, i)
  BY <1>1 DEF Check, TypeOK, memory, drainer, history, counters
<1>2. CASE Accept(r, i)
  <2>1. Append(queue[i], r) \in Seq(Request)
    BY AppendProperties DEF TypeOK
  <2> QED
    BY <1>2, <2>1 DEF Accept, TypeOK, drainer, history, counters
<1>3. CASE Refuse(r, i)
  BY <1>3 DEF Refuse, TypeOK, memory, drainer, history, counters
<1> QED
  BY <1>1, <1>2, <1>3 DEF Handler

\* The flusher.
LEMMA FlusherTypes ==
    ASSUME TypeOK, NEW i \in Instance, Flusher(i)
    PROVE  TypeOK'
<1>1. CASE Receive(i)
  <2>1. Tail(queue[i]) \in Seq(Request) /\ EventsOf[Head(queue[i])] \in SUBSET Event
    BY <1>1, HeadTailProperties, BatchAssumption DEF Receive, TypeOK
  <2> QED
    BY <1>1, <2>1 DEF Receive, TypeOK, FlusherState, drainer, history, counters
<1>2. CASE AppendEvents(i)
  <2>1. PICK T \in SUBSET cur[i] :
           LET full == Cardinality(buf[i] \cup T) = FlushEvents IN
           /\ T = cur[i] \/ full
           /\ full => Cardinality(buf[i] \cup T) # 0
           /\ buf' = [buf EXCEPT ![i] = @ \cup T]
           /\ cur' = [cur EXCEPT ![i] = @ \ T]
           /\ fpc' = [fpc EXCEPT ![i] = IF full THEN "insert" ELSE "select"]
    BY <1>2, LimitAssumption DEF AppendEvents
  <2>2. buf' \in [Instance -> SUBSET Event] /\ cur' \in [Instance -> SUBSET Event]
    BY <2>1 DEF TypeOK
  <2>3. fpc' \in [Instance -> FlusherState]
    BY <2>1 DEF TypeOK, FlusherState
  <2>4. fpc'[i] = "select" => cur'[i] = {}
    BY <2>1 DEF TypeOK
  <2>5. fpc'[i] = "insert" => buf'[i] # {}
    BY <2>1, FS_EmptySet DEF TypeOK
  <2>6. fpc'[i] \in {"insert", "select"}
    BY <2>1 DEF TypeOK
  <2>7. \A j \in Instance : j # i => cur'[j] = cur[j] /\ buf'[j] = buf[j] /\ fpc'[j] = fpc[j]
    BY <2>1 DEF TypeOK
  <2> QED
    BY <1>2, <2>2, <2>3, <2>4, <2>5, <2>6, <2>7 DEF AppendEvents, TypeOK, drainer, history, counters
<1>3. CASE Tick(i)
  BY <1>3 DEF Tick, TypeOK, FlusherState, memory, drainer, history, counters
<1>4. CASE FlushInsert(i)
  <2>1. ch' \in [Event -> Nat]
    <3>1. ch' = ch \/ ch' = Bump(ch, buf[i])
      BY <1>4 DEF FlushInsert
    <3>2. ch \in [Event -> Nat]
      BY DEF TypeOK
    <3> QED
      BY <3>1, <3>2, Bumped
  <2>2. faults' \in Nat
    BY <1>4 DEF FlushInsert, TypeOK, NoFault, Fault
  <2>3. recovered' \in [Instance -> BOOLEAN]
    BY <1>4, FlagTypes DEF FlushInsert
  <2> QED
    BY <1>4, <2>1, <2>2, <2>3 DEF FlushInsert, TypeOK, FlusherState, memory, drainer
<1>5. CASE FlushMeter(i)
  <2>1. billed' \in [Event -> Nat]
    BY <1>5 DEF FlushMeter, TypeOK, Bump
  <2> QED
    BY <1>5, <2>1 DEF FlushMeter, TypeOK, FlusherState, memory, drainer, history, counters
<1>6. CASE FlushClear(i)
  <2>1. fatal' \in [Instance -> BOOLEAN] /\ recovered' \in [Instance -> BOOLEAN]
    BY <1>6, FlagTypes DEF FlushClear
  <2> QED
    BY <1>6, <2>1 DEF FlushClear, BufferDone, TypeOK, FlusherState, drainer, counters
<1>7. CASE FlushDLQ(i)
  <2>1. /\ table' \in [RowId -> RowType]
        /\ \A k \in RowId : table[k].status # "none" => table'[k].status # "none"
        /\ refused' \in [RowId -> Nat]
    <3>1. CASE UNCHANGED <<table, refused>>
      BY <3>1 DEF TypeOK
    <3>2. CASE InsertRow(buf[i])
      <4>1. buf[i] \in SUBSET Event
        BY DEF TypeOK
      <4> QED
        <5>1. PICK k \in RowId : LET row == [status |-> "active", events |-> buf[i], attempts |-> 0, old |-> FALSE] IN
                 /\ row \in RowType
                 /\ table' = [table EXCEPT ![k] = row]
                 /\ refused' = [refused EXCEPT ![k] = 1]
          BY <3>2, <4>1, RowInserted
        <5> QED
          BY <5>1 DEF TypeOK
    <3> QED
      BY <1>7, <3>1, <3>2 DEF FlushDLQ
  <2>2. faults' \in Nat
    <3>1. NoFault \/ Fault
      BY <1>7 DEF FlushDLQ
    <3> QED
      BY <3>1 DEF TypeOK, NoFault, Fault
  <2>3. fatal' \in [Instance -> BOOLEAN] /\ recovered' \in [Instance -> BOOLEAN]
    BY <1>7, FlagTypes DEF FlushDLQ
  <2>4. dropped' \in SUBSET Event
    BY <1>7 DEF FlushDLQ, TypeOK
  <2>5. \A j \in Instance : \A s \in todo'[j] : table'[s.id].status # "none"
    BY <1>7, <2>1 DEF FlushDLQ, drainer, TypeOK, SnapshotType
  <2> QED
    BY <1>7, <2>1, <2>2, <2>3, <2>4, <2>5 DEF FlushDLQ, BufferDone, TypeOK, FlusherState, drainer
<1> QED
  BY <1>1, <1>2, <1>3, <1>4, <1>5, <1>6, <1>7 DEF Flusher

\* What the steps of a drainer do to failed_events.
LEMMA QuarantineRows ==
    ASSUME TypeOK, NEW i \in Instance, Quarantine(i)
    PROVE  /\ table' \in [RowId -> RowType]
           /\ \A k \in RowId : table[k].status # "none" => RowKept(k)
<1>1. Row(i).id \in RowId /\ table[Row(i).id].status # "none"
  BY BusyDrainer DEF Quarantine
<1>2. \/ table' = table
      \/ table' = [table EXCEPT ![Row(i).id].status = "quarantined"]
  BY DEF Quarantine
<1>3. CASE table' = table
  BY <1>3 DEF TypeOK, RowKept, RowType
<1>4. CASE table' = [table EXCEPT ![Row(i).id].status = "quarantined"]
  BY <1>1, <1>4, RowMarked
<1> QED
  BY <1>2, <1>3, <1>4

LEMMA DrainBumpRows ==
    ASSUME TypeOK, NEW i \in Instance, DrainBump(i)
    PROVE  /\ table' \in [RowId -> RowType]
           /\ \A k \in RowId : table[k].status # "none" => RowKept(k)
<1>1. Row(i).id \in RowId /\ table[Row(i).id].status # "none"
  BY BusyDrainer DEF DrainBump
<1>2. \/ table' = table
      \/ table' = [table EXCEPT ![Row(i).id].attempts = @ + 1]
  BY DEF DrainBump
<1>3. CASE table' = table
  BY <1>3 DEF TypeOK, RowKept, RowType
<1>4. CASE table' = [table EXCEPT ![Row(i).id].attempts = @ + 1]
  BY <1>1, <1>4, RowTried
<1> QED
  BY <1>2, <1>3, <1>4

LEMMA DrainDeleteRows ==
    ASSUME TypeOK, NEW i \in Instance, DrainDelete(i)
    PROVE  /\ table' \in [RowId -> RowType]
           /\ \A k \in RowId : table[k].status # "none" => RowKept(k)
<1>1. Row(i).id \in RowId /\ table[Row(i).id].status # "none"
  BY BusyDrainer DEF DrainDelete
<1>2. \/ table' = table
      \/ table' = [table EXCEPT ![Row(i).id].status = "deleted"]
  BY DEF DrainDelete
<1>3. CASE table' = table
  BY <1>3 DEF TypeOK, RowKept, RowType
<1>4. CASE table' = [table EXCEPT ![Row(i).id].status = "deleted"]
  BY <1>1, <1>4, RowMarked
<1> QED
  BY <1>2, <1>3, <1>4

\* Going on to the next row keeps the list of rows to do and the state in step.
LEMMA RowDoneTypes ==
    ASSUME TypeOK, NEW i \in Instance, todo[i] # {}, RowDone(i)
    PROVE  /\ todo' \in [Instance -> SUBSET SnapshotType]
           /\ dpc' \in [Instance -> DrainerState]
           /\ depth' \in [Instance -> Nat]
           /\ \A j \in Instance :
                 /\ dpc'[j] \in {"row", "bump", "delete", "meter", "clear"} <=> todo'[j] # {}
                 /\ todo'[j] \subseteq todo[j]
<1>1. Row(i) \in todo[i]
  BY RowListed
<1> QED
  BY <1>1 DEF RowDone, TypeOK, DrainerState

\* A row that is on nobody's list, or stays there, keeps the lists sound.
LEMMA ListsSound ==
    ASSUME TypeOK,
           \A k \in RowId : table[k].status # "none" => table'[k].status # "none",
           \A j \in Instance : todo'[j] \subseteq todo[j]
    PROVE  \A j \in Instance : \A s \in todo'[j] : table'[s.id].status # "none"
BY DEF TypeOK, SnapshotType

\* The drain goroutine.
LEMMA DrainerTypes ==
    ASSUME TypeOK, NEW i \in Instance, Drainer(i)
    PROVE  TypeOK'
<1>1. CASE List(i)
  <2>1. CASE UNCHANGED <<todo, dpc>>
    BY <1>1, <2>1 DEF List, NoFault, Fault, TypeOK, memory, history
  <2>2. CASE /\ NoFault
             /\ todo' = [todo EXCEPT ![i] = {Snapshot(k) : k \in Oldest}]
             /\ dpc' = [dpc EXCEPT ![i] = IF Oldest = {} THEN "count" ELSE "row"]
    <3>1. \A k \in Oldest : k \in RowId /\ table[k].status = "active"
      BY DEF Oldest, RowsIn
    <3>2. \A k \in Oldest : Snapshot(k) \in SnapshotType /\ Snapshot(k).id = k
      BY <3>1 DEF Snapshot, SnapshotType, TypeOK, RowType
    <3>3. todo'[i] \in SUBSET SnapshotType /\ (todo'[i] = {} <=> Oldest = {})
      BY <2>2, <3>2 DEF TypeOK
    <3>4. \A s \in todo'[i] : table[s.id].status # "none"
      BY <2>2, <3>1, <3>2 DEF TypeOK
    <3>5. dpc'[i] = IF Oldest = {} THEN "count" ELSE "row"
      BY <2>2 DEF TypeOK
    <3>6. \A j \in Instance : j # i => todo'[j] = todo[j] /\ dpc'[j] = dpc[j]
      BY <2>2 DEF TypeOK
    <3>7. todo' \in [Instance -> SUBSET SnapshotType] /\ dpc' \in [Instance -> DrainerState]
      BY <2>2, <3>3 DEF TypeOK, DrainerState
    <3> QED
      BY <1>1, <2>2, <3>3, <3>4, <3>5, <3>6, <3>7, ZenonT(60) DEF List, NoFault, TypeOK, memory, history
  <2> QED
    BY <1>1, <2>1, <2>2 DEF List
<1>2. CASE Quarantine(i)
  <2>1. Row(i) \in todo[i] /\ Row(i).id \in RowId /\ table[Row(i).id] \in RowType
    BY <1>2, BusyDrainer DEF Quarantine
  <2>2. /\ table' \in [RowId -> RowType]
        /\ \A k \in RowId : table[k].status # "none" => table'[k].status # "none"
    BY <1>2, QuarantineRows DEF RowKept
  <2>3. faults' \in Nat
    BY <1>2 DEF Quarantine, NoFault, Fault, TypeOK
  <2> QED
    BY <1>2, <2>1, <2>2, <2>3, RowDoneTypes, ListsSound DEF Quarantine, TypeOK, memory, history
<1>3. CASE DrainInsert(i)
  <2>1. Row(i) \in todo[i]
    BY <1>3, BusyDrainer DEF DrainInsert
  <2>2. ch' \in [Event -> Nat]
    <3>1. ch' = ch \/ ch' = Bump(ch, table[Row(i).id].events)
      BY <1>3 DEF DrainInsert
    <3>2. ch \in [Event -> Nat]
      BY DEF TypeOK
    <3> QED
      BY <3>1, <3>2, Bumped
  <2>3. faults' \in Nat
    BY <1>3 DEF DrainInsert, NoFault, Fault, TypeOK
  <2>4. recovered' \in [Instance -> BOOLEAN]
    BY <1>3, FlagTypes DEF DrainInsert
  <2>5. refused' \in [RowId -> Nat]
    <3>1. Row(i).id \in RowId
      BY <1>3, BusyDrainer DEF DrainInsert
    <3> QED
      BY <1>3, <3>1 DEF DrainInsert, TypeOK
  <2> QED
    BY <1>3, <2>1, <2>2, <2>3, <2>4, <2>5 DEF DrainInsert, TypeOK, DrainerState, memory
<1>4. CASE DrainBump(i)
  <2>1. Row(i) \in todo[i] /\ Row(i).id \in RowId /\ table[Row(i).id] \in RowType
    BY <1>4, BusyDrainer DEF DrainBump
  <2>2. /\ table' \in [RowId -> RowType]
        /\ \A k \in RowId : table[k].status # "none" => table'[k].status # "none"
    BY <1>4, DrainBumpRows DEF RowKept
  <2>3. faults' \in Nat
    BY <1>4 DEF DrainBump, NoFault, Fault, TypeOK
  <2> QED
    BY <1>4, <2>1, <2>2, <2>3, RowDoneTypes, ListsSound DEF DrainBump, TypeOK, memory, history
<1>5. CASE DrainDelete(i)
  <2>1. Row(i) \in todo[i] /\ Row(i).id \in RowId /\ table[Row(i).id] \in RowType
    BY <1>5, BusyDrainer DEF DrainDelete
  <2>2. /\ table' \in [RowId -> RowType]
        /\ \A k \in RowId : table[k].status # "none" => table'[k].status # "none"
    BY <1>5, DrainDeleteRows DEF RowKept
  <2>3. faults' \in Nat
    BY <1>5 DEF DrainDelete, NoFault, Fault, TypeOK
  <2>4. CASE RowDone(i)
    BY <1>5, <2>1, <2>2, <2>3, <2>4, RowDoneTypes, ListsSound DEF DrainDelete, TypeOK, memory, history
  <2>5. CASE dpc' = [dpc EXCEPT ![i] = "meter"] /\ UNCHANGED <<todo, depth>>
    <3>1. \A j \in Instance : \A s \in todo'[j] : table'[s.id].status # "none"
      BY <2>2, <2>5, ListsSound
    <3> QED
      BY <1>5, <2>1, <2>2, <2>3, <2>5, <3>1 DEF DrainDelete, TypeOK, DrainerState, memory, history
  <2> QED
    BY <1>5, <2>4, <2>5 DEF DrainDelete
<1>6. CASE DrainMeter(i)
  <2>1. billed' \in [Event -> Nat]
    BY <1>6 DEF DrainMeter, TypeOK, Bump
  <2> QED
    BY <1>6, <2>1 DEF DrainMeter, TypeOK, DrainerState, memory, history, counters
<1>7. CASE Count(i)
  <2>1. Cardinality(RowsIn("active")) \in Nat
    BY RowsCount
  <2>2. depth' \in [Instance -> Nat]
    BY <1>7, <2>1 DEF Count, TypeOK
  <2>3. faults' \in Nat
    BY <1>7 DEF Count, NoFault, Fault, TypeOK
  <2> QED
    BY <1>7, <2>2, <2>3 DEF Count, TypeOK, DrainerState, memory, history
<1>8. CASE DrainClear(i)
  <2>1. Row(i) \in todo[i]
    BY <1>8, BusyDrainer DEF DrainClear
  <2>2. fatal' \in [Instance -> BOOLEAN] /\ recovered' \in [Instance -> BOOLEAN]
    BY <1>8, FlagTypes DEF DrainClear
  <2>3. \A j \in Instance : \A s \in todo'[j] : table'[s.id].status # "none"
    BY <1>8, <2>1, RowDoneTypes, ListsSound DEF DrainClear
  <2>4. /\ todo' \in [Instance -> SUBSET SnapshotType]
        /\ dpc' \in [Instance -> DrainerState]
        /\ depth' \in [Instance -> Nat]
        /\ \A j \in Instance : dpc'[j] \in {"row", "bump", "delete", "meter", "clear"} <=> todo'[j] # {}
    BY <1>8, <2>1, RowDoneTypes DEF DrainClear
  <2>5. UNCHANGED <<accepted, handlers, queue, cur, buf, fpc, table, ch, billed, dropped, vanished,
                    refused, faults, crashes>>
    BY <1>8 DEF DrainClear, memory, counters
  <2> QED
    BY <2>2, <2>3, <2>4, <2>5 DEF TypeOK
<1> QED
  BY <1>1, <1>2, <1>3, <1>4, <1>5, <1>6, <1>7, <1>8 DEF Drainer

\* Rows age and processes die.
LEMMA EnvironmentTypes ==
    ASSUME TypeOK,
           (\E k \in RowId : Age(k)) \/ (\E i \in Instance : Crash(i)) \/ UNCHANGED vars
    PROVE  TypeOK'
<1>1. CASE \E k \in RowId : Age(k)
  <2>1. PICK k \in RowId : Age(k)
    BY <1>1
  <2>2. table' \in [RowId -> RowType] /\ \A l \in RowId : table'[l].status = table[l].status
    BY <2>1, ZenonT(60) DEF Age, TypeOK, RowType
  <2> QED
    BY <2>1, <2>2 DEF Age, TypeOK, SnapshotType, memory, drainer, history, counters
<1>2. CASE \E i \in Instance : Crash(i)
  <2>1. PICK i \in Instance : Crash(i)
    BY <1>2
  <2>2. Held(i) \in SUBSET Event
    <3>1. \A x \in 1..Len(queue[i]) : queue[i][x] \in Request
      BY ElementOfSeq DEF TypeOK
    <3> QED
      BY <3>1, BatchAssumption DEF Held, Queued, EventsIn, TypeOK
  <2>3. <<>> \in Seq(Request)
    BY EmptySeq
  <2>4. fatal' \in [Instance -> BOOLEAN] /\ recovered' \in [Instance -> BOOLEAN]
    BY <2>1, FlagTypes DEF Crash
  <2>5. /\ dpc' \in [Instance -> DrainerState] /\ todo' \in [Instance -> SUBSET SnapshotType]
        /\ \A j \in Instance : dpc'[j] \in {"row", "bump", "delete", "meter", "clear"} <=> todo'[j] # {}
        /\ \A j \in Instance : todo'[j] \subseteq todo[j]
    BY <2>1 DEF Crash, TypeOK, DrainerState
  <2>6. \A j \in Instance : \A s \in todo'[j] : table'[s.id].status # "none"
    BY <2>1, <2>5, ListsSound DEF Crash
  <2>7. /\ fpc' \in [Instance -> FlusherState] /\ cur' \in [Instance -> SUBSET Event]
        /\ buf' \in [Instance -> SUBSET Event] /\ queue' \in [Instance -> Seq(Request)]
        /\ \A j \in Instance : /\ fpc'[j] = "select" => cur'[j] = {}
                             /\ fpc'[j] \in {"insert", "meter", "clear", "dlq"} => buf'[j] # {}
    BY <2>1, <2>3 DEF Crash, TypeOK, FlusherState
  <2>8. /\ handlers' \in [Instance -> SUBSET Request] /\ depth' \in [Instance -> Nat]
        /\ vanished' \in SUBSET Event /\ crashes' \in Nat
    BY <2>1, <2>2 DEF Crash, TypeOK
  <2> QED
    BY <2>1, <2>4, <2>5, <2>6, <2>7, <2>8 DEF Crash, TypeOK
<1>3. CASE UNCHANGED vars
  BY <1>3 DEF vars, TypeOK
<1> QED
  BY <1>1, <1>2, <1>3

LEMMA TypesKept == TypeOK /\ [Next]_vars => TypeOK'
BY HandlerTypes, FlusherTypes, DrainerTypes, EnvironmentTypes DEF Next

\* The state keeps its types; in particular a flusher that is past its loop
\* has a batch and a drainer that is past its list has a row.
THEOREM TypeCorrect == Spec => []TypeOK
BY InitTypes, TypesKept, PTL DEF Spec
-----------------------------------------------------------------------------
(* The databases only grow *)

\* A step that leaves failed_events alone.
LEMMA TableAlone ==
    ASSUME TypeOK, table' = table
    PROVE  \A k \in RowId : StatusStep(k) /\ (table[k].status # "none" => RowKept(k))
BY DEF TypeOK, RowType, StatusStep, RowKept

\* A step of a flusher.
LEMMA FlusherGrows ==
    ASSUME IndInv, NEW i \in Instance, Flusher(i)
    PROVE  StoresGrow
<1>0. TypeOK
  BY DEF IndInv
<1>1. \A k \in RowId : StatusStep(k) /\ (table[k].status # "none" => RowKept(k))
  <2>1. CASE table' = table
    BY <1>0, <2>1, TableAlone
  <2>2. CASE InsertRow(buf[i])
    <3>1. buf[i] \in SUBSET Event
      BY <1>0 DEF TypeOK
    <3>2. PICK k \in RowId : LET row == [status |-> "active", events |-> buf[i], attempts |-> 0, old |-> FALSE] IN
             table[k].status = "none" /\ table' = [table EXCEPT ![k] = row]
      BY <1>0, <2>2, <3>1, RowInserted
    <3>3. table'[k].status = "active" /\ \A l \in RowId : l # k => table'[l] = table[l]
      BY <1>0, <3>2 DEF TypeOK
    <3> QED
      BY <1>0, <3>2, <3>3 DEF TypeOK, RowType, StatusStep, RowKept
  <2> QED
    BY <2>1, <2>2 DEF Flusher, Receive, AppendEvents, Tick, FlushInsert, FlushMeter, FlushClear, FlushDLQ
<1>2. \A e \in Event : ch'[e] >= ch[e]
  <2>1. ch' = ch \/ ch' = Bump(ch, buf[i])
    BY DEF Flusher, Receive, AppendEvents, Tick, FlushInsert, FlushMeter, FlushClear, FlushDLQ
  <2>2. ch \in [Event -> Nat]
    BY <1>0 DEF TypeOK
  <2> QED
    BY <2>1, <2>2, Bumped
<1>3. faults' >= faults
  <2>1. NoFault \/ Fault
    BY DEF Flusher, Receive, AppendEvents, Tick, FlushInsert, FlushMeter, FlushClear, FlushDLQ,
       NoFault, counters
  <2> QED
    BY <1>0, <2>1 DEF NoFault, Fault, TypeOK
<1> QED
  BY <1>1, <1>2, <1>3 DEF StoresGrow

\* A row is quarantined for its age or its attempts: what the drainer read of
\* it can only be less than what it says now.
LEMMA QuarantineEarned ==
    ASSUME IndInv, NEW i \in Instance, Quarantine(i), NEW k \in RowId
    PROVE  StatusStep(k)
<1>0. TypeOK /\ CountsGrow
  BY DEF IndInv
<1>1. /\ Row(i) \in todo[i] /\ Row(i).id \in RowId /\ Row(i).attempts \in Nat
      /\ table[Row(i).id].status # "none" /\ table[Row(i).id] \in RowType
  BY <1>0, BusyDrainer DEF Quarantine
<1>2. table[Row(i).id].old \/ table[Row(i).id].attempts + 1 >= AttemptLimit
  <2>1. Row(i).attempts <= table[Row(i).id].attempts
    BY <1>0, <1>1 DEF CountsGrow
  <2>2. Row(i).attempts + 1 >= AttemptLimit \/ table[Row(i).id].old
    BY DEF Quarantine, ShouldQuarantine
  <2> QED
    BY <1>1, <2>1, <2>2, LimitAssumption DEF RowType
<1>3. \/ table' = table
      \/ /\ table[Row(i).id].status = "active"
         /\ table' = [table EXCEPT ![Row(i).id].status = "quarantined"]
  BY DEF Quarantine
<1>4. CASE table' = table
  BY <1>4 DEF StatusStep
<1>5. CASE /\ table[Row(i).id].status = "active"
           /\ table' = [table EXCEPT ![Row(i).id].status = "quarantined"]
  <2>1. /\ table'[Row(i).id].status = "quarantined"
        /\ \A l \in RowId : l # Row(i).id => table'[l] = table[l]
    BY <1>0, <1>1, <1>5, RowMarked
  <2> QED
    BY <1>1, <1>2, <1>5, <2>1 DEF StatusStep
<1> QED
  BY <1>3, <1>4, <1>5

\* A row is deleted after its events have landed.
LEMMA DeletedLanded ==
    ASSUME IndInv, NEW i \in Instance, DrainDelete(i), NEW k \in RowId
    PROVE  StatusStep(k)
<1>0. TypeOK /\ ReplayLanded
  BY DEF IndInv
<1>1. Row(i).id \in RowId /\ table[Row(i).id].status # "none"
  BY <1>0, BusyDrainer DEF DrainDelete
<1>2. table[Row(i).id].events \subseteq Landed
  BY <1>0 DEF DrainDelete, ReplayLanded
<1>3. \/ table' = table
      \/ table' = [table EXCEPT ![Row(i).id].status = "deleted"]
  BY DEF DrainDelete
<1>4. CASE table' = table
  BY <1>4 DEF StatusStep
<1>5. CASE table' = [table EXCEPT ![Row(i).id].status = "deleted"]
  <2>1. /\ table'[Row(i).id].status = "deleted"
        /\ \A l \in RowId : l # Row(i).id => table'[l] = table[l]
    BY <1>0, <1>1, <1>5, RowMarked
  <2> QED
    BY <1>2, <2>1 DEF StatusStep
<1> QED
  BY <1>3, <1>4, <1>5

\* A failed replay leaves the status of every row alone.
LEMMA TriedStatus ==
    ASSUME TypeOK, NEW i \in Instance, DrainBump(i), NEW k \in RowId
    PROVE  StatusStep(k)
<1>1. Row(i).id \in RowId /\ table[Row(i).id].status # "none"
  BY BusyDrainer DEF DrainBump
<1>2. \/ table' = table
      \/ table' = [table EXCEPT ![Row(i).id].attempts = @ + 1]
  BY DEF DrainBump
<1>3. CASE table' = table
  BY <1>3 DEF StatusStep
<1>4. CASE table' = [table EXCEPT ![Row(i).id].attempts = @ + 1]
  <2>1. /\ table'[Row(i).id].status = table[Row(i).id].status
        /\ \A l \in RowId : l # Row(i).id => table'[l] = table[l]
    BY <1>1, <1>4, RowTried
  <2> QED
    BY <2>1 DEF StatusStep
<1> QED
  BY <1>2, <1>3, <1>4

\* A step of a drain goroutine.
LEMMA DrainerGrows ==
    ASSUME IndInv, NEW i \in Instance, Drainer(i)
    PROVE  StoresGrow
<1>0. TypeOK
  BY DEF IndInv
<1>1. \A k \in RowId : StatusStep(k) /\ (table[k].status # "none" => RowKept(k))
  <2>1. CASE table' = table
    BY <1>0, <2>1, TableAlone
  <2>2. CASE Quarantine(i)
    BY <1>0, <2>2, QuarantineRows, QuarantineEarned
  <2>3. CASE DrainBump(i)
    BY <1>0, <2>3, DrainBumpRows, TriedStatus
  <2>4. CASE DrainDelete(i)
    BY <1>0, <2>4, DrainDeleteRows, DeletedLanded
  <2> QED
    BY <2>1, <2>2, <2>3, <2>4 DEF Drainer, List, DrainInsert, DrainMeter, DrainClear, Count
<1>2. \A e \in Event : ch'[e] >= ch[e]
  <2>1. ch' = ch \/ ch' = Bump(ch, table[Row(i).id].events)
    BY DEF Drainer, List, Quarantine, DrainInsert, DrainBump, DrainDelete, DrainMeter, DrainClear, Count
  <2>2. ch \in [Event -> Nat]
    BY <1>0 DEF TypeOK
  <2> QED
    BY <2>1, <2>2, Bumped
<1>3. faults' >= faults
  <2>1. NoFault \/ Fault
    BY DEF Drainer, List, Quarantine, DrainInsert, DrainBump, DrainDelete, DrainMeter, DrainClear, Count,
       NoFault, counters
  <2> QED
    BY <1>0, <2>1 DEF NoFault, Fault, TypeOK
<1> QED
  BY <1>1, <1>2, <1>3 DEF StoresGrow

\* Every step: what is in a database stays there.
LEMMA StepGrows ==
    ASSUME IndInv, [Next]_vars
    PROVE  StoresGrow
<1>0. TypeOK
  BY DEF IndInv
<1>1. CASE \E k \in RowId : Age(k)
  <2>1. PICK k \in RowId : Age(k)
    BY <1>1
  <2>2. \A l \in RowId : StatusStep(l) /\ (table[l].status # "none" => RowKept(l))
    BY <1>0, <2>1 DEF Age, TypeOK, RowType, StatusStep, RowKept
  <2> QED
    BY <1>0, <2>1, <2>2 DEF Age, counters, TypeOK, StoresGrow
<1>2. CASE table' = table /\ ch' = ch /\ faults' = faults
  BY <1>0, <1>2, TableAlone DEF StoresGrow, TypeOK
<1>3. CASE \E i \in Instance : Flusher(i)
  BY <1>3, FlusherGrows
<1>4. CASE \E i \in Instance : Drainer(i)
  BY <1>4, DrainerGrows
<1> QED
  BY <1>1, <1>2, <1>3, <1>4 DEF Next, Handler, Check, Accept, Refuse, Crash, vars, counters

\* What is in ClickHouse stays there.
LEMMA LandedGrows ==
    ASSUME TypeOK, TypeOK', StoresGrow
    PROVE  Landed \subseteq Landed'
BY DEF TypeOK, StoresGrow, Landed

\* What is in ClickHouse or in the dead-letter queue stays in one of them.
LEMMA FiledGrows ==
    ASSUME TypeOK, TypeOK', StoresGrow
    PROVE  Landed \cup Parked \cup Quarantined \subseteq Landed' \cup Parked' \cup Quarantined'
<1>1. Landed \subseteq Landed'
  BY LandedGrows
<1>2. ASSUME NEW k \in RowId, table[k].status \in {"active", "quarantined"},
             NEW e \in table[k].events
      PROVE  e \in Landed' \cup Parked' \cup Quarantined'
  <2>1. e \in table'[k].events
    BY <1>2 DEF StoresGrow, RowKept
  <2>2. table'[k].status \in {"active", "quarantined"} \/ e \in Landed
    BY <1>2 DEF StoresGrow, StatusStep
  <2>3. table'[k].status = "active" => e \in Parked'
    BY <2>1 DEF Parked, RowsIn
  <2>4. table'[k].status = "quarantined" => e \in Quarantined'
    BY <2>1 DEF Quarantined, RowsIn
  <2> QED
    BY <1>1, <2>2, <2>3, <2>4
<1> QED
  BY <1>1, <1>2 DEF Parked, Quarantined, RowsIn
-----------------------------------------------------------------------------
(* The invariant, part by part *)

\* A step that lists no new row.
LEMMA NoNewRows ==
    ASSUME TypeOK, StoresGrow, CountsGrow, \A j \in Instance : todo'[j] \subseteq todo[j],
           TypeOK'
    PROVE  CountsGrow'
<1> SUFFICES ASSUME NEW j \in Instance, NEW s \in todo'[j]
             PROVE  s.attempts <= table'[s.id].attempts
  BY DEF CountsGrow
<1>1. s \in todo[j] /\ s.id \in RowId /\ s.attempts \in Nat
  BY DEF TypeOK, SnapshotType
<1>2. table[s.id].status # "none" /\ s.attempts <= table[s.id].attempts
  BY <1>1 DEF TypeOK, CountsGrow
<1>3. table'[s.id].attempts >= table[s.id].attempts
  BY <1>1, <1>2 DEF StoresGrow, RowKept
<1>4. table[s.id].attempts \in Nat /\ table'[s.id].attempts \in Nat
  BY <1>1 DEF TypeOK, RowType
<1> QED
  BY <1>1, <1>2, <1>3, <1>4

LEMMA CountsStep ==
    ASSUME IndInv, [Next]_vars, TypeOK', StoresGrow
    PROVE  CountsGrow'
<1>0. TypeOK /\ CountsGrow
  BY DEF IndInv
<1>1. CASE \E i \in Instance : List(i)
  <2>1. PICK i \in Instance : List(i)
    BY <1>1
  <2>2. table' = table
    BY <2>1 DEF List
  <2>3. CASE todo' = [todo EXCEPT ![i] = {Snapshot(k) : k \in Oldest}]
    <3>1. \A k \in Oldest : k \in RowId /\ table[k].attempts \in Nat
      BY <1>0 DEF Oldest, RowsIn, TypeOK, RowType
    <3>2. \A k \in Oldest : Snapshot(k).attempts <= table[Snapshot(k).id].attempts
      BY <3>1 DEF Snapshot
    <3>3. \A s \in todo'[i] : s.attempts <= table[s.id].attempts
      BY <1>0, <2>3, <3>2 DEF TypeOK
    <3>4. \A j \in Instance : j # i => todo'[j] = todo[j]
      BY <1>0, <2>3 DEF TypeOK
    <3> QED
      BY <1>0, <2>2, <3>3, <3>4 DEF CountsGrow
  <2>4. CASE todo' = todo
    BY <1>0, <2>4, NoNewRows
  <2> QED
    BY <2>1, <2>3, <2>4 DEF List
<1>2. CASE \A j \in Instance : todo'[j] \subseteq todo[j]
  BY <1>0, <1>2, NoNewRows
<1>3. CASE todo' = todo
  BY <1>0, <1>3, NoNewRows
<1>4. CASE \E i \in Instance : Crash(i)
  <2>1. \A j \in Instance : todo'[j] \subseteq todo[j]
    BY <1>0, <1>4 DEF Crash, TypeOK
  <2> QED
    BY <1>2, <2>1
<1>5. CASE \E i \in Instance : RowDone(i)
  <2>1. \A j \in Instance : todo'[j] \subseteq todo[j]
    BY <1>0, <1>5 DEF RowDone, TypeOK
  <2> QED
    BY <1>2, <2>1
<1> QED
  BY <1>1, <1>3, <1>4, <1>5 DEF Next, Handler, Check, Accept, Refuse,
     Flusher, Receive, AppendEvents, Tick, FlushInsert, FlushMeter, FlushClear, FlushDLQ,
     Drainer, Quarantine, DrainInsert, DrainBump, DrainDelete, DrainMeter, DrainClear, Count, Age, drainer, vars

\* A step of the flusher of one process leaves those of the others alone.
LEMMA FlusherAlone ==
    ASSUME TypeOK, NEW i \in Instance, Flusher(i)
    PROVE  \A j \in Instance : j # i => fpc'[j] = fpc[j] /\ buf'[j] = buf[j]
BY DEF TypeOK, Flusher, Receive, AppendEvents, Tick, FlushInsert, FlushMeter, FlushClear, FlushDLQ,
       BufferDone, memory

\* Only a flusher and a crash touch the flushers.
LEMMA FlushersAlone ==
    ASSUME [Next]_vars
    PROVE  \/ \E i \in Instance : Flusher(i)
           \/ \E i \in Instance : Crash(i)
           \/ fpc' = fpc /\ buf' = buf
BY DEF Next, Handler, Check, Accept, Refuse, Age, vars, memory, drainer,
       Drainer, List, Quarantine, DrainInsert, DrainBump, DrainDelete, DrainMeter, DrainClear, Count

\* Only its insert takes a flusher to the steps that follow a success.
LEMMA BatchLetGo ==
    ASSUME TypeOK, NEW i \in Instance, Flusher(i), ~FlushInsert(i), ~FlushMeter(i)
    PROVE  fpc'[i] \notin {"meter", "clear"}
<1>1. fpc \in [Instance -> FlusherState]
  BY DEF TypeOK
<1>2. CASE FlushClear(i) \/ FlushDLQ(i)
  BY <1>1, <1>2 DEF FlushClear, FlushDLQ, BufferDone
<1>3. CASE Receive(i) \/ AppendEvents(i) \/ Tick(i)
  BY <1>1, <1>3 DEF Receive, AppendEvents, Tick
<1> QED
  BY <1>2, <1>3 DEF Flusher

LEMMA BatchStep ==
    ASSUME IndInv, [Next]_vars, TypeOK', StoresGrow
    PROVE  BatchLanded'
<1>0. TypeOK /\ BatchLanded /\ Landed \subseteq Landed'
  BY LandedGrows DEF IndInv
<1> SUFFICES ASSUME NEW j \in Instance, fpc'[j] \in {"meter", "clear"}
             PROVE  buf'[j] \subseteq Landed'
  BY DEF BatchLanded
<1>1. CASE fpc'[j] = fpc[j] /\ buf'[j] = buf[j]
  BY <1>0, <1>1 DEF BatchLanded
<1>2. CASE \E i \in Instance : Flusher(i)
  <2>1. PICK i \in Instance : Flusher(i)
    BY <1>2
  <2>2. CASE j # i
    BY <1>0, <1>1, <2>1, <2>2, FlusherAlone
  <2>3. CASE j = i
    <3>1. CASE FlushInsert(i)
      <4>1. ch' = Bump(ch, buf[i]) /\ buf' = buf
        BY <1>0, <2>3, <3>1 DEF FlushInsert, TypeOK, memory
      <4>2. buf[i] \in SUBSET Event /\ ch \in [Event -> Nat]
        BY <1>0 DEF TypeOK
      <4>3. \A e \in buf[i] : ch'[e] = ch[e] + 1
        BY <4>1, <4>2, Bumped
      <4> QED
        BY <2>3, <4>1, <4>2, <4>3 DEF Landed
    <3>2. CASE FlushMeter(i)
      <4>1. fpc[i] = "meter" /\ buf' = buf
        BY <3>2 DEF FlushMeter, memory
      <4> QED
        BY <1>0, <2>3, <4>1 DEF BatchLanded
    <3>3. CASE ~FlushInsert(i) /\ ~FlushMeter(i)
      <4>1. fpc'[i] \notin {"meter", "clear"}
        BY <1>0, <2>1, <3>3, BatchLetGo
      <4> QED
        BY <2>3, <4>1
    <3> QED
      BY <3>1, <3>2, <3>3
  <2> QED
    BY <2>2, <2>3
<1>3. CASE \E i \in Instance : Crash(i)
  <2>1. PICK i \in Instance : Crash(i)
    BY <1>3
  <2>2. CASE j = i
    BY <1>0, <2>1, <2>2 DEF Crash, TypeOK
  <2>3. CASE j # i
    BY <1>0, <1>1, <2>1, <2>3 DEF Crash, TypeOK
  <2> QED
    BY <2>2, <2>3
<1> QED
  BY <1>1, <1>2, <1>3, FlushersAlone

LEMMA FaultStep ==
    ASSUME IndInv, [Next]_vars, StoresGrow
    PROVE  DLQAfterFault'
<1>0. TypeOK /\ DLQAfterFault /\ faults' >= faults /\ faults \in Nat
  BY DEF IndInv, StoresGrow, TypeOK
<1>1. faults' \in Nat
  BY <1>0, TypesKept DEF TypeOK
<1> SUFFICES ASSUME NEW j \in Instance, fpc'[j] = "dlq"
             PROVE  faults' >= 1
  BY DEF DLQAfterFault
<1>2. CASE fpc'[j] = fpc[j]
  BY <1>0, <1>1, <1>2 DEF DLQAfterFault
<1>3. CASE \E i \in Instance : Flusher(i)
  <2>1. PICK i \in Instance : Flusher(i)
    BY <1>3
  <2>2. CASE j # i
    BY <1>0, <1>2, <2>1, <2>2, FlusherAlone
  <2>3. CASE j = i
    <3>1. FlushInsert(i)
      BY <1>0, <2>1, <2>3 DEF TypeOK, Flusher, Receive, AppendEvents, Tick, FlushMeter, FlushClear, FlushDLQ,
         BufferDone
    <3>2. Fault
      BY <1>0, <2>3, <3>1 DEF FlushInsert, TypeOK
    <3> QED
      BY <1>0, <3>2 DEF Fault
  <2> QED
    BY <2>2, <2>3
<1>4. CASE \E i \in Instance : Crash(i)
  <2>1. PICK i \in Instance : Crash(i)
    BY <1>4
  <2> QED
    BY <1>0, <1>2, <2>1 DEF Crash, TypeOK
<1> QED
  BY <1>2, <1>3, <1>4, FlushersAlone

\* The row a drainer works on is the same as long as its list is.
LEMMA SameRow ==
    ASSUME NEW j \in Instance, todo'[j] = todo[j]
    PROVE  Row(j)' = Row(j)
BY DEF Row

\* A step of the drainer of one process leaves those of the others alone.
LEMMA DrainerAlone ==
    ASSUME TypeOK, NEW i \in Instance, Drainer(i)
    PROVE  \A j \in Instance : j # i => dpc'[j] = dpc[j] /\ todo'[j] = todo[j]
BY DEF TypeOK, Drainer, List, Quarantine, DrainInsert, DrainBump, DrainDelete, DrainMeter, DrainClear, Count, RowDone

\* Only a drainer and a crash touch the drainers.
LEMMA DrainersAlone ==
    ASSUME [Next]_vars
    PROVE  \/ \E i \in Instance : Drainer(i)
           \/ \E i \in Instance : Crash(i)
           \/ dpc' = dpc /\ todo' = todo
BY DEF Next, Handler, Check, Accept, Refuse, Age, vars, memory, drainer,
       Flusher, Receive, AppendEvents, Tick, FlushInsert, FlushMeter, FlushClear, FlushDLQ

LEMMA ReplayStep ==
    ASSUME IndInv, [Next]_vars, TypeOK', StoresGrow
    PROVE  ReplayLanded'
<1>0. TypeOK /\ ReplayLanded /\ Landed \subseteq Landed'
  BY LandedGrows DEF IndInv
<1> SUFFICES ASSUME NEW j \in Instance, dpc'[j] \in {"delete", "meter", "clear"}
             PROVE  table'[Row(j)'.id].events \subseteq Landed'
  BY DEF ReplayLanded
<1>1. CASE dpc[j] \in {"delete", "meter", "clear"} /\ todo'[j] = todo[j]
  <2>1. Row(j)' = Row(j)
    BY <1>1, SameRow
  <2>2. Row(j).id \in RowId /\ table[Row(j).id].status # "none"
    BY <1>0, <1>1, BusyDrainer
  <2>3. table'[Row(j).id].events = table[Row(j).id].events
    BY <2>2 DEF StoresGrow, RowKept
  <2> QED
    BY <1>0, <1>1, <2>1, <2>3 DEF ReplayLanded
<1>2. CASE \E i \in Instance : Drainer(i)
  <2>1. PICK i \in Instance : Drainer(i)
    BY <1>2
  <2>2. CASE j # i
    BY <1>0, <1>1, <2>1, <2>2, DrainerAlone
  <2>3. CASE j = i
    <3>1. CASE DrainInsert(i)
      <4>1. ch' = Bump(ch, table[Row(i).id].events) /\ table' = table /\ todo' = todo
        BY <1>0, <2>3, <3>1 DEF DrainInsert, TypeOK
      <4>2. table[Row(i).id].events \in SUBSET Event /\ ch \in [Event -> Nat]
        BY <1>0, <3>1, BusyDrainer DEF DrainInsert, TypeOK, RowType
      <4>3. \A e \in table[Row(i).id].events : ch'[e] = ch[e] + 1
        BY <4>1, <4>2, Bumped
      <4>4. Row(i)' = Row(i)
        BY <4>1, SameRow
      <4> QED
        BY <2>3, <4>1, <4>2, <4>3, <4>4 DEF Landed
    <3>2. CASE DrainDelete(i) \/ DrainMeter(i)
      <4>1. dpc[i] \in {"delete", "meter"} /\ todo' = todo
        BY <1>0, <2>3, <3>2 DEF DrainDelete, DrainMeter, RowDone, TypeOK
      <4> QED
        BY <1>1, <2>3, <4>1
    <3>3. CASE ~DrainInsert(i) /\ ~DrainDelete(i) /\ ~DrainMeter(i)
      <4>1. dpc'[i] \notin {"delete", "meter", "clear"} \/ (dpc' = dpc /\ todo' = todo)
        BY <1>0, <2>1, <3>3 DEF TypeOK, Drainer, List, Quarantine, DrainBump, DrainClear, Count, RowDone
      <4> QED
        BY <1>1, <2>3, <4>1
    <3> QED
      BY <3>1, <3>2, <3>3
  <2> QED
    BY <2>2, <2>3
<1>3. CASE \E i \in Instance : Crash(i)
  <2>1. PICK i \in Instance : Crash(i)
    BY <1>3
  <2> QED
    BY <1>0, <1>1, <2>1 DEF Crash, TypeOK
<1> QED
  BY <1>1, <1>2, <1>3, DrainersAlone

\* A row that is gone stays gone.
LEMMA GoneStep ==
    ASSUME IndInv, [Next]_vars, TypeOK', StoresGrow
    PROVE  ReplayDeleted'
<1>0. TypeOK /\ ReplayDeleted
  BY DEF IndInv
<1> SUFFICES ASSUME NEW j \in Instance, dpc'[j] \in {"meter", "clear"}
             PROVE  table'[Row(j)'.id].status = "deleted"
  BY DEF ReplayDeleted
<1>1. CASE dpc[j] \in {"meter", "clear"} /\ todo'[j] = todo[j]
  <2>1. Row(j)' = Row(j)
    BY <1>1, SameRow
  <2>2. Row(j).id \in RowId /\ table[Row(j).id].status = "deleted"
    BY <1>0, <1>1, BusyDrainer DEF ReplayDeleted
  <2> QED
    BY <2>1, <2>2 DEF StoresGrow, StatusStep
<1>2. CASE \E i \in Instance : Drainer(i)
  <2>1. PICK i \in Instance : Drainer(i)
    BY <1>2
  <2>2. CASE j # i
    BY <1>0, <1>1, <2>1, <2>2, DrainerAlone
  <2>3. CASE j = i
    <3>1. CASE DrainDelete(i)
      <4>1. table' = [table EXCEPT ![Row(i).id].status = "deleted"] /\ todo' = todo
        BY <1>0, <2>3, <3>1 DEF DrainDelete, RowDone, TypeOK
      <4>2. Row(i).id \in RowId
        BY <1>0, <3>1, BusyDrainer DEF DrainDelete
      <4>3. Row(i)' = Row(i)
        BY <4>1, SameRow
      <4> QED
        BY <1>0, <2>3, <4>1, <4>2, <4>3 DEF TypeOK, RowType
    <3>2. CASE DrainMeter(i)
      <4>1. dpc[i] = "meter" /\ todo' = todo
        BY <3>2 DEF DrainMeter
      <4> QED
        BY <1>1, <2>3, <4>1
    <3>3. CASE ~DrainDelete(i) /\ ~DrainMeter(i)
      <4>1. dpc'[i] \notin {"meter", "clear"} \/ (dpc' = dpc /\ todo' = todo)
        BY <1>0, <2>1, <3>3 DEF TypeOK, Drainer, List, Quarantine, DrainInsert, DrainBump, DrainClear, Count, RowDone
      <4> QED
        BY <1>1, <2>3, <4>1
    <3> QED
      BY <3>1, <3>2, <3>3
  <2> QED
    BY <2>2, <2>3
<1>3. CASE \E i \in Instance : Crash(i)
  <2>1. PICK i \in Instance : Crash(i)
    BY <1>3
  <2> QED
    BY <1>0, <1>1, <2>1 DEF Crash, TypeOK
<1> QED
  BY <1>1, <1>2, <1>3, DrainersAlone

\* The flag of a process goes up only where its flusher is done with a batch.
LEMMA RecoversStep ==
    ASSUME IndInv, [Next]_vars, TypeOK'
    PROVE  InsertRecovers'
<1>0. TypeOK /\ InsertRecovers
  BY DEF IndInv
<1> SUFFICES ASSUME NEW j \in Instance, fpc'[j] \in {"meter", "clear"}, fatal'[j]
             PROVE  recovered'[j]
  BY DEF InsertRecovers
<1>1. CASE \E i \in Instance : Flusher(i)
  <2>1. PICK i \in Instance : Flusher(i)
    BY <1>1
  <2>2. CASE j # i
    <3>1. fpc'[j] = fpc[j]
      BY <1>0, <2>1, <2>2, FlusherAlone
    <3>2. \/ UNCHANGED <<fatal, recovered>>
          \/ fatal' = fatal /\ Recovers(i)
          \/ \E value \in BOOLEAN : SetFatal(i, value)
      BY <2>1 DEF Flusher, Receive, AppendEvents, Tick, FlushInsert, FlushMeter, FlushClear, FlushDLQ, history
    <3>3. fatal'[j] = fatal[j] /\ recovered'[j] = recovered[j]
      BY <1>0, <2>2, <3>2 DEF TypeOK, Recovers, SetFatal
    <3> QED
      BY <1>0, <3>1, <3>3 DEF InsertRecovers
  <2>3. CASE j = i /\ FlushInsert(i)
    <3>1. fatal' = fatal /\ Recovers(i)
      BY <1>0, <2>3 DEF FlushInsert, TypeOK
    <3> QED
      BY <1>0, <2>3, <3>1 DEF Recovers, TypeOK
  <2>4. CASE j = i /\ FlushMeter(i)
    BY <1>0, <2>4 DEF FlushMeter, InsertRecovers, history
  <2>5. CASE j = i /\ ~FlushInsert(i) /\ ~FlushMeter(i)
    BY <1>0, <2>1, <2>5, BatchLetGo
  <2> QED
    BY <2>2, <2>3, <2>4, <2>5
<1>2. CASE \E i \in Instance : Drainer(i)
  <2>1. PICK i \in Instance : Drainer(i)
    BY <1>2
  <2>2. fpc' = fpc
    BY <2>1 DEF Drainer, List, Quarantine, DrainInsert, DrainBump, DrainDelete, DrainMeter, DrainClear, Count
  <2>3. CASE UNCHANGED <<fatal, recovered>>
    BY <1>0, <2>2, <2>3 DEF InsertRecovers
  <2>4. CASE UNCHANGED fatal /\ Recovers(i)
    BY <1>0, <2>2, <2>4 DEF InsertRecovers, Recovers, TypeOK
  <2>5. CASE SetFatal(i, FALSE)
    BY <1>0, <2>2, <2>5 DEF InsertRecovers, SetFatal, TypeOK
  <2> QED
    BY <2>1, <2>3, <2>4, <2>5 DEF Drainer, List, Quarantine, DrainInsert, DrainBump, DrainDelete,
       DrainMeter, DrainClear, Count, history
<1>3. CASE \E i \in Instance : Crash(i)
  BY <1>0, <1>3 DEF InsertRecovers, Crash, SetFatal, TypeOK
<1>4. CASE UNCHANGED <<fpc, fatal, recovered>>
  BY <1>0, <1>4 DEF InsertRecovers
<1> QED
  BY <1>1, <1>2, <1>3, <1>4 DEF Next, Handler, Check, Accept, Refuse, Age, vars, history

LEMMA CountedStep ==
    ASSUME IndInv, TypeOK', StoresGrow
    PROVE  CountedOut'
<1>0. TypeOK /\ CountedOut
  BY DEF IndInv
<1> SUFFICES ASSUME NEW k \in RowId, table'[k].status = "quarantined"
             PROVE  table'[k].old \/ table'[k].attempts + 1 >= AttemptLimit
  BY DEF CountedOut, RowsIn
<1>1. table[k].status # "none"
  BY DEF StoresGrow, StatusStep
<1>2. table[k].old \/ table[k].attempts + 1 >= AttemptLimit
  BY <1>0 DEF StoresGrow, StatusStep, CountedOut, RowsIn
<1>3. table'[k].attempts >= table[k].attempts /\ (table[k].old => table'[k].old)
  BY <1>1 DEF StoresGrow, RowKept
<1>4. table[k].attempts \in Nat /\ table'[k].attempts \in Nat
  BY <1>0 DEF TypeOK, RowType
<1> QED
  BY <1>2, <1>3, <1>4, LimitAssumption

\* Requests in the channel, and what they add to the events of a process.
LEMMA QueueTaken ==
    ASSUME NEW q \in Seq(Request), q # <<>>
    PROVE  {q[k] : k \in 1..Len(q)} =
              {Tail(q)[k] : k \in 1..Len(Tail(q))} \cup {Head(q)}
<1>1. Len(q) \in Nat /\ Len(q) > 0 /\ Head(q) = q[1]
  BY EmptySeq
<1>2. Len(Tail(q)) = Len(q) - 1 /\ \A k \in 1..Len(Tail(q)) : Tail(q)[k] = q[k + 1]
  BY HeadTailProperties
<1>3. \A k \in 2..Len(q) : k - 1 \in 1..Len(Tail(q)) /\ Tail(q)[k - 1] = q[k]
  BY <1>1, <1>2
<1>4. \A k \in 1..Len(q) : q[k] = Head(q) \/ q[k] \in {Tail(q)[l] : l \in 1..Len(Tail(q))}
  BY <1>1, <1>3
<1>5. \A k \in 1..Len(Tail(q)) : Tail(q)[k] \in {q[l] : l \in 1..Len(q)}
  BY <1>1, <1>2
<1> QED
  BY <1>1, <1>4, <1>5

LEMMA QueueGrown ==
    ASSUME NEW q \in Seq(Request), NEW r \in Request
    PROVE  {Append(q, r)[k] : k \in 1..Len(Append(q, r))} = {q[k] : k \in 1..Len(q)} \cup {r}
BY AppendProperties

\* What a process holds does not change with anything but its memory.
LEMMA HeldSame ==
    ASSUME NEW j, queue'[j] = queue[j], cur'[j] = cur[j], buf'[j] = buf[j]
    PROVE  Held(j)' = Held(j)
BY DEF Held, Queued, EventsIn

\* A flusher that works on a batch moves events about or lets go of the batch.
LEMMA FlusherHolds ==
    ASSUME TypeOK, NEW i \in Instance, Flusher(i)
    PROVE  /\ Held(i) \subseteq Held(i)' \cup (IF FlushClear(i) \/ FlushDLQ(i) THEN buf[i] ELSE {})
           /\ \A j \in Instance : j # i => Held(j)' = Held(j)
<1>1. \A j \in Instance : j # i => queue'[j] = queue[j] /\ cur'[j] = cur[j] /\ buf'[j] = buf[j]
  BY DEF TypeOK, Flusher, Receive, AppendEvents, Tick, FlushInsert, FlushMeter, FlushClear, FlushDLQ,
     BufferDone, memory
<1>2. \A j \in Instance : j # i => Held(j)' = Held(j)
  BY <1>1, HeldSame
<1>3. CASE Receive(i)
  <2>1. queue[i] \in Seq(Request) /\ queue[i] # <<>>
    BY <1>3 DEF Receive, TypeOK
  <2>2. queue'[i] = Tail(queue[i]) /\ cur'[i] = EventsOf[Head(queue[i])] /\ buf'[i] = buf[i] /\ cur[i] = {}
    BY <1>3 DEF Receive, TypeOK
  <2>3. Queued(i) = Queued(i)' \cup {Head(queue[i])}
    BY <2>1, <2>2, QueueTaken DEF Queued
  <2>4. EventsIn(Queued(i)) = EventsIn(Queued(i)') \cup EventsOf[Head(queue[i])]
    BY <2>3 DEF EventsIn
  <2> QED
    BY <1>2, <2>2, <2>4 DEF Held
<1>4. CASE AppendEvents(i)
  <2>1. queue' = queue /\ cur[i] \cup buf[i] = cur'[i] \cup buf'[i]
    BY <1>4 DEF AppendEvents, TypeOK
  <2>2. Queued(i)' = Queued(i)
    BY <2>1 DEF Queued
  <2> QED
    BY <1>2, <2>1, <2>2 DEF Held, EventsIn
<1>5. CASE FlushClear(i) \/ FlushDLQ(i)
  <2>1. queue'[i] = queue[i] /\ cur'[i] = cur[i]
    BY <1>5 DEF FlushClear, FlushDLQ, BufferDone
  <2>2. Queued(i)' = Queued(i)
    BY <2>1 DEF Queued
  <2> QED
    BY <1>2, <1>5, <2>1, <2>2 DEF Held, EventsIn
<1>6. CASE Tick(i) \/ FlushInsert(i) \/ FlushMeter(i)
  <2>1. queue' = queue /\ cur' = cur /\ buf' = buf
    BY <1>6 DEF Tick, FlushInsert, FlushMeter, memory
  <2>2. Held(i)' = Held(i)
    BY <2>1, HeldSame
  <2> QED
    BY <1>2, <2>2
<1> QED
  BY <1>3, <1>4, <1>5, <1>6 DEF Flusher

\* The part of NoSilentLoss that says where events are.
Located == Sent \subseteq InMemory \cup Landed \cup Parked \cup Quarantined \cup dropped \cup vanished

\* The part of it that says what a drop takes.
DropsOwed == dropped # {} => faults >= IF Parkable(dropped) THEN 2 ELSE 1

LEMMA LocatedStep ==
    ASSUME IndInv, [Next]_vars, TypeOK', StoresGrow
    PROVE  Located'
<1>0. TypeOK /\ Located /\ BatchLanded
  BY DEF IndInv, NoSilentLoss, Located
<1> DEFINE Filed == Landed \cup Parked \cup Quarantined
<1>1. Filed \subseteq Filed'
  BY <1>0, FiledGrows
<1>2. CASE \E i \in Instance : Flusher(i)
  <2>1. PICK i \in Instance : Flusher(i)
    BY <1>2
  <2>2. accepted' = accepted /\ vanished' = vanished /\ dropped \subseteq dropped'
    BY <2>1 DEF Flusher, Receive, AppendEvents, Tick, FlushInsert, FlushMeter, FlushClear, FlushDLQ
  <2>3. Sent' = Sent
    BY <2>2 DEF Sent, EventsIn
  <2>4. CASE FlushClear(i)
    <3>1. buf[i] \subseteq Landed
      BY <1>0, <2>4 DEF FlushClear, BatchLanded
    <3>2. Held(i) \subseteq Held(i)' \cup Filed'
      BY <1>0, <1>1, <2>1, <3>1, FlusherHolds
    <3> QED
      BY <1>0, <1>1, <2>1, <2>2, <2>3, <3>2, FlusherHolds DEF Located, InMemory
  <2>5. CASE FlushDLQ(i)
    <3>1. buf[i] \subseteq Parked' \cup dropped'
      <4>1. CASE InsertRow(buf[i])
        <5>1. buf[i] \in SUBSET Event
          BY <1>0 DEF TypeOK
        <5>2. PICK k \in RowId : LET row == [status |-> "active", events |-> buf[i], attempts |-> 0, old |-> FALSE] IN
                 table' = [table EXCEPT ![k] = row]
          BY <1>0, <4>1, <5>1, RowInserted
        <5>3. table'[k].status = "active" /\ table'[k].events = buf[i]
          BY <1>0, <5>2 DEF TypeOK
        <5> QED
          BY <5>3 DEF Parked, RowsIn
      <4>2. CASE dropped' = dropped \cup buf[i]
        BY <4>2
      <4> QED
        BY <2>5, <4>1, <4>2 DEF FlushDLQ
    <3>2. Held(i) \subseteq Held(i)' \cup Filed' \cup dropped'
      BY <1>0, <2>1, <3>1, FlusherHolds
    <3> QED
      BY <1>0, <1>1, <2>1, <2>2, <2>3, <3>2, FlusherHolds DEF Located, InMemory
  <2>6. CASE ~FlushClear(i) /\ ~FlushDLQ(i)
    <3>1. Held(i) \subseteq Held(i)'
      BY <1>0, <2>1, <2>6, FlusherHolds
    <3> QED
      BY <1>0, <1>1, <2>1, <2>2, <2>3, <3>1, FlusherHolds DEF Located, InMemory
  <2> QED
    BY <2>4, <2>5, <2>6
<1>3. CASE \E r \in Request, i \in Instance : Accept(r, i)
  <2>1. PICK r \in Request, i \in Instance : Accept(r, i)
    BY <1>3
  <2>2. /\ queue'[i] = Append(queue[i], r) /\ cur' = cur /\ buf' = buf
        /\ \A j \in Instance : j # i => queue'[j] = queue[j]
    BY <1>0, <2>1 DEF Accept, TypeOK
  <2>3. Queued(i)' = Queued(i) \cup {r}
    <3>1. queue[i] \in Seq(Request)
      BY <1>0 DEF TypeOK
    <3>2. {Append(queue[i], r)[k] : k \in 1..Len(Append(queue[i], r))}
             = {queue[i][k] : k \in 1..Len(queue[i])} \cup {r}
      BY <3>1, QueueGrown
    <3> QED
      BY <2>2, <3>2 DEF Queued
  <2>4. Held(i)' = Held(i) \cup EventsOf[r]
    BY <2>2, <2>3 DEF Held, EventsIn
  <2>5. \A j \in Instance : j # i => Held(j)' = Held(j)
    BY <2>2, HeldSame
  <2>6. InMemory' = InMemory \cup EventsOf[r]
    BY <2>4, <2>5 DEF InMemory
  <2>7. Sent' = Sent \cup EventsOf[r]
    BY <2>1 DEF Accept, Sent, EventsIn
  <2> QED
    BY <1>0, <1>1, <2>1, <2>6, <2>7 DEF Accept, Located
<1>4. CASE \E i \in Instance : Crash(i)
  <2>1. PICK i \in Instance : Crash(i)
    BY <1>4
  <2>2. /\ vanished' = vanished \cup Held(i) /\ dropped' = dropped /\ accepted' = accepted
        /\ \A j \in Instance : j # i => queue'[j] = queue[j] /\ cur'[j] = cur[j] /\ buf'[j] = buf[j]
    BY <1>0, <2>1 DEF Crash, TypeOK
  <2>3. \A j \in Instance : j # i => Held(j)' = Held(j)
    BY <2>2, HeldSame
  <2>4. InMemory \subseteq InMemory' \cup vanished'
    BY <2>2, <2>3 DEF InMemory
  <2>5. Sent' = Sent
    BY <2>2 DEF Sent, EventsIn
  <2> QED
    BY <1>0, <1>1, <2>2, <2>4, <2>5 DEF Located
<1>5. CASE UNCHANGED <<accepted, queue, cur, buf, dropped, vanished>>
  <2>1. InMemory' = InMemory /\ Sent' = Sent
    BY <1>5, HeldSame DEF InMemory, Sent, EventsIn
  <2> QED
    BY <1>0, <1>1, <1>5, <2>1 DEF Located
<1> QED
  BY <1>2, <1>3, <1>4, <1>5 DEF Next, Handler, Check, Refuse, Age, vars, memory,
     Drainer, List, Quarantine, DrainInsert, DrainBump, DrainDelete, DrainMeter, DrainClear, Count

LEMMA DropsStep ==
    ASSUME IndInv, [Next]_vars, TypeOK', StoresGrow
    PROVE  DropsOwed'
<1>0. TypeOK /\ DropsOwed /\ DLQAfterFault /\ faults \in Nat /\ faults' \in Nat /\ faults' >= faults
  BY DEF IndInv, NoSilentLoss, DropsOwed, TypeOK, StoresGrow
<1>1. CASE dropped' = dropped
  BY <1>0, <1>1 DEF DropsOwed, Parkable
<1>2. CASE \E i \in Instance : FlushDLQ(i)
  <2>1. PICK i \in Instance : FlushDLQ(i)
    BY <1>2
  <2>2. faults >= 1
    BY <1>0, <2>1 DEF FlushDLQ, DLQAfterFault
  <2>3. CASE Fault
    BY <1>0, <2>2, <2>3 DEF Fault, DropsOwed
  <2>4. CASE ~Parkable(buf[i]) /\ dropped' = dropped \cup buf[i]
    <3>1. ~Parkable(dropped')
      BY <2>4 DEF Parkable
    <3> QED
      BY <1>0, <2>2, <3>1 DEF DropsOwed
  <2> QED
    BY <1>1, <2>1, <2>3, <2>4 DEF FlushDLQ
<1> QED
  BY <1>1, <1>2 DEF Next, Handler, Check, Accept, Refuse, Age, Crash, vars,
     Flusher, Receive, AppendEvents, Tick, FlushInsert, FlushMeter, FlushClear,
     Drainer, List, Quarantine, DrainInsert, DrainBump, DrainDelete, DrainMeter, DrainClear, Count

LEMMA InitInv == Init => IndInv
<1> SUFFICES ASSUME Init PROVE IndInv
  OBVIOUS
<1>1. TypeOK
  BY InitTypes
<1>2. CountsGrow /\ BatchLanded /\ ReplayLanded /\ ReplayDeleted /\ InsertRecovers /\ DLQAfterFault
  BY DEF Init, CountsGrow, BatchLanded, ReplayLanded, ReplayDeleted, InsertRecovers, DLQAfterFault
<1>3. NoSilentLoss
  BY DEF Init, NoSilentLoss, Sent, EventsIn
<1>4. CountedOut
  BY DEF Init, CountedOut, RowsIn, NoRow
<1> QED
  BY <1>1, <1>2, <1>3, <1>4 DEF IndInv

LEMMA StepInv == IndInv /\ [Next]_vars => IndInv'
<1> SUFFICES ASSUME IndInv, [Next]_vars PROVE IndInv'
  OBVIOUS
<1>1. TypeOK'
  BY TypesKept DEF IndInv
<1>2. StoresGrow
  BY StepGrows
<1>3. NoSilentLoss'
  BY <1>1, <1>2, LocatedStep, DropsStep DEF NoSilentLoss, Located, DropsOwed
<1> QED
  BY <1>1, <1>2, <1>3, CountsStep, BatchStep, ReplayStep, GoneStep, RecoversStep, FaultStep, CountedStep
     DEF IndInv

LEMMA SpecInv == Spec => []IndInv
BY InitInv, StepInv, PTL DEF Spec
-----------------------------------------------------------------------------
(* What the invariant says of the pipeline *)

\* An accepted event is in a memory, in a database, dropped after the failures
\* it takes, or was in a process that crashed: whatever the number of processes.
THEOREM NothingLostSilently == Spec => []NoSilentLoss
<1>1. IndInv => NoSilentLoss
  BY DEF IndInv
<1> QED
  BY <1>1, SpecInv, PTL

\* The fatal flag of a process goes down after an insert of its own since it
\* went up, by its drainer for a row that is in ClickHouse and deleted, or with
\* the process.
THEOREM FatalNeedsSuccess == Spec => FatalClearedBySuccess
<1> DEFINE Cleared(i) ==
              fatal[i] /\ ~fatal'[i] =>
                 \/ recovered[i]
                 \/ /\ dpc[i] = "clear"
                    /\ table[Row(i).id].status = "deleted"
                    /\ \A e \in table[Row(i).id].events : ch[e] > 0
                 \/ crashes' > crashes
<1>1. ASSUME IndInv, [Next]_vars, NEW i \in Instance
      PROVE  Cleared(i)
  <2>0. TypeOK /\ InsertRecovers /\ ReplayLanded /\ ReplayDeleted
    BY <1>1 DEF IndInv
  <2>1. CASE \E j \in Instance : FlushClear(j)
    <3>1. PICK j \in Instance : FlushClear(j)
      BY <2>1
    <3>2. CASE j = i
      BY <2>0, <3>1, <3>2 DEF FlushClear, InsertRecovers
    <3>3. CASE j # i
      BY <2>0, <3>1, <3>3 DEF FlushClear, SetFatal, TypeOK
    <3> QED
      BY <3>2, <3>3
  <2>2. CASE \E j \in Instance : DrainClear(j)
    <3>1. PICK j \in Instance : DrainClear(j)
      BY <2>2
    <3>2. CASE j = i
      BY <2>0, <3>1, <3>2 DEF DrainClear, ReplayLanded, ReplayDeleted, Landed
    <3>3. CASE j # i
      BY <2>0, <3>1, <3>3 DEF DrainClear, SetFatal, TypeOK
    <3> QED
      BY <3>2, <3>3
  <2>3. CASE \E j \in Instance : FlushDLQ(j)
    BY <2>0, <2>3 DEF FlushDLQ, SetFatal, TypeOK
  <2>4. CASE \E j \in Instance : Crash(j)
    BY <2>0, <2>4 DEF Crash, TypeOK
  <2>5. CASE fatal' = fatal
    BY <2>5
  <2> QED
    BY <1>1, <2>1, <2>2, <2>3, <2>4, <2>5 DEF Next, Handler, Check, Accept, Refuse, Age, vars,
       Flusher, Receive, AppendEvents, Tick, FlushInsert, FlushMeter,
       Drainer, List, Quarantine, DrainInsert, DrainBump, DrainDelete, DrainMeter, Count
<1>2. IndInv /\ [Next]_vars => [\A i \in Instance : Cleared(i)]_vars
  BY <1>1
<1> QED
  BY <1>2, SpecInv, PTL DEF Spec, FatalClearedBySuccess
-----------------------------------------------------------------------------
(* Metering *)

\* The flushers, and the drainers, that have put an event in ClickHouse and
\* are about to report it.
Metering(e) == {i \in Instance : fpc[i] = "meter" /\ e \in buf[i]}
Replaying(e) == {i \in Instance : dpc[i] \in {"delete", "meter"} /\ e \in table[Row(i).id].events}

\* What has been reported of an event and what is about to be are different
\* copies of it.
Covered(e) == billed[e] + Cardinality(Metering(e)) + Cardinality(Replaying(e)) <= ch[e]

LEMMA OwedCount ==
    ASSUME NEW S \in SUBSET Instance
    PROVE  /\ IsFiniteSet(S) /\ Cardinality(S) \in Nat
           /\ \A T \in SUBSET S : Cardinality(T) \in Nat /\ Cardinality(T) <= Cardinality(S)
           /\ \A i \in Instance :
                 /\ i \notin S => Cardinality(S \cup {i}) = Cardinality(S) + 1
                 /\ i \in S => Cardinality(S \ {i}) = Cardinality(S) - 1
<1>1. IsFiniteSet(S)
  BY InstanceAssumption, FS_Subset
<1>2. \A T \in SUBSET S : IsFiniteSet(T) /\ Cardinality(T) <= Cardinality(S)
  BY <1>1, FS_Subset
<1>3. \A i \in Instance :
         /\ i \notin S => Cardinality(S \cup {i}) = Cardinality(S) + 1
         /\ i \in S => Cardinality(S \ {i}) = Cardinality(S) - 1
  BY <1>1, FS_AddElement, FS_RemoveElement
<1> QED
  BY <1>1, <1>2, <1>3, FS_CardinalityType

\* Who owes a report does not change with rows that keep their payload.
LEMMA ReplayingSame ==
    ASSUME TypeOK, StoresGrow, NEW e \in Event, dpc' = dpc, todo' = todo
    PROVE  Replaying(e)' = Replaying(e)
<1>1. ASSUME NEW i \in Instance, dpc[i] \in {"delete", "meter"}
      PROVE  table'[Row(i)'.id].events = table[Row(i).id].events
  <2>1. Row(i)' = Row(i)
    BY SameRow
  <2>2. Row(i).id \in RowId /\ table[Row(i).id].status # "none"
    BY <1>1, BusyDrainer
  <2> QED
    BY <2>1, <2>2 DEF StoresGrow, RowKept
<1> QED
  BY <1>1 DEF Replaying

\* Letting go of a report.
LEMMA CoveredLess ==
    ASSUME TypeOK, TypeOK', StoresGrow, NEW e \in Event, Covered(e), billed' = billed,
           Metering(e)' \subseteq Metering(e), Replaying(e)' \subseteq Replaying(e)
    PROVE  Covered(e)'
<1>1. Metering(e) \in SUBSET Instance /\ Replaying(e) \in SUBSET Instance
  BY DEF Metering, Replaying
<1>2. /\ Cardinality(Metering(e)) \in Nat /\ Cardinality(Metering(e)') \in Nat
      /\ Cardinality(Metering(e)') <= Cardinality(Metering(e))
  BY <1>1, OwedCount
<1>3. /\ Cardinality(Replaying(e)) \in Nat /\ Cardinality(Replaying(e)') \in Nat
      /\ Cardinality(Replaying(e)') <= Cardinality(Replaying(e))
  BY <1>1, OwedCount
<1>4. ch[e] \in Nat /\ ch'[e] \in Nat /\ billed[e] \in Nat /\ ch'[e] >= ch[e]
  BY DEF TypeOK, StoresGrow
<1> QED
  BY <1>2, <1>3, <1>4 DEF Covered

LEMMA CoveredByFlusher ==
    ASSUME IndInv, TypeOK', StoresGrow, NEW i \in Instance, Flusher(i), NEW e \in Event, Covered(e)
    PROVE  Covered(e)'
<1>0. TypeOK
  BY DEF IndInv
<1>1. \A j \in Instance : j # i => fpc'[j] = fpc[j] /\ buf'[j] = buf[j]
  BY <1>0, FlusherAlone
<1>2. Replaying(e)' = Replaying(e)
  <2>1. dpc' = dpc /\ todo' = todo
    BY DEF Flusher, Receive, AppendEvents, Tick, FlushInsert, FlushMeter, FlushClear, FlushDLQ, drainer
  <2> QED
    BY <1>0, <2>1, ReplayingSame
<1>3. /\ Metering(e) \in SUBSET Instance /\ Replaying(e) \in SUBSET Instance
      /\ Cardinality(Metering(e)) \in Nat /\ Cardinality(Replaying(e)) \in Nat
  BY OwedCount DEF Metering, Replaying
<1>4. ch[e] \in Nat /\ billed[e] \in Nat /\ ch \in [Event -> Nat] /\ billed \in [Event -> Nat]
  BY <1>0 DEF TypeOK
<1>5. CASE FlushInsert(i) /\ fpc'[i] = "meter" /\ e \in buf[i]
  <2>1. ch' = Bump(ch, buf[i]) /\ fpc[i] = "insert" /\ buf' = buf /\ billed' = billed
    BY <1>0, <1>5 DEF FlushInsert, TypeOK, memory
  <2>2. ch'[e] = ch[e] + 1
    BY <1>4, <1>5, <2>1, Bumped
  <2>3. Metering(e)' = Metering(e) \cup {i} /\ i \notin Metering(e)
    BY <1>1, <1>5, <2>1 DEF Metering
  <2>4. Cardinality(Metering(e)') = Cardinality(Metering(e)) + 1
    BY <1>3, <2>3, OwedCount
  <2> QED
    BY <1>2, <1>3, <1>4, <2>1, <2>2, <2>4 DEF Covered
<1>6. CASE FlushMeter(i) /\ e \in buf[i]
  <2>1. billed' = Bump(billed, buf[i]) /\ ch' = ch /\ fpc[i] = "meter" /\ fpc'[i] = "clear" /\ buf' = buf
    BY <1>0, <1>6 DEF FlushMeter, TypeOK, memory
  <2>2. billed'[e] = billed[e] + 1
    BY <1>4, <1>6, <2>1, Bumped
  <2>3. Metering(e)' = Metering(e) \ {i} /\ i \in Metering(e)
    BY <1>1, <1>6, <2>1 DEF Metering
  <2>4. Cardinality(Metering(e)') = Cardinality(Metering(e)) - 1
    BY <1>3, <2>3, OwedCount
  <2> QED
    BY <1>2, <1>3, <1>4, <2>1, <2>2, <2>4 DEF Covered
<1>7. CASE FlushMeter(i) /\ e \notin buf[i]
  <2>1. billed' = Bump(billed, buf[i]) /\ ch' = ch /\ fpc'[i] = "clear" /\ buf' = buf
    BY <1>0, <1>7 DEF FlushMeter, TypeOK, memory
  <2>2. billed'[e] = billed[e]
    BY <1>4, <1>7, <2>1, Bumped
  <2>3. Metering(e)' = Metering(e)
    BY <1>1, <1>7, <2>1 DEF Metering
  <2> QED
    BY <1>2, <2>1, <2>2, <2>3 DEF Covered
<1>8. CASE ~FlushMeter(i) /\ ~(FlushInsert(i) /\ fpc'[i] = "meter" /\ e \in buf[i])
  <2>1. billed' = billed
    BY <1>8 DEF Flusher, Receive, AppendEvents, Tick, FlushInsert, FlushMeter, FlushClear, FlushDLQ
  <2>2. fpc'[i] # "meter" \/ e \notin buf'[i]
    BY <1>0, <1>8 DEF TypeOK, Flusher, Receive, AppendEvents, Tick, FlushInsert, FlushClear, FlushDLQ,
       BufferDone, memory
  <2>3. Metering(e)' \subseteq Metering(e)
    BY <1>1, <2>2 DEF Metering
  <2> QED
    BY <1>0, <1>2, <2>1, <2>3, CoveredLess
<1> QED
  BY <1>5, <1>6, <1>7, <1>8

LEMMA CoveredByDrainer ==
    ASSUME IndInv, TypeOK', StoresGrow, NEW i \in Instance, Drainer(i), NEW e \in Event, Covered(e)
    PROVE  Covered(e)'
<1>0. TypeOK
  BY DEF IndInv
<1>1. ASSUME NEW j \in Instance, dpc'[j] = dpc[j], todo'[j] = todo[j], dpc[j] \in {"delete", "meter"}
      PROVE  table'[Row(j)'.id].events = table[Row(j).id].events
  <2>1. Row(j)' = Row(j)
    BY <1>1, SameRow
  <2>2. Row(j).id \in RowId /\ table[Row(j).id].status # "none"
    BY <1>0, <1>1, BusyDrainer
  <2> QED
    BY <2>1, <2>2 DEF StoresGrow, RowKept
<1>2. \A j \in Instance : j # i => (j \in Replaying(e)' <=> j \in Replaying(e))
  BY <1>0, <1>1, DrainerAlone DEF Replaying
<1>3. Metering(e)' = Metering(e)
  BY DEF Metering, Drainer, List, Quarantine, DrainInsert, DrainBump, DrainDelete, DrainMeter, DrainClear, Count, memory
<1>4. /\ Metering(e) \in SUBSET Instance /\ Replaying(e) \in SUBSET Instance
      /\ Cardinality(Metering(e)) \in Nat /\ Cardinality(Replaying(e)) \in Nat
  BY OwedCount DEF Metering, Replaying
<1>5. ch[e] \in Nat /\ billed[e] \in Nat /\ ch \in [Event -> Nat] /\ billed \in [Event -> Nat]
  BY <1>0 DEF TypeOK
<1>6. CASE DrainInsert(i) /\ dpc'[i] = "delete" /\ e \in table[Row(i).id].events
  <2>1. /\ ch' = Bump(ch, table[Row(i).id].events) /\ dpc[i] = "row" /\ todo' = todo
        /\ table' = table /\ billed' = billed
    BY <1>0, <1>6 DEF DrainInsert, TypeOK
  <2>2. ch'[e] = ch[e] + 1
    BY <1>5, <1>6, <2>1, Bumped
  <2>3. Row(i)' = Row(i)
    BY <2>1, SameRow
  <2>4. i \in Replaying(e)' /\ i \notin Replaying(e)
    BY <1>6, <2>1, <2>3 DEF Replaying
  <2>5. Replaying(e)' = Replaying(e) \cup {i}
    BY <1>2, <2>4 DEF Replaying
  <2>6. Cardinality(Replaying(e)') = Cardinality(Replaying(e)) + 1
    BY <1>4, <2>4, <2>5, OwedCount
  <2> QED
    BY <1>3, <1>4, <1>5, <2>1, <2>2, <2>6 DEF Covered
<1>7. CASE DrainMeter(i)
  <2>1. /\ billed' = Bump(billed, table[Row(i).id].events) /\ ch' = ch
        /\ dpc[i] = "meter" /\ dpc'[i] = "clear"
    BY <1>0, <1>7 DEF DrainMeter, TypeOK
  <2>2. i \notin Replaying(e)'
    BY <2>1 DEF Replaying
  <2>3. CASE e \in table[Row(i).id].events
    <3>1. billed'[e] = billed[e] + 1
      BY <1>5, <2>1, <2>3, Bumped
    <3>2. i \in Replaying(e)
      BY <2>1, <2>3 DEF Replaying
    <3>3. Replaying(e)' = Replaying(e) \ {i}
      BY <1>2, <2>2 DEF Replaying
    <3>4. Cardinality(Replaying(e)') = Cardinality(Replaying(e)) - 1
      BY <1>4, <3>2, <3>3, OwedCount
    <3> QED
      BY <1>3, <1>4, <1>5, <2>1, <3>1, <3>4 DEF Covered
  <2>4. CASE e \notin table[Row(i).id].events
    <3>1. billed'[e] = billed[e]
      BY <1>5, <2>1, <2>4, Bumped
    <3>2. Replaying(e)' = Replaying(e)
      BY <1>2, <2>2, <2>4 DEF Replaying
    <3> QED
      BY <1>3, <2>1, <3>1, <3>2 DEF Covered
  <2> QED
    BY <2>3, <2>4
<1>8. CASE ~DrainMeter(i) /\ ~(DrainInsert(i) /\ dpc'[i] = "delete" /\ e \in table[Row(i).id].events)
  <2>1. billed' = billed
    BY <1>8 DEF Drainer, List, Quarantine, DrainInsert, DrainBump, DrainDelete, DrainClear, Count
  <2>2. ASSUME DrainInsert(i), i \in Replaying(e)' PROVE i \in Replaying(e)
    <3>1. todo' = todo /\ table' = table
      BY <2>2 DEF DrainInsert
    <3>2. Row(i)' = Row(i)
      BY <3>1, SameRow
    <3>3. dpc'[i] \in {"delete", "bump"}
      BY <1>0, <2>2 DEF DrainInsert, TypeOK
    <3> QED
      BY <1>8, <2>2, <3>1, <3>2, <3>3 DEF Replaying
  <2>3. ASSUME ~DrainInsert(i), i \in Replaying(e)' PROVE i \in Replaying(e)
    <3>1. \/ dpc'[i] \notin {"delete", "meter"}
          \/ dpc[i] \in {"delete", "meter"} /\ todo' = todo
          \/ dpc' = dpc /\ todo' = todo
      BY <1>0, <1>8, <2>3 DEF Drainer, List, Quarantine, DrainBump, DrainDelete, DrainClear, Count, RowDone, TypeOK
    <3>2. CASE dpc[i] \in {"delete", "meter"} /\ todo' = todo
      <4>1. Row(i)' = Row(i)
        BY <3>2, SameRow
      <4>2. Row(i).id \in RowId /\ table[Row(i).id].status # "none"
        BY <1>0, <3>2, BusyDrainer
      <4>3. table'[Row(i).id].events = table[Row(i).id].events
        BY <4>2 DEF StoresGrow, RowKept
      <4> QED
        BY <2>3, <3>2, <4>1, <4>3 DEF Replaying
    <3> QED
      BY <1>1, <2>3, <3>1, <3>2 DEF Replaying
  <2>4. i \in Replaying(e)' => i \in Replaying(e)
    BY <2>2, <2>3
  <2>5. Replaying(e)' \subseteq Replaying(e)
    BY <1>2, <2>4 DEF Replaying
  <2> QED
    BY <1>0, <1>3, <2>1, <2>5, CoveredLess
<1> QED
  BY <1>6, <1>7, <1>8

AllCovered == \A e \in Event : Covered(e)

LEMMA CoveredStep == IndInv /\ AllCovered /\ [Next]_vars => AllCovered'
<1> SUFFICES ASSUME IndInv, AllCovered, [Next]_vars, NEW e \in Event
             PROVE  Covered(e)'
  BY DEF AllCovered
<1>0. TypeOK /\ TypeOK' /\ StoresGrow /\ Covered(e)
  BY TypesKept, StepGrows DEF IndInv, AllCovered
<1>1. CASE \E i \in Instance : Flusher(i)
  BY <1>0, <1>1, CoveredByFlusher
<1>2. CASE \E i \in Instance : Drainer(i)
  BY <1>0, <1>2, CoveredByDrainer
<1>3. CASE \E i \in Instance : Crash(i)
  <2>1. PICK i \in Instance : Crash(i)
    BY <1>3
  <2>2. /\ billed' = billed /\ table' = table /\ fpc'[i] = "select" /\ dpc'[i] = "idle"
        /\ \A j \in Instance : j # i => /\ fpc'[j] = fpc[j] /\ buf'[j] = buf[j]
                                      /\ dpc'[j] = dpc[j] /\ todo'[j] = todo[j]
    BY <1>0, <2>1 DEF Crash, TypeOK
  <2>3. Metering(e)' \subseteq Metering(e)
    BY <2>2 DEF Metering
  <2>4. Replaying(e)' \subseteq Replaying(e)
    <3>1. \A j \in Instance : j # i => Row(j)' = Row(j)
      BY <2>2, SameRow
    <3> QED
      BY <2>2, <3>1 DEF Replaying
  <2> QED
    BY <1>0, <2>2, <2>3, <2>4, CoveredLess
<1>4. CASE billed' = billed /\ fpc' = fpc /\ buf' = buf /\ dpc' = dpc /\ todo' = todo
  <2>1. Metering(e)' = Metering(e)
    BY <1>4 DEF Metering
  <2>2. Replaying(e)' = Replaying(e)
    BY <1>0, <1>4, ReplayingSame
  <2> QED
    BY <1>0, <1>4, <2>1, <2>2, CoveredLess
<1> QED
  BY <1>1, <1>2, <1>3, <1>4 DEF Next, Handler, Check, Accept, Refuse, Age, vars, memory, drainer

LEMMA InitCovered == Init => AllCovered
<1> SUFFICES ASSUME Init, NEW e \in Event PROVE Covered(e)
  BY DEF AllCovered
<1>1. Metering(e) = {} /\ Replaying(e) = {}
  BY DEF Init, Metering, Replaying
<1>2. billed[e] = 0 /\ ch[e] = 0
  BY DEF Init
<1> QED
  BY <1>1, <1>2, FS_EmptySet DEF Covered

\* Whatever fails, and however many processes replay the same row, usage is
\* never reported more often than an event is in ClickHouse.
THEOREM MeteredIsLanded == Spec => []MeteredOnlyIfLanded
<1>1. IndInv /\ AllCovered => MeteredOnlyIfLanded
  <2> SUFFICES ASSUME IndInv, AllCovered, NEW e \in Event PROVE billed[e] <= ch[e]
    BY DEF MeteredOnlyIfLanded
  <2>1. Cardinality(Metering(e)) \in Nat /\ Cardinality(Replaying(e)) \in Nat
    BY OwedCount DEF Metering, Replaying
  <2>2. billed[e] \in Nat /\ ch[e] \in Nat
    BY DEF IndInv, TypeOK
  <2>3. billed[e] + Cardinality(Metering(e)) + Cardinality(Replaying(e)) <= ch[e]
    BY DEF AllCovered, Covered
  <2> QED
    BY <2>1, <2>2, <2>3
<1> QED
  BY <1>1, InitCovered, CoveredStep, SpecInv, PTL DEF Spec
-----------------------------------------------------------------------------
(* The attempts of a row are failures *)

\* The drainers that have seen a replay of a row fail and not yet counted it.
Bumping(k) == {i \in Instance : dpc[i] = "bump" /\ Row(i).id = k}

\* What a row says of its attempts, what is about to be added to it and the
\* flush that parked the row are different failed inserts of its batch.
Backed(k) == table[k].status # "none" => table[k].attempts + Cardinality(Bumping(k)) + 1 <= refused[k]

AllBacked == \A k \in RowId : Backed(k)

LEMMA BumpingCount ==
    ASSUME NEW k
    PROVE  /\ Bumping(k) \in SUBSET Instance /\ Bumping(k)' \in SUBSET Instance
           /\ Cardinality(Bumping(k)) \in Nat /\ Cardinality(Bumping(k)') \in Nat
           /\ Bumping(k)' \subseteq Bumping(k) => Cardinality(Bumping(k)') <= Cardinality(Bumping(k))
<1>1. Bumping(k) \in SUBSET Instance /\ Bumping(k)' \in SUBSET Instance
  BY DEF Bumping
<1> QED
  BY <1>1, OwedCount

\* Who is about to count a failure changes with the drainers only.
LEMMA BumpingSame ==
    ASSUME NEW k, NEW j \in Instance, dpc'[j] = dpc[j], todo'[j] = todo[j]
    PROVE  j \in Bumping(k)' <=> j \in Bumping(k)
<1>1. Row(j)' = Row(j)
  BY SameRow
<1> QED
  BY <1>1 DEF Bumping

\* Letting go of a failure, counted or not.
LEMMA BackedLess ==
    ASSUME TypeOK, TypeOK', NEW k \in RowId, Backed(k), Bumping(k)' \subseteq Bumping(k),
           table'[k].status # "none" => table[k].status # "none",
           table'[k].attempts = table[k].attempts, refused'[k] = refused[k]
    PROVE  Backed(k)'
<1>1. table[k].attempts \in Nat /\ refused[k] \in Nat
  BY DEF TypeOK, RowType
<1> QED
  BY <1>1, BumpingCount DEF Backed

\* A row that is written has one failure behind it, and no drainer knows it.
LEMMA BackedByFlusher ==
    ASSUME TypeOK, TypeOK', NEW i \in Instance, Flusher(i), NEW k \in RowId, Backed(k)
    PROVE  Backed(k)'
<1>1. dpc' = dpc /\ todo' = todo
  BY DEF Flusher, Receive, AppendEvents, Tick, FlushInsert, FlushMeter, FlushClear, FlushDLQ, drainer
<1>2. Bumping(k)' = Bumping(k)
  BY <1>1, BumpingSame DEF Bumping
<1>3. CASE InsertRow(buf[i])
  <2>1. buf[i] \in SUBSET Event
    BY DEF TypeOK
  <2>2. PICK l \in RowId : LET row == [status |-> "active", events |-> buf[i], attempts |-> 0, old |-> FALSE] IN
           /\ table[l].status = "none"
           /\ table' = [table EXCEPT ![l] = row]
           /\ refused' = [refused EXCEPT ![l] = 1]
    BY <1>3, <2>1, RowInserted
  <2>3. CASE l = k
    <3>1. Bumping(k) = {}
      <4>1. \A j \in Instance : dpc[j] = "bump" => table[Row(j).id].status # "none"
        BY BusyDrainer
      <4> QED
        BY <2>2, <2>3, <4>1 DEF Bumping
    <3>2. Cardinality(Bumping(k)') = 0
      BY <1>2, <3>1, FS_EmptySet
    <3>3. table'[k].attempts = 0 /\ refused'[k] = 1
      BY <2>2, <2>3 DEF TypeOK
    <3> QED
      BY <3>2, <3>3 DEF Backed
  <2>4. CASE l # k
    <3>1. table'[k] = table[k] /\ refused'[k] = refused[k]
      BY <2>2, <2>4 DEF TypeOK
    <3> QED
      BY <1>2, <3>1, BackedLess
  <2> QED
    BY <2>3, <2>4
<1>4. CASE UNCHANGED <<table, refused>>
  BY <1>2, <1>4, BackedLess
<1> QED
  BY <1>3, <1>4 DEF Flusher, Receive, AppendEvents, Tick, FlushInsert, FlushMeter, FlushClear, FlushDLQ, history

LEMMA BackedByDrainer ==
    ASSUME TypeOK, TypeOK', NEW i \in Instance, Drainer(i), NEW k \in RowId, Backed(k)
    PROVE  Backed(k)'
<1>1. \A j \in Instance : j # i => (j \in Bumping(k)' <=> j \in Bumping(k))
  BY DrainerAlone, BumpingSame
<1>2. /\ table[k].attempts \in Nat /\ refused[k] \in Nat
      /\ Bumping(k) \in SUBSET Instance /\ Cardinality(Bumping(k)) \in Nat
  BY BumpingCount DEF TypeOK, RowType
<1>3. CASE DrainInsert(i) /\ dpc'[i] = "bump" /\ Row(i).id = k
  <2>1. /\ dpc[i] = "row" /\ todo' = todo /\ table' = table
        /\ refused' = [refused EXCEPT ![Row(i).id] = @ + 1]
    BY <1>3 DEF DrainInsert, TypeOK
  <2>2. Row(i)' = Row(i)
    BY <2>1, SameRow
  <2>3. refused'[k] = refused[k] + 1
    BY <1>3, <2>1 DEF TypeOK
  <2>4. Bumping(k)' = Bumping(k) \cup {i} /\ i \notin Bumping(k)
    BY <1>1, <1>3, <2>1, <2>2 DEF Bumping
  <2>5. Cardinality(Bumping(k)') = Cardinality(Bumping(k)) + 1
    BY <1>2, <2>4, OwedCount
  <2> QED
    BY <1>2, <2>1, <2>3, <2>5 DEF Backed
<1>4. CASE DrainInsert(i) /\ ~(dpc'[i] = "bump" /\ Row(i).id = k)
  <2>1. todo' = todo /\ table' = table
    BY <1>4 DEF DrainInsert
  <2>2. refused'[k] = refused[k]
    BY <1>4 DEF DrainInsert, TypeOK
  <2>3. Row(i)' = Row(i)
    BY <2>1, SameRow
  <2>4. Bumping(k)' \subseteq Bumping(k)
    BY <1>1, <1>4, <2>3 DEF Bumping
  <2> QED
    BY <2>1, <2>2, <2>4, BackedLess
<1>5. CASE ~DrainInsert(i)
  <2>0. refused' = refused
    BY <1>5 DEF Drainer, List, Quarantine, DrainBump, DrainDelete, DrainMeter, DrainClear, Count, history
  <2>1. dpc'[i] # "bump" \/ (dpc'[i] = dpc[i] /\ todo' = todo)
    BY <1>5 DEF TypeOK, Drainer, List, Quarantine, DrainBump, DrainDelete, DrainMeter, DrainClear, Count, RowDone
  <2>2. Bumping(k)' \subseteq Bumping(k)
    <3>1. i \in Bumping(k)' => i \in Bumping(k)
      BY <2>1, BumpingSame DEF Bumping
    <3> QED
      BY <1>1, <3>1 DEF Bumping
  <2>3. CASE DrainBump(i) /\ Row(i).id = k
    <3>1. /\ dpc[i] = "bump" /\ dpc'[i] \in {"count", "row"}
          /\ table' = table \/ table' = [table EXCEPT ![k].attempts = @ + 1]
      BY <2>3 DEF DrainBump, RowDone, TypeOK
    <3>2. i \in Bumping(k) /\ i \notin Bumping(k)'
      BY <2>3, <3>1 DEF Bumping
    <3>3. Bumping(k)' = Bumping(k) \ {i}
      BY <1>1, <3>2 DEF Bumping
    <3>4. Cardinality(Bumping(k)') = Cardinality(Bumping(k)) - 1
      BY <1>2, <3>2, <3>3, OwedCount
    <3>5. /\ table'[k].attempts = table[k].attempts \/ table'[k].attempts = table[k].attempts + 1
          /\ table'[k].status = table[k].status
      BY <3>1 DEF TypeOK, RowType
    <3> QED
      BY <1>2, <2>0, <3>4, <3>5 DEF Backed
  <2>4. CASE ~(DrainBump(i) /\ Row(i).id = k)
    <3>1. /\ table'[k].attempts = table[k].attempts
          /\ table'[k].status # "none" => table[k].status # "none"
      <4>1. CASE table' = table
        BY <4>1
      <4>2. CASE DrainBump(i)
        BY <2>4, <4>2 DEF DrainBump, TypeOK
      <4>3. CASE Quarantine(i) \/ DrainDelete(i)
        <5>1. Row(i).id \in RowId /\ table[Row(i).id].status # "none"
          BY <4>3, BusyDrainer DEF Quarantine, DrainDelete
        <5>2. \/ table' = table
              \/ table' = [table EXCEPT ![Row(i).id].status = "quarantined"]
              \/ table' = [table EXCEPT ![Row(i).id].status = "deleted"]
          BY <4>3 DEF Quarantine, DrainDelete
        <5> QED
          BY <5>1, <5>2, RowMarked
      <4> QED
        BY <1>5, <4>1, <4>2, <4>3 DEF Drainer, List, DrainMeter, DrainClear, Count
    <3> QED
      BY <2>0, <2>2, <3>1, BackedLess
  <2> QED
    BY <2>3, <2>4
<1> QED
  BY <1>3, <1>4, <1>5

LEMMA BackedStep == IndInv /\ AllBacked /\ [Next]_vars => AllBacked'
<1> SUFFICES ASSUME IndInv, AllBacked, [Next]_vars, NEW k \in RowId
             PROVE  Backed(k)'
  BY DEF AllBacked
<1>0. TypeOK /\ TypeOK' /\ Backed(k)
  BY TypesKept DEF IndInv, AllBacked
<1>1. CASE \E i \in Instance : Flusher(i)
  BY <1>0, <1>1, BackedByFlusher
<1>2. CASE \E i \in Instance : Drainer(i)
  BY <1>0, <1>2, BackedByDrainer
<1>3. CASE \E i \in Instance : Crash(i)
  <2>1. PICK i \in Instance : Crash(i)
    BY <1>3
  <2>2. /\ table' = table /\ refused' = refused /\ dpc'[i] = "idle"
        /\ \A j \in Instance : j # i => dpc'[j] = dpc[j] /\ todo'[j] = todo[j]
    BY <1>0, <2>1 DEF Crash, TypeOK
  <2>3. Bumping(k)' \subseteq Bumping(k)
    <3>1. \A j \in Instance : j # i => (j \in Bumping(k)' <=> j \in Bumping(k))
      BY <2>2, BumpingSame
    <3> QED
      BY <2>2, <3>1 DEF Bumping
  <2> QED
    BY <1>0, <2>2, <2>3, BackedLess
<1>4. CASE /\ UNCHANGED <<dpc, todo, refused>>
           /\ table' = table \/ \E l \in RowId : Age(l)
  <2>1. Bumping(k)' \subseteq Bumping(k)
    BY <1>4, BumpingSame DEF Bumping
  <2>2. table'[k].attempts = table[k].attempts /\ table'[k].status = table[k].status
    <3>1. CASE table' = table
      BY <3>1
    <3>2. CASE \E l \in RowId : Age(l)
      <4>1. PICK l \in RowId : table' = [table EXCEPT ![l].old = TRUE]
        BY <3>2 DEF Age
      <4> QED
        BY <1>0, <4>1 DEF TypeOK, RowType
    <3> QED
      BY <1>4, <3>1, <3>2
  <2> QED
    BY <1>0, <1>4, <2>1, <2>2, BackedLess
<1> QED
  BY <1>1, <1>2, <1>3, <1>4 DEF Next, Handler, Check, Accept, Refuse, Age, vars, drainer, history

LEMMA InitBacked == Init => AllBacked
BY DEF Init, AllBacked, Backed, NoRow

\* A row is given up on for its age, or when as many inserts of its batch as
\* the limit says have failed, the flush that parked it among them: however
\* many drainers work on it with counts they read long ago.
THEOREM QuarantineEarnedAlways == Spec => []QuarantineIsEarned
<1>1. IndInv /\ AllBacked => QuarantineIsEarned
  <2> SUFFICES ASSUME IndInv, AllBacked, NEW k \in RowsIn("quarantined")
               PROVE  table[k].old \/ refused[k] >= AttemptLimit
    BY DEF QuarantineIsEarned
  <2>1. k \in RowId /\ table[k].status = "quarantined"
    BY DEF RowsIn
  <2>2. table[k].old \/ table[k].attempts + 1 >= AttemptLimit
    BY DEF IndInv, CountedOut
  <2>3. table[k].attempts + Cardinality(Bumping(k)) + 1 <= refused[k]
    BY <2>1 DEF AllBacked, Backed
  <2>4. Cardinality(Bumping(k)) \in Nat
    BY BumpingCount
  <2>5. table[k].attempts \in Nat /\ refused[k] \in Nat
    BY <2>1 DEF IndInv, TypeOK, RowType
  <2> QED
    BY <2>2, <2>3, <2>4, <2>5, LimitAssumption
<1> QED
  BY <1>1, InitBacked, BackedStep, SpecInv, PTL DEF Spec
=============================================================================
