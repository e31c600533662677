------------------------- MODULE IngestChannelProofs -------------------------
(***************************************************************************)
(* Proofs about IngestChannel, for any requests, batches and limits.       *)
(*                                                                         *)
(* The invariant follows each event through the five places where it can   *)
(* own a slot of the counter: its caller's reservation, the channel, the   *)
(* envelope in hand, the buffer, the residual.  It says that these places  *)
(* share nothing, so that every step moves, adds or removes exactly the    *)
(* events whose number it adds to, or takes from, the counter.             *)
(***************************************************************************)
EXTENDS IngestChannel, FiniteSetTheorems, SequenceTheorems, TLAPS

Elements(q) == {q[i] : i \in 1..Len(q)}

\* A reservation is made only on a value of the counter that leaves room.
RoomWasSeen == \A r \in Request : pc[r] = "cas" => seen[r] + Size(r) <= EventBuffer

\* An envelope is in the channel once, and its caller has been told so.
QueueDistinct ==
    /\ \A i, j \in 1..Len(queue) : queue[i] = queue[j] => i = j
    /\ \A r \in Queued : pc[r] = "accepted"

\* The channel, the envelope in hand, the buffer and the residual share no event.
PlacesApart ==
    /\ EventsIn(Queued) \cap cur = {}
    /\ EventsIn(Queued) \cap buf = {}
    /\ cur \cap buf = {}
    /\ residual \cap (EventsIn(Queued) \cup cur \cup buf) = {}

\* Outside "append" and "flush" the envelope in hand is used up.
EnvelopeDone == fpc \in {"select", "lastflush", "stopped"} => cur = {}

IndInv ==
    /\ TypeOK
    /\ RoomWasSeen
    /\ QueueDistinct
    /\ PlacesApart
    /\ EnvelopeDone
    /\ FateMatchesAnswer
    /\ IsFiniteSet(InFlight)
    /\ PendingExact
-----------------------------------------------------------------------------
(* Sets of events *)

\* The events of a set of requests and one more.
LEMMA EventsInAdd ==
    ASSUME NEW S, NEW r
    PROVE  EventsIn(S \cup {r}) = EventsIn(S) \cup EventsOf[r]
BY DEF EventsIn

\* Different requests have no event in common (BatchAssumption).
LEMMA EventsInApart ==
    ASSUME NEW S \in SUBSET Request, NEW r \in Request, r \notin S
    PROVE  EventsOf[r] \cap EventsIn(S) = {}
BY BatchAssumption DEF EventsIn

\* An event of a set of requests is of one of them.
LEMMA EventsInMember ==
    ASSUME NEW S, NEW r \in S
    PROVE  EventsOf[r] \subseteq EventsIn(S)
BY DEF EventsIn

\* Len(env.Events) is a number.
LEMMA SizeNat ==
    ASSUME NEW r \in Request
    PROVE  IsFiniteSet(EventsOf[r]) /\ Size(r) \in Nat
BY BatchAssumption, FS_CardinalityType DEF Size

\* The number of the elements of a set that grows, or shrinks, by another.
LEMMA CardinalityPlus ==
    ASSUME NEW S, NEW T, IsFiniteSet(S), IsFiniteSet(T), S \cap T = {}
    PROVE  /\ IsFiniteSet(S \cup T)
           /\ Cardinality(S \cup T) = Cardinality(S) + Cardinality(T)
<1>1. Cardinality(S \cap T) = 0
  BY FS_EmptySet
<1>2. Cardinality(S) \in Nat /\ Cardinality(T) \in Nat
  BY FS_CardinalityType
<1>3. /\ IsFiniteSet(S \cup T)
      /\ Cardinality(S \cup T) = Cardinality(S) + Cardinality(T) - Cardinality(S \cap T)
  BY FS_Union
<1> QED
  BY <1>1, <1>2, <1>3

\* A set without one of its elements has one element less.
LEMMA CardinalityMinus ==
    ASSUME NEW S, NEW T \in SUBSET S, IsFiniteSet(S)
    PROVE  /\ IsFiniteSet(S \ T)
           /\ Cardinality(T) \in Nat
           /\ Cardinality(S) \in Nat
           /\ Cardinality(S \ T) \in Nat
           /\ Cardinality(S \ T) = Cardinality(S) - Cardinality(T)
<1>1. S \cap T = T
  OBVIOUS
<1>2. IsFiniteSet(T)
  BY FS_Subset
<1>3. IsFiniteSet(S \ T) /\ Cardinality(S \ T) = Cardinality(S) - Cardinality(T)
  BY <1>1, FS_Difference
<1> QED
  BY <1>2, <1>3, FS_CardinalityType
-----------------------------------------------------------------------------
(* The channel as a sequence *)

\* A send adds one envelope to those in the channel.
LEMMA SendElements ==
    ASSUME NEW q \in Seq(Request), NEW r \in Request
    PROVE  Elements(Append(q, r)) = Elements(q) \cup {r}
BY AppendProperties DEF Elements

\* A receive removes the envelope it returns, and only that one.
LEMMA ReceiveElements ==
    ASSUME NEW q \in Seq(Request), q # <<>>,
           \A i, j \in 1..Len(q) : q[i] = q[j] => i = j
    PROVE  /\ Head(q) \in Elements(q)
           /\ Elements(q) = Elements(Tail(q)) \cup {Head(q)}
           /\ Head(q) \notin Elements(Tail(q))
           /\ \A i, j \in 1..Len(Tail(q)) : Tail(q)[i] = Tail(q)[j] => i = j
<1>1. Len(q) \in Nat /\ Len(q) > 0 /\ Head(q) = q[1]
  BY EmptySeq
<1>2. Len(Tail(q)) = Len(q) - 1 /\ \A i \in 1..Len(Tail(q)) : Tail(q)[i] = q[i + 1]
  BY HeadTailProperties
<1>3. \A i \in 2..Len(q) : i - 1 \in 1..Len(Tail(q)) /\ Tail(q)[i - 1] = q[i]
  BY <1>1, <1>2
<1>4. Head(q) \in Elements(q)
  BY <1>1 DEF Elements
<1>5. Elements(Tail(q)) \subseteq Elements(q)
  BY <1>1, <1>2 DEF Elements
<1>6. \A x \in Elements(q) : x = Head(q) \/ x \in Elements(Tail(q))
  BY <1>1, <1>3 DEF Elements
<1>7. Head(q) \notin Elements(Tail(q))
  BY <1>1, <1>2 DEF Elements
<1>8. ASSUME NEW i \in 1..Len(Tail(q)), NEW j \in 1..Len(Tail(q)), Tail(q)[i] = Tail(q)[j]
      PROVE  i = j
  BY <1>1, <1>2, <1>8
<1> QED
  BY <1>4, <1>5, <1>6, <1>7, <1>8

\* The requests in the channel are the elements of the queue.
LEMMA QueuedElements == Queued = Elements(queue)
BY DEF Queued, Elements

\* Only requests are in the channel.
LEMMA QueuedRequests == TypeOK => Queued \in SUBSET Request
BY ElementOfSeq DEF TypeOK, Queued
-----------------------------------------------------------------------------
(* What an event can be in *)

\* What is held depends on the channel, the envelope, the buffer and the
\* residual only.
LEMMA SameHeld ==
    ASSUME UNCHANGED <<queue, cur, buf, residual>>
    PROVE  Queued' = Queued /\ Held' = Held
BY DEF Queued, Held, EventsIn

\* The events of a request that has not been accepted are in flight only as
\* its own reservation.
LEMMA OwnReservation ==
    ASSUME IndInv, NEW r \in Request, pc[r] # "accepted"
    PROVE  /\ EventsOf[r] \cap Held = {}
           /\ EventsOf[r] \cap released = {}
           /\ EventsOf[r] \cap EventsIn(Reserving \ {r}) = {}
           /\ r \notin Reserving => EventsOf[r] \cap InFlight = {}
           /\ r \notin Queued
<1>1. EventsOf[r] \cap Held = {} /\ EventsOf[r] \cap released = {}
  BY DEF IndInv, FateMatchesAnswer
<1>2. \A S \in SUBSET Request : r \notin S => EventsOf[r] \cap EventsIn(S) = {}
  BY EventsInApart
<1>3. EventsOf[r] \cap EventsIn(Reserving \ {r}) = {}
  BY <1>2 DEF Reserving
<1>4. r \notin Reserving => EventsOf[r] \cap InFlight = {}
  BY <1>1, <1>2 DEF InFlight, Reserving
<1>5. r \notin Queued
  BY DEF IndInv, QueueDistinct
<1> QED
  BY <1>1, <1>3, <1>4, <1>5

\* Counting what is in flight.
LEMMA InFlightCount ==
    ASSUME IndInv
    PROVE  /\ IsFiniteSet(InFlight)
           /\ pending = Cardinality(InFlight)
           /\ pending \in Nat
           /\ EventBuffer \in Nat
           /\ pending <= EventBuffer
BY LimitsAssumption DEF IndInv, PendingExact, TypeOK
-----------------------------------------------------------------------------
(* The invariant holds at first, and every step keeps it. *)

\* Nothing is reserved, queued or buffered at the start.
LEMMA InitInv == Init => IndInv
<1> SUFFICES ASSUME Init PROVE IndInv
  OBVIOUS
<1> USE DEF Init
<1>1. Queued = {} /\ Reserving = {}
  BY EmptySeq DEF Queued, Reserving
<1>2. Held = {} /\ InFlight = {}
  BY <1>1 DEF Held, InFlight, EventsIn
<1>3. TypeOK
  <2>1. <<>> \in Seq(Request) /\ 0 \in 0..EventBuffer
    BY EmptySeq, LimitsAssumption
  <2> QED
    BY <2>1 DEF TypeOK, CallState, FlusherState
<1>4. RoomWasSeen
  BY DEF RoomWasSeen
<1>5. QueueDistinct /\ PlacesApart /\ EnvelopeDone
  BY <1>1, EmptySeq DEF QueueDistinct, PlacesApart, EnvelopeDone
<1>6. FateMatchesAnswer
  BY <1>2 DEF FateMatchesAnswer
<1>7. IsFiniteSet(InFlight) /\ PendingExact
  BY <1>2, FS_EmptySet DEF PendingExact
<1> QED
  BY <1>3, <1>4, <1>5, <1>6, <1>7 DEF IndInv

\* An empty batch is answered without touching the counter.
LEMMA SubmitEmptyInv ==
    ASSUME IndInv, NEW r \in Request, SubmitEmpty(r)
    PROVE  IndInv'
<1> USE DEF SubmitEmpty, flusher, capture
<1>1. Queued' = Queued /\ Held' = Held /\ Reserving' = Reserving
  BY SameHeld DEF IndInv, TypeOK, Reserving
<1>2. InFlight' = InFlight
  BY <1>1 DEF InFlight, EventsIn
<1>3. TypeOK'
  BY DEF IndInv, TypeOK, CallState
<1>4. RoomWasSeen'
  BY DEF IndInv, TypeOK, RoomWasSeen
<1>5. QueueDistinct' /\ PlacesApart' /\ EnvelopeDone'
  BY <1>1, QueuedRequests DEF IndInv, TypeOK, QueueDistinct, PlacesApart, EnvelopeDone, EventsIn
<1>6. FateMatchesAnswer'
  BY <1>1 DEF IndInv, TypeOK, FateMatchesAnswer
<1>7. IsFiniteSet(InFlight)' /\ PendingExact'
  BY <1>2 DEF IndInv, PendingExact
<1> QED
  BY <1>3, <1>4, <1>5, <1>6, <1>7 DEF IndInv

\* A load changes only what its caller remembers.
LEMMA LoadInv ==
    ASSUME IndInv, NEW r \in Request, Load(r)
    PROVE  IndInv'
<1> USE DEF Load, flusher, capture
<1>1. Queued' = Queued /\ Held' = Held /\ Reserving' = Reserving
  BY SameHeld DEF IndInv, TypeOK, Reserving
<1>2. InFlight' = InFlight
  BY <1>1 DEF InFlight, EventsIn
<1>3. TypeOK'
  BY DEF IndInv, TypeOK, CallState
<1>4. RoomWasSeen'
  BY SizeNat, InFlightCount DEF IndInv, TypeOK, RoomWasSeen
<1>5. QueueDistinct' /\ PlacesApart' /\ EnvelopeDone'
  BY <1>1, QueuedRequests DEF IndInv, TypeOK, QueueDistinct, PlacesApart, EnvelopeDone, EventsIn
<1>6. FateMatchesAnswer'
  BY <1>1 DEF IndInv, TypeOK, FateMatchesAnswer
<1>7. IsFiniteSet(InFlight)' /\ PendingExact'
  BY <1>2 DEF IndInv, PendingExact
<1> QED
  BY <1>3, <1>4, <1>5, <1>6, <1>7 DEF IndInv

\* A successful swap adds the events of its batch to those in flight.
LEMMA SwapInv ==
    ASSUME IndInv, NEW r \in Request, Swap(r)
    PROVE  IndInv'
<1> USE DEF flusher, capture
<1>1. Queued' = Queued /\ Held' = Held
  BY SameHeld DEF Swap
<1>2. QueueDistinct' /\ PlacesApart' /\ EnvelopeDone' /\ FateMatchesAnswer'
  <2>1. PlacesApart' /\ EnvelopeDone'
    BY <1>1 DEF IndInv, Swap, PlacesApart, EnvelopeDone, EventsIn
  <2>2. QueueDistinct'
    BY <1>1, QueuedRequests DEF IndInv, TypeOK, Swap, QueueDistinct
  <2>3. FateMatchesAnswer'
    BY <1>1 DEF IndInv, TypeOK, Swap, FateMatchesAnswer
  <2> QED
    BY <2>1, <2>2, <2>3
<1>3. CASE pending = seen[r]
  <2>1. /\ pc[r] = "cas" /\ pending' = pending + Size(r)
        /\ pc' = [pc EXCEPT ![r] = "reserved"]
        /\ UNCHANGED <<queue, closed, seen, flusher, capture, released, cancelled>>
    BY <1>3 DEF Swap
  <2>2. Reserving' = Reserving \cup {r} /\ r \notin Reserving
    BY <2>1 DEF IndInv, TypeOK, Reserving
  <2>3. InFlight' = InFlight \cup EventsOf[r]
    BY <1>1, <2>2, EventsInAdd, ZenonT(60) DEF InFlight
  <2>4. InFlight \cap EventsOf[r] = {}
    BY <2>1, <2>2, OwnReservation
  <2>5. IsFiniteSet(InFlight') /\ Cardinality(InFlight') = Cardinality(InFlight) + Size(r)
    BY <2>3, <2>4, SizeNat, InFlightCount, CardinalityPlus DEF Size
  <2>6. IsFiniteSet(InFlight)' /\ PendingExact'
    BY <2>1, <2>5, InFlightCount DEF PendingExact
  <2>7. pending' \in 0..EventBuffer
    BY <1>3, <2>1, SizeNat, InFlightCount DEF IndInv, RoomWasSeen
  <2>8. TypeOK'
    BY <2>1, <2>7 DEF IndInv, TypeOK, CallState
  <2>9. RoomWasSeen'
    BY <2>1 DEF IndInv, TypeOK, RoomWasSeen
  <2> QED
    BY <1>2, <2>6, <2>8, <2>9 DEF IndInv
<1>4. CASE pending # seen[r]
  <2>1. /\ pc[r] = "cas" /\ pc' = [pc EXCEPT ![r] = "start"]
        /\ UNCHANGED <<pending, queue, closed, seen, flusher, capture, released, cancelled>>
    BY <1>4 DEF Swap
  <2>2. Reserving' = Reserving
    BY <2>1 DEF IndInv, TypeOK, Reserving
  <2>3. InFlight' = InFlight
    BY <1>1, <2>2 DEF InFlight, EventsIn
  <2>4. TypeOK' /\ RoomWasSeen'
    BY <2>1 DEF IndInv, TypeOK, CallState, RoomWasSeen
  <2> QED
    BY <1>2, <2>1, <2>3, <2>4 DEF IndInv, PendingExact
<1> QED
  BY <1>3, <1>4

\* A send turns a reservation into an envelope: what is in flight stays.
LEMMA SendInv ==
    ASSUME IndInv, NEW r \in Request, Send(r)
    PROVE  IndInv'
<1> USE DEF flusher, capture
<1>1. /\ pc[r] = "reserved"
      /\ UNCHANGED <<pending, closed, seen, fpc, cur, buf, residual, captured, released, cancelled>>
  BY DEF Send
<1>2. CASE queue' = Append(queue, r) /\ pc' = [pc EXCEPT ![r] = "accepted"]
  <2>1. queue \in Seq(Request)
    BY DEF IndInv, TypeOK
  <2>2. Queued' = Queued \cup {r}
    BY <1>2, <2>1, SendElements, QueuedElements DEF Queued, Elements
  <2>3. /\ EventsOf[r] \cap Held = {} /\ EventsOf[r] \cap released = {}
        /\ EventsOf[r] \cap EventsIn(Reserving \ {r}) = {}
        /\ r \notin Queued
    BY <1>1, OwnReservation
  <2>4. Held' = Held \cup EventsOf[r]
    <3>1. EventsIn(Queued') = EventsIn(Queued) \cup EventsOf[r]
      BY <2>2, EventsInAdd
    <3> QED
      BY <1>1, <3>1 DEF Held
  <2>5. Reserving' = Reserving \ {r} /\ Reserving = (Reserving \ {r}) \cup {r}
    BY <1>1, <1>2 DEF IndInv, TypeOK, Reserving
  <2>6. InFlight' = InFlight
    <3>1. EventsIn(Reserving) = EventsIn(Reserving') \cup EventsOf[r]
      BY <2>5, EventsInAdd
    <3> QED
      BY <2>4, <3>1 DEF InFlight
  <2>7. TypeOK'
    BY <1>1, <1>2, <2>1, AppendProperties DEF IndInv, TypeOK, CallState
  <2>8. QueueDistinct'
    <3>1. /\ Len(queue') = Len(queue) + 1 /\ Len(queue) \in Nat
          /\ \A i \in 1..Len(queue) : queue'[i] = queue[i]
          /\ queue'[Len(queue) + 1] = r
      BY <1>2, <2>1, AppendProperties, LenProperties
    <3>2. \A i \in 1..Len(queue) : queue[i] # r
      BY <2>3 DEF Queued
    <3>3. \A i, j \in 1..Len(queue') : queue'[i] = queue'[j] => i = j
      BY <3>1, <3>2 DEF IndInv, QueueDistinct
    <3>4. \A s \in Queued' : pc'[s] = "accepted"
      BY <1>2, <2>2, QueuedRequests DEF IndInv, TypeOK, QueueDistinct
    <3> QED
      BY <3>3, <3>4 DEF QueueDistinct
  <2>9. PlacesApart' /\ EnvelopeDone' /\ RoomWasSeen'
    <3>1. EventsIn(Queued') = EventsIn(Queued) \cup EventsOf[r]
      BY <2>2, EventsInAdd
    <3>2. PlacesApart'
      BY <1>1, <2>3, <3>1 DEF IndInv, PlacesApart, Held
    <3>3. EnvelopeDone' /\ RoomWasSeen'
      BY <1>1, <1>2 DEF IndInv, TypeOK, EnvelopeDone, RoomWasSeen
    <3> QED
      BY <3>2, <3>3
  <2>10. FateMatchesAnswer'
    <3>1. \A s \in Request : s # r => EventsOf[s] \cap EventsOf[r] = {}
      BY BatchAssumption
    <3> QED
      BY <1>1, <1>2, <2>3, <2>4, <3>1 DEF IndInv, TypeOK, FateMatchesAnswer
  <2> QED
    BY <1>1, <2>6, <2>7, <2>8, <2>9, <2>10 DEF IndInv, PendingExact
<1>3. CASE UNCHANGED queue /\ pc' \in {[pc EXCEPT ![r] = "full"], [pc EXCEPT ![r] = "panicked"]}
  <2>1. Queued' = Queued /\ Held' = Held /\ Reserving' = Reserving
    BY <1>1, <1>3, SameHeld DEF IndInv, TypeOK, Reserving
  <2>2. InFlight' = InFlight
    BY <2>1 DEF InFlight, EventsIn
  <2>3. TypeOK' /\ RoomWasSeen'
    BY <1>1, <1>3 DEF IndInv, TypeOK, CallState, RoomWasSeen
  <2>4. PlacesApart' /\ EnvelopeDone'
    BY <1>1, <1>3, <2>1 DEF IndInv, PlacesApart, EnvelopeDone, EventsIn
  <2>5. QueueDistinct' /\ FateMatchesAnswer'
    BY <1>1, <1>3, <2>1, QueuedRequests DEF IndInv, TypeOK, QueueDistinct, FateMatchesAnswer
  <2> QED
    BY <1>1, <2>2, <2>3, <2>4, <2>5 DEF IndInv, PendingExact
<1> QED
  BY <1>2, <1>3 DEF Send

\* A rollback takes away the events of a reservation that came to nothing.
LEMMA RollbackInv ==
    ASSUME IndInv, NEW r \in Request, Rollback(r)
    PROVE  IndInv'
<1> USE DEF Rollback, flusher, capture
<1>1. Queued' = Queued /\ Held' = Held
  BY SameHeld
<1>2. Reserving' = Reserving \ {r} /\ Reserving = (Reserving \ {r}) \cup {r}
  BY DEF IndInv, TypeOK, Reserving
<1>3. EventsIn(Reserving) = EventsIn(Reserving') \cup EventsOf[r]
  BY <1>2, EventsInAdd
<1>4. EventsOf[r] \cap Held = {} /\ EventsOf[r] \cap EventsIn(Reserving') = {}
  BY <1>2, OwnReservation
<1>5. InFlight' = InFlight \ EventsOf[r] /\ EventsOf[r] \in SUBSET InFlight
  BY <1>1, <1>3, <1>4 DEF InFlight
<1>6. /\ IsFiniteSet(InFlight') /\ Cardinality(InFlight') \in Nat
      /\ Cardinality(InFlight') = Cardinality(InFlight) - Size(r)
  BY <1>5, InFlightCount, CardinalityMinus DEF Size
<1>7. IsFiniteSet(InFlight)' /\ PendingExact' /\ pending' \in 0..EventBuffer
  BY <1>6, InFlightCount, SizeNat DEF PendingExact
<1>8. TypeOK' /\ RoomWasSeen'
  BY <1>7 DEF IndInv, TypeOK, CallState, RoomWasSeen
<1>9. PlacesApart' /\ EnvelopeDone'
  BY <1>1 DEF IndInv, PlacesApart, EnvelopeDone, EventsIn
<1>10. QueueDistinct' /\ FateMatchesAnswer'
  BY <1>1, QueuedRequests DEF IndInv, TypeOK, QueueDistinct, FateMatchesAnswer
<1> QED
  BY <1>7, <1>8, <1>9, <1>10 DEF IndInv

\* The steps of the flusher that only move events about.
LEMMA SameInFlight ==
    ASSUME IndInv, pc' = pc, Held' = Held, UNCHANGED <<pending, seen, released>>
    PROVE  /\ InFlight' = InFlight
           /\ RoomWasSeen' /\ FateMatchesAnswer'
           /\ IsFiniteSet(InFlight)' /\ PendingExact'
<1>1. InFlight' = InFlight
  BY DEF InFlight, Reserving, EventsIn
<1> QED
  BY <1>1 DEF IndInv, RoomWasSeen, FateMatchesAnswer, PendingExact

\* An envelope is taken out of the channel: its events are in no other place.
LEMMA TakeOut ==
    ASSUME IndInv, queue # <<>>, queue' = Tail(queue), pc' = pc
    PROVE  /\ queue' \in Seq(Request)
           /\ EventsOf[Head(queue)] \in SUBSET Event
           /\ EventsIn(Queued) = EventsIn(Queued') \cup EventsOf[Head(queue)]
           /\ EventsOf[Head(queue)] \cap EventsIn(Queued') = {}
           /\ QueueDistinct'
<1> DEFINE r == Head(queue)
<1>1. queue \in Seq(Request) /\ queue # <<>> /\ r \in Request /\ Tail(queue) \in Seq(Request)
  BY HeadTailProperties DEF IndInv, TypeOK
<1>2. /\ r \in Queued /\ Queued = Queued' \cup {r} /\ r \notin Queued'
      /\ \A i, j \in 1..Len(queue') : queue'[i] = queue'[j] => i = j
  <2>1. Queued = Elements(queue) /\ Queued' = Elements(Tail(queue))
    BY DEF Queued, Elements
  <2>2. \A i, j \in 1..Len(queue) : queue[i] = queue[j] => i = j
    BY DEF IndInv, QueueDistinct
  <2>3. /\ Head(queue) \in Elements(queue)
        /\ Elements(queue) = Elements(Tail(queue)) \cup {Head(queue)}
        /\ Head(queue) \notin Elements(Tail(queue))
        /\ \A i, j \in 1..Len(Tail(queue)) : Tail(queue)[i] = Tail(queue)[j] => i = j
    BY <1>1, <2>2, ReceiveElements
  <2> QED
    BY <2>1, <2>3
<1>3. EventsIn(Queued) = EventsIn(Queued') \cup EventsOf[r]
  BY <1>2, EventsInAdd
<1>4. EventsOf[r] \in SUBSET Event
  BY <1>1, BatchAssumption
<1>5. QueueDistinct'
  BY <1>2 DEF IndInv, QueueDistinct
<1>6. EventsOf[r] \cap EventsIn(Queued') = {}
  <2>1. Queued' \in SUBSET Request
    BY <1>2, QueuedRequests DEF IndInv
  <2> QED
    BY <1>1, <1>2, <2>1, EventsInApart
<1> QED
  BY <1>1, <1>3, <1>4, <1>5, <1>6

\* An envelope the flusher takes out of the channel stays in flight.
LEMMA ReceiveInv ==
    ASSUME IndInv, Receive
    PROVE  IndInv'
<1> USE DEF Receive, callers, capture
<1>1. /\ queue' \in Seq(Request) /\ cur' \in SUBSET Event /\ QueueDistinct'
      /\ EventsIn(Queued) = EventsIn(Queued') \cup cur' /\ cur' \cap EventsIn(Queued') = {}
  BY TakeOut
<1>2. cur = {}
  BY DEF IndInv, EnvelopeDone
<1>3. Held' = Held
  BY <1>1, <1>2 DEF Held
<1>4. TypeOK'
  BY <1>1 DEF IndInv, TypeOK, FlusherState
<1>5. PlacesApart'
  BY <1>1 DEF IndInv, PlacesApart
<1>6. EnvelopeDone'
  BY DEF EnvelopeDone
<1> QED
  BY <1>1, <1>3, <1>4, <1>5, <1>6, SameInFlight DEF IndInv

\* So does one the capture takes.
LEMMA ResidualTakeInv ==
    ASSUME IndInv, ResidualTake
    PROVE  IndInv'
<1> USE DEF ResidualTake, callers, flusher
<1>1. /\ queue' \in Seq(Request) /\ EventsOf[Head(queue)] \in SUBSET Event /\ QueueDistinct'
      /\ EventsIn(Queued) = EventsIn(Queued') \cup EventsOf[Head(queue)]
      /\ EventsOf[Head(queue)] \cap EventsIn(Queued') = {}
  BY TakeOut
<1>2. Held' = Held
  BY <1>1 DEF Held
<1>3. TypeOK'
  BY <1>1 DEF IndInv, TypeOK
<1>4. PlacesApart'
  BY <1>1 DEF IndInv, PlacesApart
<1>5. EnvelopeDone'
  BY DEF IndInv, EnvelopeDone
<1> QED
  BY <1>1, <1>2, <1>3, <1>4, <1>5, SameInFlight DEF IndInv

\* The events of the envelope join the buffer and stay in flight.
LEMMA AppendEventsInv ==
    ASSUME IndInv, AppendEvents
    PROVE  IndInv'
<1> USE DEF callers, capture
<1>1. PICK T \in SUBSET cur :
        /\ T = cur \/ Cardinality(buf \cup T) = FlushEvents
        /\ buf' = buf \cup T /\ cur' = cur \ T
        /\ fpc' = IF Cardinality(buf \cup T) = FlushEvents THEN "flush" ELSE "select"
  BY DEF AppendEvents
<1>2. UNCHANGED <<pending, queue, closed, pc, seen, residual, captured, released, cancelled>>
  BY DEF AppendEvents
<1>3. Queued' = Queued /\ EventsIn(Queued') = EventsIn(Queued)
  BY <1>2 DEF Queued, EventsIn
<1>4. Held' = Held
  BY <1>1, <1>2, <1>3 DEF Held
<1>5. TypeOK'
  BY <1>1, <1>2 DEF IndInv, TypeOK, FlusherState
<1>6. QueueDistinct'
  BY <1>2, <1>3 DEF IndInv, QueueDistinct
<1>7. PlacesApart'
  BY <1>1, <1>2, <1>3 DEF IndInv, PlacesApart
<1>8. EnvelopeDone'
  BY <1>1 DEF EnvelopeDone
<1> QED
  BY <1>2, <1>4, <1>5, <1>6, <1>7, <1>8, SameInFlight DEF IndInv

\* A decrement takes away exactly the events of the buffer.
LEMMA DrainedInv ==
    ASSUME IndInv, Drained
    PROVE  IndInv'
<1> USE DEF callers, capture
<1>1. /\ fpc \in {"flush", "lastflush"}
      /\ pending' = pending - Cardinality(buf)
      /\ released' = released \cup buf /\ buf' = {}
      /\ UNCHANGED <<queue, closed, pc, seen, cur, residual, captured, cancelled>>
  BY DEF Drained
<1>2. /\ fpc' \in {"stopped", "append", "select"}
      /\ fpc' # "append" => cur = {}
  BY DEF Drained, IndInv, EnvelopeDone
<1>3. Queued' = Queued /\ EventsIn(Queued') = EventsIn(Queued) /\ Reserving' = Reserving
  BY <1>1 DEF Queued, Reserving, EventsIn
<1>4. Held' = Held \ buf /\ buf \in SUBSET Held
  BY <1>1, <1>3 DEF IndInv, PlacesApart, Held
<1>5. EventsIn(Reserving) \cap Held = {}
  BY DEF IndInv, FateMatchesAnswer, Reserving, EventsIn
<1>6. InFlight' = InFlight \ buf /\ buf \in SUBSET InFlight
  BY <1>3, <1>4, <1>5 DEF InFlight, EventsIn
<1>7. /\ IsFiniteSet(InFlight') /\ Cardinality(InFlight') \in Nat
      /\ Cardinality(buf) \in Nat
      /\ Cardinality(InFlight') = Cardinality(InFlight) - Cardinality(buf)
  BY <1>6, InFlightCount, CardinalityMinus
<1>8. IsFiniteSet(InFlight)' /\ PendingExact' /\ pending' \in 0..EventBuffer
  BY <1>1, <1>7, InFlightCount DEF PendingExact
<1>9. TypeOK'
  BY <1>1, <1>2, <1>8 DEF IndInv, TypeOK, FlusherState
<1>10. RoomWasSeen' /\ QueueDistinct' /\ EnvelopeDone'
  BY <1>1, <1>2, <1>3 DEF IndInv, RoomWasSeen, QueueDistinct, EnvelopeDone
<1>11. PlacesApart'
  BY <1>1, <1>3 DEF IndInv, PlacesApart
<1>12. FateMatchesAnswer'
  BY <1>1, <1>4 DEF IndInv, FateMatchesAnswer
<1> QED
  BY <1>8, <1>9, <1>10, <1>11, <1>12 DEF IndInv

\* A written residual gives back the slots of its events.
LEMMA ResidualWriteInv ==
    ASSUME IndInv, ResidualWrite
    PROVE  IndInv'
<1> USE DEF callers, flusher
<1>1. UNCHANGED <<queue, closed, pc, seen, fpc, cur, buf, cancelled>> /\ captured' = TRUE
  BY DEF ResidualWrite
<1>2. Queued' = Queued /\ EventsIn(Queued') = EventsIn(Queued) /\ Reserving' = Reserving
  BY <1>1 DEF Queued, Reserving, EventsIn
<1>3. RoomWasSeen' /\ QueueDistinct' /\ EnvelopeDone'
  BY <1>1, <1>2 DEF IndInv, RoomWasSeen, QueueDistinct, EnvelopeDone
<1>4. CASE UNCHANGED <<pending, released, residual>>
  <2>1. Held' = Held
    BY <1>1, <1>4, SameHeld
  <2>2. TypeOK' /\ PlacesApart'
    BY <1>1, <1>2, <1>4 DEF IndInv, TypeOK, PlacesApart
  <2> QED
    BY <1>1, <1>3, <1>4, <2>1, <2>2, SameInFlight DEF IndInv
<1>5. CASE pending' = pending - Cardinality(residual) /\ released' = released \cup residual /\ residual' = {}
  <2>1. Held' = Held \ residual /\ residual \in SUBSET Held
    BY <1>1, <1>2, <1>5 DEF IndInv, PlacesApart, Held
  <2>2. EventsIn(Reserving) \cap Held = {}
    BY DEF IndInv, FateMatchesAnswer, Reserving, EventsIn
  <2>3. InFlight' = InFlight \ residual /\ residual \in SUBSET InFlight
    BY <1>2, <2>1, <2>2 DEF InFlight, EventsIn
  <2>4. /\ IsFiniteSet(InFlight') /\ Cardinality(InFlight') \in Nat
        /\ Cardinality(residual) \in Nat
        /\ Cardinality(InFlight') = Cardinality(InFlight) - Cardinality(residual)
    BY <2>3, InFlightCount, CardinalityMinus
  <2>5. IsFiniteSet(InFlight)' /\ PendingExact' /\ pending' \in 0..EventBuffer
    BY <1>5, <2>4, InFlightCount DEF PendingExact
  <2>6. TypeOK' /\ PlacesApart'
    BY <1>1, <1>2, <1>5, <2>5 DEF IndInv, TypeOK, PlacesApart
  <2>7. FateMatchesAnswer'
    BY <1>1, <1>5, <2>1 DEF IndInv, FateMatchesAnswer
  <2> QED
    BY <1>3, <2>5, <2>6, <2>7 DEF IndInv
<1> QED
  BY <1>4, <1>5 DEF ResidualWrite

\* Steps that touch neither the counter nor any event.
LEMMA QuietInv ==
    ASSUME IndInv, UNCHANGED <<pending, queue, callers, cur, buf, capture, released>>,
           fpc' \in FlusherState, closed' \in BOOLEAN, cancelled' \in BOOLEAN,
           fpc' \in {"lastflush", "stopped"} => fpc = "select" \/ fpc' = fpc,
           fpc' = "select" => fpc = "select"
    PROVE  IndInv'
<1> USE DEF callers, capture
<1>1. Queued' = Queued /\ Held' = Held /\ EventsIn(Queued') = EventsIn(Queued)
  BY SameHeld DEF EventsIn
<1>2. TypeOK'
  BY DEF IndInv, TypeOK
<1>3. QueueDistinct' /\ PlacesApart' /\ EnvelopeDone'
  BY <1>1 DEF IndInv, QueueDistinct, PlacesApart, EnvelopeDone
<1> QED
  BY <1>1, <1>2, <1>3, SameInFlight DEF IndInv

\* Every step keeps the invariant.
LEMMA NextInv == IndInv /\ [Next]_vars => IndInv'
<1> SUFFICES ASSUME IndInv, [Next]_vars PROVE IndInv'
  OBVIOUS
<1>1. ASSUME NEW r \in Request, Submit(r) PROVE IndInv'
  BY <1>1, SubmitEmptyInv, LoadInv, SwapInv, SendInv, RollbackInv DEF Submit
<1>2. CASE Receive
  BY <1>2, ReceiveInv
<1>3. CASE AppendEvents
  BY <1>3, AppendEventsInv
<1>4. CASE Drained
  BY <1>4, DrainedInv
<1>5. CASE Tick
  <2>1. fpc' \in FlusherState /\ closed' \in BOOLEAN /\ cancelled' \in BOOLEAN
    BY <1>5 DEF Tick, IndInv, TypeOK, FlusherState
  <2> QED
    BY <1>5, <2>1, QuietInv DEF Tick
<1>6. CASE Stop
  <2>1. fpc' \in FlusherState /\ closed' \in BOOLEAN /\ cancelled' \in BOOLEAN
    BY <1>6 DEF Stop, IndInv, TypeOK, FlusherState
  <2>2. fpc = "select" /\ fpc' # "select"
    BY <1>6 DEF Stop
  <2> QED
    BY <1>6, <2>1, <2>2, QuietInv DEF Stop
<1>7. CASE Close
  <2>1. fpc' \in FlusherState /\ closed' \in BOOLEAN /\ cancelled' \in BOOLEAN
    BY <1>7 DEF Close, IndInv, TypeOK, flusher
  <2> QED
    BY <1>7, <2>1, QuietInv DEF Close, flusher
<1>8. CASE Cancel
  <2>1. fpc' \in FlusherState /\ closed' \in BOOLEAN /\ cancelled' \in BOOLEAN
    BY <1>8 DEF Cancel, IndInv, TypeOK, flusher
  <2> QED
    BY <1>8, <2>1, QuietInv DEF Cancel, flusher
<1>9. CASE ResidualTake \/ ResidualWrite
  BY <1>9, ResidualTakeInv, ResidualWriteInv
<1>10. CASE UNCHANGED vars
  <2>1. fpc' \in FlusherState /\ closed' \in BOOLEAN /\ cancelled' \in BOOLEAN
    BY <1>10 DEF vars, IndInv, TypeOK, flusher
  <2> QED
    BY <1>10, <2>1, QuietInv DEF vars, callers, flusher, capture
<1> QED
  BY <1>1, <1>2, <1>3, <1>4, <1>5, <1>6, <1>7, <1>8, <1>9, <1>10 DEF Next, Flusher

\* The invariant holds throughout.
LEMMA SpecInv == Spec => []IndInv
BY InitInv, NextInv, PTL DEF Spec
-----------------------------------------------------------------------------
(* What is proved *)

\* The types, and with them that the counter is never negative and never
\* above the ceiling.
THEOREM TypeCorrect == Spec => []TypeOK
<1>1. IndInv => TypeOK
  BY DEF IndInv
<1> QED
  BY SpecInv, <1>1, PTL

\* Submit's accounting is exact at every instant.
THEOREM CounterIsExact == Spec => []PendingExact
<1>1. IndInv => PendingExact
  BY DEF IndInv
<1> QED
  BY SpecInv, <1>1, PTL

\* The events in flight never exceed INGEST_EVENT_BUFFER, however many
\* callers race for the last slots.
THEOREM CeilingHolds == Spec => []CeilingRespected
<1>1. IndInv => CeilingRespected
  BY InFlightCount DEF CeilingRespected
<1> QED
  BY SpecInv, <1>1, PTL

\* A request's answer tells what became of its events, all of them.
THEOREM AnswerIsTrue == Spec => []FateMatchesAnswer
<1>1. IndInv => FateMatchesAnswer
  BY DEF IndInv
<1> QED
  BY SpecInv, <1>1, PTL
-----------------------------------------------------------------------------
(* The refinement: what a step does to the outcomes and the held events *)

\* BoundedBuffer counts as this module does.
LEMMA SameCardinality ==
    ASSUME NEW S
    PROVE  Buffer!Cardinality(S) = Cardinality(S)
BY DEF Buffer!Cardinality, Cardinality

\* One caller moves on, and has the answer that goes with its new state.
LEMMA Decides ==
    ASSUME TypeOK, NEW r \in Request, NEW to \in CallState, pc' = [pc EXCEPT ![r] = to],
           pc[r] \notin {"accepted", "refused", "panicked"}
    PROVE  Buffer!Decide(r, Answer(to))
<1>1. Answer(pc[r]) = "open"
  BY DEF TypeOK, CallState, Answer
<1>2. \A s \in Request : pc'[s] = IF s = r THEN to ELSE pc[s]
  BY DEF TypeOK
<1>3. [s \in Request |-> Answer(pc'[s])] = [[s \in Request |-> Answer(pc[s])] EXCEPT ![r] = Answer(to)]
  <2>1. \A s \in Request : Answer(pc'[s]) = IF s = r THEN Answer(to) ELSE Answer(pc[s])
    BY <1>2
  <2> QED
    BY <2>1
<1> QED
  BY <1>1, <1>3 DEF Buffer!Decide

\* A caller that moves on without an answer, or a step that is none of theirs.
LEMMA Undecided ==
    ASSUME TypeOK,
           \/ pc' = pc
           \/ \E r \in Request, to \in CallState :
                 pc' = [pc EXCEPT ![r] = to] /\ Answer(pc[r]) = Answer(to)
    PROVE  [s \in Request |-> Answer(pc'[s])] = [s \in Request |-> Answer(pc[s])]
<1>1. \A s \in Request : Answer(pc'[s]) = Answer(pc[s])
  BY DEF TypeOK
<1> QED
  BY <1>1

\* Every step is a step of BoundedBuffer, or leaves its variables alone.
LEMMA StepRefines ==
    ASSUME IndInv, [Next]_vars
    PROVE  [Buffer!Next]_(Buffer!vars)
<1> USE DEF flusher, callers, capture
<1>0. TypeOK
  BY DEF IndInv
<1>1. ASSUME NEW r \in Request, SubmitEmpty(r) PROVE Buffer!Next
  <2>1. Buffer!Decide(r, "accepted")
    BY <1>0, <1>1, Decides DEF SubmitEmpty, CallState, Answer
  <2>2. Held' = Held /\ Held = Held \cup EventsOf[r]
    BY <1>1, SameHeld DEF SubmitEmpty
  <2>3. IsFiniteSet(Held) /\ Cardinality(Held) <= EventBuffer
    BY InFlightCount, FS_Subset, FS_CardinalityType DEF InFlight
  <2>4. Buffer!Accept(r)
    BY <2>1, <2>2, <2>3, SameCardinality DEF Buffer!Accept
  <2> QED
    BY <2>4 DEF Buffer!Next
<1>2. ASSUME NEW r \in Request, Load(r) PROVE [Buffer!Next]_(Buffer!vars)
  <2>1. Held' = Held
    BY <1>2, SameHeld DEF Load
  <2>2. CASE pc' = [pc EXCEPT ![r] = "refused"]
    <3>1. Buffer!Decide(r, "refused")
      BY <1>0, <1>2, <2>2, Decides DEF Load, CallState, Answer
    <3> QED
      BY <2>1, <3>1 DEF Buffer!Next, Buffer!Decline
  <2>3. CASE pc' = [pc EXCEPT ![r] = "cas"]
    <3>1. Answer(pc[r]) = Answer("cas")
      BY <1>2 DEF Load, Answer
    <3> QED
      BY <1>0, <2>1, <2>3, <3>1, Undecided DEF CallState, Buffer!vars
  <2> QED
    BY <1>2, <2>2, <2>3 DEF Load
<1>3. ASSUME NEW r \in Request, Swap(r) PROVE UNCHANGED Buffer!vars
  <2>1. PICK to \in {"reserved", "start"} : pc' = [pc EXCEPT ![r] = to]
    BY <1>3 DEF Swap
  <2>2. Answer(pc[r]) = Answer(to)
    BY <1>3 DEF Swap, Answer
  <2>3. Held' = Held
    BY <1>3, SameHeld DEF Swap
  <2> QED
    BY <1>0, <2>1, <2>2, <2>3, Undecided DEF CallState, Buffer!vars
<1>4. ASSUME NEW r \in Request, Send(r) PROVE [Buffer!Next]_(Buffer!vars)
  <2>1. CASE pc' = [pc EXCEPT ![r] = "panicked"] /\ UNCHANGED queue
    <3>1. Buffer!Decide(r, "failed")
      BY <1>0, <1>4, <2>1, Decides DEF Send, CallState, Answer
    <3>2. Held' = Held
      BY <1>4, <2>1, SameHeld DEF Send
    <3> QED
      BY <3>1, <3>2 DEF Buffer!Next, Buffer!Decline
  <2>2. CASE pc' = [pc EXCEPT ![r] = "full"] /\ UNCHANGED queue
    <3>1. Answer(pc[r]) = Answer("full")
      BY <1>4 DEF Send, Answer
    <3>2. Held' = Held
      BY <1>4, <2>2, SameHeld DEF Send
    <3> QED
      BY <1>0, <2>2, <3>1, <3>2, Undecided DEF CallState, Buffer!vars
  <2>3. CASE pc' = [pc EXCEPT ![r] = "accepted"] /\ queue' = Append(queue, r)
    <3>1. Buffer!Decide(r, "accepted")
      BY <1>0, <1>4, <2>3, Decides DEF Send, CallState, Answer
    <3>2. Queued' = Queued \cup {r}
      BY <1>0, <2>3, SendElements DEF TypeOK, Queued, Elements
    <3>3. EventsIn(Queued') = EventsIn(Queued) \cup EventsOf[r]
      BY <3>2, EventsInAdd
    <3>4. Held' = Held \cup EventsOf[r]
      BY <1>4, <3>3 DEF Send, Held
    <3>5. r \in Reserving
      BY <1>4 DEF Send, Reserving
    <3>6. EventsOf[r] \subseteq EventsIn(Reserving)
      BY <3>5, EventsInMember
    <3>7. Held \cup EventsOf[r] \in SUBSET InFlight
      BY <3>6 DEF InFlight
    <3>8. Cardinality(Held \cup EventsOf[r]) <= EventBuffer
      BY <3>7, InFlightCount, FS_Subset, FS_CardinalityType
    <3> QED
      BY <3>1, <3>4, <3>8, SameCardinality DEF Buffer!Next, Buffer!Accept
  <2> QED
    BY <1>4, <2>1, <2>2, <2>3 DEF Send
<1>5. ASSUME NEW r \in Request, Rollback(r) PROVE Buffer!Next
  <2>1. Buffer!Decide(r, "refused")
    BY <1>0, <1>5, Decides DEF Rollback, CallState, Answer
  <2>2. Held' = Held
    BY <1>5, SameHeld DEF Rollback
  <2> QED
    BY <2>1, <2>2 DEF Buffer!Next, Buffer!Decline
<1>6. CASE Receive
  <2>1. /\ queue \in Seq(Request) /\ queue # <<>>
        /\ \A i, j \in 1..Len(queue) : queue[i] = queue[j] => i = j
    BY <1>6 DEF Receive, IndInv, TypeOK, QueueDistinct
  <2>2. Elements(queue) = Elements(Tail(queue)) \cup {Head(queue)}
    BY <2>1, ReceiveElements
  <2>3. Queued = Queued' \cup {Head(queue)}
    BY <1>6, <2>2 DEF Receive, Queued, Elements
  <2>4. EventsIn(Queued) = EventsIn(Queued') \cup EventsOf[Head(queue)]
    BY <2>3, EventsInAdd
  <2>5. Held' = Held
    BY <1>6, <2>4 DEF Receive, IndInv, EnvelopeDone, Held
  <2> QED
    BY <1>0, <1>6, <2>5, Undecided DEF Receive, Buffer!vars
<1>7. CASE AppendEvents
  <2>1. Held' = Held
    BY <1>7 DEF AppendEvents, Held, Queued, EventsIn
  <2> QED
    BY <1>0, <1>7, <2>1, Undecided DEF AppendEvents, Buffer!vars
<1>8. CASE Drained
  <2>1. EventsIn(Queued') = EventsIn(Queued)
    BY <1>8 DEF Drained, Queued, EventsIn
  <2>2. Held' = Held \ buf /\ buf \in SUBSET Held
    BY <1>8, <2>1 DEF Drained, IndInv, PlacesApart, Held
  <2>3. [s \in Request |-> Answer(pc'[s])] = [s \in Request |-> Answer(pc[s])]
    BY <1>0, <1>8, Undecided DEF Drained
  <2>4. CASE buf = {}
    BY <2>2, <2>3, <2>4 DEF Buffer!vars
  <2>5. CASE buf # {}
    <3>1. Buffer!Release
      BY <2>2, <2>3, <2>5 DEF Buffer!Release
    <3> QED
      BY <3>1 DEF Buffer!Next
  <2> QED
    BY <2>4, <2>5
<1>9. CASE ResidualTake
  <2>1. EventsIn(Queued) = EventsIn(Queued') \cup EventsOf[Head(queue)] /\ pc' = pc
    BY <1>9, TakeOut DEF ResidualTake
  <2>2. Held' = Held
    BY <1>9, <2>1 DEF ResidualTake, Held
  <2> QED
    BY <1>0, <2>1, <2>2, Undecided DEF Buffer!vars
<1>10. CASE ResidualWrite
  <2>1. pc' = pc /\ EventsIn(Queued') = EventsIn(Queued)
    BY <1>10 DEF ResidualWrite, Queued, EventsIn
  <2>2. [s \in Request |-> Answer(pc'[s])] = [s \in Request |-> Answer(pc[s])]
    BY <1>0, <2>1, Undecided
  <2>3. CASE residual' = residual
    <3>1. Held' = Held
      BY <1>10, <2>1, <2>3 DEF ResidualWrite, Held
    <3> QED
      BY <2>2, <3>1 DEF Buffer!vars
  <2>4. CASE residual' = {}
    <3>1. Held' = Held \ residual /\ residual \in SUBSET Held /\ residual # {}
      BY <1>10, <2>1, <2>4 DEF ResidualWrite, IndInv, PlacesApart, Held
    <3>2. Buffer!Release
      BY <2>2, <3>1 DEF Buffer!Release
    <3> QED
      BY <3>2 DEF Buffer!Next
  <2> QED
    BY <1>10, <2>3, <2>4 DEF ResidualWrite
<1>11. CASE Tick \/ Stop \/ Close \/ Cancel \/ UNCHANGED vars
  <2>1. UNCHANGED <<queue, cur, buf, residual>> /\ pc' = pc
    BY <1>11 DEF Tick, Stop, Close, Cancel, vars
  <2> QED
    BY <1>0, <2>1, SameHeld, Undecided DEF Buffer!vars
<1> QED
  BY <1>1, <1>2, <1>3, <1>4, <1>5, <1>6, <1>7, <1>8, <1>9, <1>10, <1>11 DEF Next, Submit, Flusher

\* The protocol of loads, swaps, sends and rollbacks keeps the promise of
\* BoundedBuffer, for any number of callers.
THEOREM ChannelImplementsBuffer == Spec => ImplementsBoundedBuffer
<1>1. Init => Buffer!Init
  <2> SUFFICES ASSUME Init PROVE Buffer!Init
    OBVIOUS
  <2>2. Held = {}
    <3>1. Queued = {}
      BY EmptySeq DEF Init, Queued
    <3> QED
      BY <3>1 DEF Init, Held, EventsIn
  <2>3. [r \in Request |-> Answer(pc[r])] = [r \in Request |-> "open"]
    <3>1. \A r \in Request : Answer(pc[r]) = "open"
      BY DEF Init, Answer
    <3> QED
      BY <3>1
  <2> QED
    BY <2>2, <2>3 DEF Buffer!Init
<1>2. IndInv /\ [Next]_vars => [Buffer!Next]_(Buffer!vars)
  BY StepRefines
<1> QED
  BY <1>1, <1>2, SpecInv, PTL DEF Spec, ImplementsBoundedBuffer, Buffer!Spec
=============================================================================
