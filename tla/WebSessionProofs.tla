-------------------------- MODULE WebSessionProofs --------------------------
(***************************************************************************)
(* Proofs about WebSession, for any sessions and requests, windows and     *)
(* lifetimes: a request that arrives after its session is over is not let  *)
(* in, and the gate holds.                                                 *)
(*                                                                         *)
(* Being over is for ever: a row is inserted under a new id, an UPDATE     *)
(* finds no row that was deleted, and what a renewal in flight will write  *)
(* is within the lifetime, because it was computed from created_at.  The   *)
(* flag stays up as long as it was up when the request arrived, and the    *)
(* lookup comes after the arrival.                                         *)
(***************************************************************************)
EXTENDS WebSession, TLAPS

\* A request that shows or opens a session refers to one that has begun.
Begun(q) ==
    request[q].pc \notin {"idle", "signing"} =>
        request[q].session \in Session /\ created[request[q].session] # None

\* What a lookup read, and what a renewal will write, is within the lifetime.
WithinLifetime(q) ==
    request[q].pc \in {"read", "renewing"} =>
        request[q].expiry <= created[request[q].session] + MaxLifetime

\* A late request finds no row, or one past its lifetime, and stops there.
LateStops(q) ==
    request[q].late =>
        /\ request[q].pc = "arrived" => Over(request[q].session)
        /\ request[q].pc = "read" => created[request[q].session] + MaxLifetime <= now
        /\ ~LetIn(q)

\* The flag is up as long as the history says so, and the lookup saw it.
FlagSeen(q) ==
    request[q].forced =>
        /\ mustChange
        /\ request[q].pc \in {"read", "renewing"} => request[q].flag
        /\ ~Handling(q, "content")

ReqInv(q) == Begun(q) /\ WithinLifetime(q) /\ LateStops(q) /\ FlagSeen(q)

IndInv == TypeOK /\ \A q \in Request : ReqInv(q)
-----------------------------------------------------------------------------
\* No request is under way at the start.
LEMMA InitInv == Init => IndInv
PROOF
  <1> SUFFICES ASSUME Init PROVE IndInv
    OBVIOUS
  <1>1. Fresh \in RequestType
    BY DEF Fresh, RequestType, Label
  <1>2. TypeOK
    BY <1>1, SessionAssumption DEF Init, TypeOK
  <1>3. \A q \in Request : ReqInv(q)
    BY DEF Init, Fresh, ReqInv, Begun, WithinLifetime, LateStops, FlagSeen, LetIn, Handling
  <1> QED
    BY <1>2, <1>3 DEF IndInv

\* What happens to the rest of the state while a request waits does not harm
\* it: time passes, sessions begin, and one that has no row gets none.
LEMMA Waiting ==
    ASSUME TypeOK, NEW q \in Request, ReqInv(q),
           request'[q] = request[q],
           now' \in Nat, now <= now',
           \A s \in Session : created[s] # None =>
               created'[s] = created[s] /\ (expires[s] = None => expires'[s] = None),
           request[q].forced => mustChange'
    PROVE  ReqInv(q)'
PROOF
  <1> DEFINE s == request[q].session
  <1>1. Begun(q)'
    BY SessionAssumption DEF ReqInv, Begun
  <1>2. WithinLifetime(q)'
    BY DEF ReqInv, Begun, WithinLifetime
  <1>3. LateStops(q)'
    <2>1. request[q].pc \notin {"idle", "signing"} =>
             s \in Session /\ created[s] # None /\ created'[s] = created[s] /\ created[s] \in Nat
      BY DEF ReqInv, Begun, TypeOK
    <2>2. ASSUME request[q].pc = "arrived", Over(s)  PROVE Over(s)'
      BY <2>1, <2>2, SessionAssumption DEF Over, TypeOK
    <2>3. ASSUME request[q].pc = "read", created[s] + MaxLifetime <= now
          PROVE  created'[s] + MaxLifetime <= now'
      BY <2>1, <2>3, SessionAssumption DEF TypeOK
    <2> QED
      BY <2>2, <2>3 DEF ReqInv, LateStops, LetIn
  <1>4. FlagSeen(q)'
    BY DEF ReqInv, FlagSeen, Handling
  <1> QED
    BY <1>1, <1>2, <1>3, <1>4 DEF ReqInv

\* Only request r moves, and no row and no flag changes.
LEMMA OnlyRequest ==
    ASSUME IndInv, NEW r \in Request, UNCHANGED <<now, rows, account>>,
           NEW new \in RequestType, request' = [request EXCEPT ![r] = new],
           ReqInv(r)'
    PROVE  IndInv'
PROOF
  <1>1. TypeOK'
    BY DEF IndInv, TypeOK, rows, account
  <1>2. ASSUME NEW q \in Request, q # r  PROVE ReqInv(q)'
    <2>1. ReqInv(q) /\ request'[q] = request[q]
      BY <1>2 DEF IndInv, TypeOK
    <2> QED
      BY <2>1, Waiting DEF IndInv, TypeOK, rows, account, ReqInv, FlagSeen
  <1> QED
    BY <1>1, <1>2 DEF IndInv

\* An answered request leaves nothing behind.
LEMMA Answered ==
    ASSUME NEW r \in Request, request'[r] = Fresh
    PROVE  ReqInv(r)'
  BY DEF Fresh, ReqInv, Begun, WithinLifetime, LateStops, FlagSeen, LetIn, Handling

\* An answered request is a request.
LEMMA FreshType == Fresh \in RequestType
  BY DEF Fresh, RequestType, Label

\* An answer that changes nothing else.
LEMMA AnswerInv ==
    ASSUME IndInv, NEW r \in Request, Answer(r), UNCHANGED <<now, rows, account>>
    PROVE  IndInv'
PROOF
  <1>1. request'[r] = Fresh
    BY DEF Answer, IndInv, TypeOK
  <1> QED
    BY <1>1, FreshType, Answered, OnlyRequest DEF Answer

\* Only rows change, by deletion or renewal, and request r is answered or let in.
LEMMA OnlyRows ==
    ASSUME IndInv, NEW r \in Request, UNCHANGED <<now, created, held, account>>,
           NEW new \in RequestType, request' = [request EXCEPT ![r] = new],
           NEW s \in Session, NEW e \in Nat \cup {None},
           expires' = expires \/ expires' = [expires EXCEPT ![s] = e],
           e # None => expires[s] # None /\ e <= created[s] + MaxLifetime,
           ReqInv(r)'
    PROVE  IndInv'
PROOF
  <1>1. expires' \in [Session -> Nat \cup {None}]
    BY DEF IndInv, TypeOK
  <1>2. \A z \in Session : expires[z] = None => expires'[z] = None
    BY DEF IndInv, TypeOK
  <1>3. \A z \in Session : expires'[z] # None => expires'[z] <= created[z] + MaxLifetime
    BY DEF IndInv, TypeOK
  <1>4. TypeOK'
    BY <1>1, <1>2, <1>3 DEF IndInv, TypeOK, account
  <1>5. ASSUME NEW q \in Request, q # r  PROVE ReqInv(q)'
    <2>1. ReqInv(q) /\ request'[q] = request[q]
      BY <1>5 DEF IndInv, TypeOK
    <2> QED
      BY <2>1, <1>2, Waiting DEF IndInv, TypeOK, account, ReqInv, FlagSeen
  <1> QED
    BY <1>4, <1>5 DEF IndInv
-----------------------------------------------------------------------------
(* Login *)

\* A login in progress has no session yet.
LEMMA AuthenticateInv ==
    ASSUME IndInv, NEW r \in Request, Authenticate(r)
    PROVE  IndInv'
PROOF
  <1> DEFINE new == [request[r] EXCEPT !.pc = "signing"]
  <1>1. new \in RequestType /\ request' = [request EXCEPT ![r] = new]
    BY DEF IndInv, TypeOK, Authenticate, RequestType, Label
  <1>2. request'[r] = new
    BY DEF IndInv, TypeOK, Authenticate
  <1>3. new.pc = "signing" /\ new.late = request[r].late /\ new.forced = request[r].forced
    BY DEF IndInv, TypeOK, RequestType
  <1>4. ReqInv(r)'
    BY <1>2, <1>3 DEF IndInv, ReqInv, Begun, WithinLifetime, LateStops, FlagSeen, LetIn, Handling,
          Authenticate, account
  <1> QED
    BY <1>1, <1>4, OnlyRequest DEF Authenticate

\* A new row is within its lifetime, and no request refers to a new id.
LEMMA InsertInv ==
    ASSUME IndInv, NEW r \in Request, Insert(r)
    PROVE  IndInv'
PROOF
  <1> DEFINE Ins(s) == [request[r] EXCEPT !.pc = "inserted", !.session = s]
  <1>1. PICK s \in Session :
          /\ created[s] = None
          /\ created' = [created EXCEPT ![s] = now]
          /\ expires' = [expires EXCEPT ![s] = now + Least(SlidingWindow, MaxLifetime)]
          /\ \/ request' = [request EXCEPT ![r].pc = "inserted", ![r].session = s]
             \/ Answer(r)
    BY DEF Insert
  <1>2. PICK new \in RequestType :
          /\ request' = [request EXCEPT ![r] = new]
          /\ new = Ins(s) \/ new = Fresh
    <2>1. Ins(s) \in RequestType
      BY DEF IndInv, TypeOK, RequestType, Label
    <2>2. CASE request' = [request EXCEPT ![r].pc = "inserted", ![r].session = s]
      <3>1. request' = [request EXCEPT ![r] = Ins(s)]
        BY <2>2 DEF IndInv, TypeOK
      <3> QED
        BY <2>1, <3>1
    <2>3. CASE Answer(r)
      BY <2>3, FreshType DEF Answer
    <2> QED
      BY <1>1, <2>2, <2>3
  <1>3. Least(SlidingWindow, MaxLifetime) \in Nat /\ Least(SlidingWindow, MaxLifetime) <= MaxLifetime
    BY SessionAssumption DEF Least
  <1>4. now \in Nat /\ now # None
    BY SessionAssumption DEF IndInv, TypeOK
  <1>5. TypeOK'
    <2>1. created' \in [Session -> Nat \cup {None}] /\ expires' \in [Session -> Nat \cup {None}]
      BY <1>1, <1>3, <1>4 DEF IndInv, TypeOK
    <2>2. \A z \in Session :
            /\ z \in held \/ expires'[z] # None => created'[z] # None
            /\ expires'[z] # None => expires'[z] <= created'[z] + MaxLifetime
      BY <1>1, <1>3, <1>4, SessionAssumption DEF IndInv, TypeOK
    <2>3. request' \in [Request -> RequestType]
      BY <1>2 DEF IndInv, TypeOK
    <2> QED
      BY <2>1, <2>2, <2>3 DEF IndInv, TypeOK, Insert, account
  <1>6. ASSUME NEW q \in Request, q # r  PROVE ReqInv(q)'
    <2>1. ReqInv(q) /\ request'[q] = request[q]
      BY <1>2, <1>6 DEF IndInv, TypeOK
    <2>2. \A z \in Session : created[z] # None =>
             created'[z] = created[z] /\ (expires[z] = None => expires'[z] = None)
      BY <1>1 DEF IndInv, TypeOK
    <2> QED
      BY <2>1, <2>2, Waiting DEF IndInv, TypeOK, account, ReqInv, FlagSeen, Insert
  <1>7. ReqInv(r)'
    <2>1. request'[r] = new
      BY <1>2 DEF IndInv, TypeOK
    <2>2. CASE new = Fresh
      BY <2>1, <2>2, Answered
    <2>3. CASE new = Ins(s)
      <3>1. /\ new.pc = "inserted" /\ new.session = s
            /\ new.late = request[r].late /\ new.forced = request[r].forced
        BY <2>3 DEF IndInv, TypeOK, RequestType
      <3>2. created'[s] # None
        BY <1>1, <1>4 DEF IndInv, TypeOK
      <3> QED
        BY <2>1, <3>1, <3>2 DEF IndInv, ReqInv, Begun, WithinLifetime, LateStops, FlagSeen, LetIn, Handling,
              Insert, account
    <2> QED
      BY <1>2, <2>2, <2>3
  <1> QED
    BY <1>5, <1>6, <1>7 DEF IndInv

\* The id that is sent is of a session that has begun.
LEMMA FetchInv ==
    ASSUME IndInv, NEW r \in Request, Fetch(r)
    PROVE  IndInv'
PROOF
  <1> DEFINE s == request[r].session
  <1>1. s \in Session /\ created[s] # None
    BY DEF IndInv, ReqInv, Begun, Fetch
  <1>2. request' = [request EXCEPT ![r] = Fresh]
    BY DEF Fetch, Answer
  <1>3. TypeOK'
    BY <1>1, <1>2, FreshType DEF IndInv, TypeOK, Fetch, account
  <1>4. ASSUME NEW q \in Request, q # r  PROVE ReqInv(q)'
    <2>1. ReqInv(q) /\ request'[q] = request[q]
      BY <1>2, <1>4 DEF IndInv, TypeOK
    <2> QED
      BY <2>1, Waiting DEF IndInv, TypeOK, account, ReqInv, FlagSeen, Fetch
  <1>5. request'[r] = Fresh
    BY <1>2 DEF IndInv, TypeOK
  <1> QED
    BY <1>3, <1>4, <1>5, Answered DEF IndInv
-----------------------------------------------------------------------------
(* The middleware *)

\* The history of a request starts with what is true of its session and flag.
LEMMA ArriveInv ==
    ASSUME IndInv, NEW r \in Request, NEW s \in held, NEW p \in Page, Arrive(r, s, p)
    PROVE  IndInv'
PROOF
  <1> DEFINE new == [pc |-> "arrived", page |-> p, session |-> s, expiry |-> 0, flag |-> FALSE,
                     seen |-> 0, late |-> Over(s), forced |-> mustChange]
  <1>1. s \in Session /\ created[s] # None /\ Over(s) \in BOOLEAN /\ mustChange \in BOOLEAN
    BY DEF IndInv, TypeOK, Over
  <1>2. new \in RequestType
    BY <1>1 DEF RequestType, Label
  <1>3. request' = [request EXCEPT ![r] = new]
    BY DEF Arrive
  <1>4. request'[r] = new
    BY <1>3 DEF IndInv, TypeOK
  <1>5. new.pc = "arrived" /\ new.session = s /\ new.late = Over(s) /\ new.forced = mustChange
    OBVIOUS
  <1>6. UNCHANGED <<now, created, expires, mustChange>>
    BY DEF Arrive, rows, account
  <1>7. Over(s)' = Over(s)
    BY <1>6 DEF Over
  <1>8. Begun(r)' /\ WithinLifetime(r)'
    BY <1>1, <1>4, <1>5, <1>6 DEF Begun, WithinLifetime
  <1>9. LateStops(r)'
    BY <1>4, <1>5, <1>7 DEF LateStops, LetIn
  <1>10. FlagSeen(r)'
    BY <1>4, <1>5, <1>6 DEF FlagSeen, Handling
  <1> QED
    BY <1>2, <1>3, <1>8, <1>9, <1>10, OnlyRequest DEF Arrive, ReqInv

\* A late request finds no row or reads one past its lifetime; a forced one
\* reads the flag.
LEMMA LookupInv ==
    ASSUME IndInv, NEW r \in Request, Lookup(r)
    PROVE  IndInv'
PROOF
  <1> DEFINE s == request[r].session
             new == [request[r] EXCEPT !.pc = "read", !.expiry = expires[s], !.flag = mustChange]
  <1>1. request[r] \in RequestType /\ s \in Session /\ created[s] # None /\ created[s] \in Nat
    BY DEF IndInv, TypeOK, ReqInv, Begun, Lookup
  <1>2. CASE expires[s] = None
    BY <1>2, AnswerInv DEF Lookup
  <1>3. CASE expires[s] # None
    <2>1. expires[s] \in Nat /\ expires[s] <= created[s] + MaxLifetime
      BY <1>1, <1>3 DEF IndInv, TypeOK
    <2>2. new \in RequestType
      BY <1>1, <2>1 DEF RequestType, Label, IndInv, TypeOK
    <2>3. request' = [request EXCEPT ![r] = new]
      BY <1>3 DEF Lookup, IndInv, TypeOK
    <2>4. request'[r] = new
      BY <2>3 DEF IndInv, TypeOK
    <2>5. /\ new.pc = "read" /\ new.session = s /\ new.expiry = expires[s] /\ new.flag = mustChange
          /\ new.late = request[r].late /\ new.forced = request[r].forced
      BY <1>1 DEF RequestType
    <2>6. request[r].late => created[s] + MaxLifetime <= now
      BY <1>3 DEF IndInv, ReqInv, LateStops, Over, Lookup
    <2>7. ReqInv(r)'
      BY <1>1, <2>1, <2>4, <2>5, <2>6 DEF IndInv, ReqInv, Begun, WithinLifetime, LateStops, FlagSeen, LetIn,
            Handling, Lookup, rows, account
    <2> QED
      BY <2>2, <2>3, <2>7, OnlyRequest DEF Lookup
  <1> QED
    BY <1>2, <1>3

\* Whoever is let in keeps the history, and a forced request no content.
LEMMA AdmittedType ==
    ASSUME TypeOK, NEW r \in Request
    PROVE  Admitted(r) \in RequestType
PROOF
  <1>1. request[r] \in RequestType
    BY DEF TypeOK
  <1> QED
    BY <1>1, FreshType DEF Admitted, RequestType, Label

\* A request that is let in is not late, and a forced one reaches no content.
LEMMA AdmittedInv ==
    ASSUME IndInv, NEW r \in Request, ~request[r].late, request[r].pc \in {"read", "renewing"},
           request'[r] = Admitted(r), UNCHANGED <<now, created, account>>
    PROVE  ReqInv(r)'
PROOF
  <1>1. CASE request[r].flag /\ request[r].page = "content"
    BY <1>1, Answered DEF Admitted
  <1>2. CASE ~(request[r].flag /\ request[r].page = "content")
    BY <1>2 DEF Admitted, IndInv, ReqInv, Begun, WithinLifetime, LateStops, FlagSeen, LetIn, Handling, account
  <1> QED
    BY <1>1, <1>2

\* A late request is past its lifetime: it is stale.
LEMMA JudgeInv ==
    ASSUME IndInv, NEW r \in Request, Judge(r)
    PROVE  IndInv'
PROOF
  <1> DEFINE s == request[r].session
             old == request[r].expiry
             stale == [request[r] EXCEPT !.pc = "stale"]
             renewing == [request[r] EXCEPT !.pc = "renewing", !.expiry = Renewed(s)]
  <1>1. /\ request[r] \in RequestType /\ request[r].pc = "read"
        /\ s \in Session /\ created[s] \in Nat /\ created[s] # None
        /\ old \in Nat /\ old <= created[s] + MaxLifetime /\ now \in Nat
    BY SessionAssumption DEF IndInv, TypeOK, ReqInv, Begun, WithinLifetime, Judge, RequestType
  <1>2. Renewed(s) \in Nat /\ Renewed(s) <= created[s] + MaxLifetime
    BY <1>1, SessionAssumption DEF Renewed, Least
  <1>3. request[r].late => old <= now
    BY <1>1, SessionAssumption DEF IndInv, ReqInv, LateStops
  <1>4. UNCHANGED <<now, rows, account>>
    BY DEF Judge
  <1>5. CASE request' = [request EXCEPT ![r].pc = "stale"]
    <2>1. stale \in RequestType
      BY <1>1 DEF RequestType, Label
    <2>2. request' = [request EXCEPT ![r] = stale] /\ request'[r] = stale
      BY <1>5 DEF IndInv, TypeOK
    <2>3. stale.pc = "stale" /\ stale.session = s /\ stale.late = request[r].late /\ stale.forced = request[r].forced
      BY <1>1 DEF RequestType
    <2>4. ReqInv(r)'
      BY <1>1, <1>4, <2>2, <2>3 DEF IndInv, ReqInv, Begun, WithinLifetime, LateStops, FlagSeen, LetIn, Handling,
            rows, account
    <2> QED
      BY <1>4, <2>1, <2>2, <2>4, OnlyRequest
  <1>6. CASE now < old /\ request' = [request EXCEPT ![r].pc = "renewing", ![r].expiry = Renewed(s)]
    <2>1. renewing \in RequestType
      BY <1>1, <1>2 DEF RequestType, Label
    <2>2. request' = [request EXCEPT ![r] = renewing] /\ request'[r] = renewing
      BY <1>6 DEF IndInv, TypeOK
    <2>3. /\ renewing.pc = "renewing" /\ renewing.session = s /\ renewing.expiry = Renewed(s)
          /\ renewing.flag = request[r].flag /\ renewing.late = request[r].late
          /\ renewing.forced = request[r].forced
      BY <1>1 DEF RequestType
    <2>4. ~request[r].late
      BY <1>1, <1>3, <1>6
    <2>5. ReqInv(r)'
      BY <1>1, <1>2, <1>4, <2>2, <2>3, <2>4 DEF IndInv, ReqInv, Begun, WithinLifetime, LateStops, FlagSeen,
            LetIn, Handling, rows, account
    <2> QED
      BY <1>4, <2>1, <2>2, <2>5, OnlyRequest
  <1>7. CASE now < old /\ request' = [request EXCEPT ![r] = Admitted(r)]
    <2>1. ~request[r].late
      BY <1>1, <1>3, <1>7
    <2>2. request'[r] = Admitted(r)
      BY <1>7 DEF IndInv, TypeOK
    <2>3. Admitted(r) \in RequestType
      BY AdmittedType DEF IndInv
    <2>4. ReqInv(r)'
      BY <1>1, <1>4, <2>1, <2>2, AdmittedInv DEF rows
    <2> QED
      BY <1>4, <1>7, <2>3, <2>4, OnlyRequest
  <1> QED
    BY <1>5, <1>6, <1>7 DEF Judge

\* Deleting a row by its id, and answering.
LEMMA DeleteInv ==
    ASSUME IndInv, NEW r \in Request, request[r].pc \notin {"idle", "signing"},
           expires' \in {expires, Without(request[r].session)},
           Answer(r), UNCHANGED <<now, created, held, account>>
    PROVE  IndInv'
PROOF
  <1>1. request[r].session \in Session
    BY DEF IndInv, ReqInv, Begun
  <1>2. request'[r] = Fresh
    BY DEF Answer, IndInv, TypeOK
  <1>3. ReqInv(r)'
    BY <1>2, Answered
  <1> QED
    BY <1>1, <1>3, FreshType, OnlyRows DEF Answer, Without

\* What is written was computed within the lifetime, and no row comes back.
LEMMA RenewInv ==
    ASSUME IndInv, NEW r \in Request, Renew(r)
    PROVE  IndInv'
PROOF
  <1> DEFINE s == request[r].session
             e == request[r].expiry
  <1>1. /\ request[r] \in RequestType /\ request[r].pc = "renewing"
        /\ s \in Session /\ e \in Nat /\ e <= created[s] + MaxLifetime
        /\ ~request[r].late
    BY DEF IndInv, TypeOK, ReqInv, Begun, WithinLifetime, LateStops, LetIn, Renew, RequestType
  <1>2. request' = [request EXCEPT ![r] = Admitted(r)] /\ request'[r] = Admitted(r)
    BY DEF Renew, IndInv, TypeOK
  <1>3. Admitted(r) \in RequestType
    BY AdmittedType DEF IndInv
  <1>4. ReqInv(r)'
    BY <1>1, <1>2, AdmittedInv DEF Renew
  <1>5. CASE UNCHANGED expires
    BY <1>1, <1>2, <1>3, <1>4, <1>5, OnlyRows DEF Renew
  <1>6. CASE expires[s] # None /\ expires' = [expires EXCEPT ![s] = e]
    BY <1>1, <1>2, <1>3, <1>4, <1>6, OnlyRows DEF Renew
  <1> QED
    BY <1>5, <1>6 DEF Renew
-----------------------------------------------------------------------------
(* The pages *)

\* Who is verified was let in before.
LEMMA VerifyPasswordInv ==
    ASSUME IndInv, NEW r \in Request, VerifyPassword(r)
    PROVE  IndInv'
PROOF
  <1> DEFINE new == [request[r] EXCEPT !.pc = "verified", !.seen = password]
  <1>1. CASE Answer(r)
    BY <1>1, AnswerInv DEF VerifyPassword
  <1>2. CASE request' = [request EXCEPT ![r].pc = "verified", ![r].seen = password]
    <2>1. request[r] \in RequestType /\ request[r].pc = "handling" /\ ~request[r].late
      BY DEF IndInv, TypeOK, ReqInv, LateStops, LetIn, VerifyPassword, Handling
    <2>2. new \in RequestType
      BY <2>1 DEF RequestType, Label, IndInv, TypeOK
    <2>3. request' = [request EXCEPT ![r] = new] /\ request'[r] = new
      BY <1>2 DEF IndInv, TypeOK
    <2>4. /\ new.pc = "verified" /\ new.session = request[r].session
          /\ new.late = request[r].late /\ new.forced = request[r].forced
      BY <2>1 DEF RequestType
    <2>5. ReqInv(r)'
      BY <2>1, <2>3, <2>4 DEF IndInv, ReqInv, Begun, WithinLifetime, LateStops, FlagSeen, LetIn, Handling,
            VerifyPassword, rows, account
    <2> QED
      BY <2>2, <2>3, <2>5, OnlyRequest DEF VerifyPassword
  <1> QED
    BY <1>1, <1>2 DEF VerifyPassword

\* The flag goes down, and the history says so for every request.
LEMMA WritePasswordInv ==
    ASSUME IndInv, NEW r \in Request, WritePassword(r)
    PROVE  IndInv'
PROOF
  <1>1. CASE Answer(r) /\ UNCHANGED account
    BY <1>1, AnswerInv DEF WritePassword
  <1>2. CASE /\ password' = password + 1
             /\ mustChange' = FALSE
             /\ request' = [q \in Request |-> IF q = r THEN Fresh ELSE [request[q] EXCEPT !.forced = FALSE]]
    <2>1. \A q \in Request : q # r =>
             /\ request'[q] \in RequestType
             /\ request'[q].pc = request[q].pc /\ request'[q].session = request[q].session
             /\ request'[q].expiry = request[q].expiry /\ request'[q].late = request[q].late
             /\ request'[q].forced = FALSE
      BY <1>2 DEF IndInv, TypeOK, RequestType
    <2>2. request'[r] = Fresh
      BY <1>2
    <2>3. request' \in [Request -> RequestType]
      <3>1. \A q \in Request : request'[q] \in RequestType
        BY <2>1, <2>2, FreshType
      <3>2. request' = [q \in Request |-> request'[q]]
        BY <1>2
      <3> QED
        BY <3>1, <3>2
    <2>4. UNCHANGED <<now, created, expires, held>>
      BY DEF WritePassword, rows
    <2>5. TypeOK'
      <3>1. password' \in Nat
        BY <1>2 DEF IndInv, TypeOK
      <3>2. mustChange' \in BOOLEAN
        BY <1>2
      <3> QED
        BY <2>3, <2>4, <3>1, <3>2 DEF IndInv, TypeOK
    <2>6. ASSUME NEW q \in Request, q # r  PROVE ReqInv(q)'
      <3>1. ReqInv(q)
        BY DEF IndInv
      <3>2. Begun(q)' /\ WithinLifetime(q)' /\ FlagSeen(q)'
        BY <2>1, <2>4, <2>6, <3>1 DEF ReqInv, Begun, WithinLifetime, FlagSeen
      <3>3. LateStops(q)'
        BY <2>1, <2>4, <2>6, <3>1 DEF ReqInv, LateStops, LetIn, Over
      <3> QED
        BY <3>2, <3>3 DEF ReqInv
    <2> QED
      BY <2>2, <2>5, <2>6, Answered DEF IndInv
  <1> QED
    BY <1>1, <1>2 DEF WritePassword
-----------------------------------------------------------------------------
(* The operator, the scheduler and the clock *)

\* The flag goes up: nothing that relied on it is harmed.
LEMMA ResetPasswordInv ==
    ASSUME IndInv, ResetPassword
    PROVE  IndInv'
PROOF
  <1>1. TypeOK'
    BY DEF IndInv, TypeOK, ResetPassword, rows
  <1>2. ASSUME NEW q \in Request  PROVE ReqInv(q)'
    BY Waiting DEF IndInv, TypeOK, ResetPassword, rows
  <1> QED
    BY <1>1, <1>2 DEF IndInv

\* A sweep only deletes.
LEMMA SweepInv ==
    ASSUME IndInv, Sweep
    PROVE  IndInv'
PROOF
  <1>1. expires' \in [Session -> Nat \cup {None}]
    BY DEF IndInv, TypeOK, Sweep
  <1>2. \A s \in Session : expires'[s] = None \/ expires'[s] = expires[s]
    BY DEF IndInv, TypeOK, Sweep
  <1>3. TypeOK'
    BY <1>1, <1>2 DEF IndInv, TypeOK, Sweep, account
  <1>4. ASSUME NEW q \in Request  PROVE ReqInv(q)'
    BY <1>2, Waiting DEF IndInv, TypeOK, Sweep, account, ReqInv, FlagSeen
  <1> QED
    BY <1>3, <1>4 DEF IndInv

\* What is over stays over as time passes.
LEMMA TickInv ==
    ASSUME IndInv, Tick
    PROVE  IndInv'
PROOF
  <1>1. TypeOK'
    BY DEF IndInv, TypeOK, Tick, rows, account
  <1>2. ASSUME NEW q \in Request  PROVE ReqInv(q)'
    BY Waiting DEF IndInv, TypeOK, Tick, rows, account, ReqInv, FlagSeen
  <1> QED
    BY <1>1, <1>2 DEF IndInv
-----------------------------------------------------------------------------
\* Every step keeps the invariant.
LEMMA NextInv == IndInv /\ [Next]_vars => IndInv'
PROOF
  <1> SUFFICES ASSUME IndInv, [Next]_vars PROVE IndInv'
    OBVIOUS
  <1>1. ASSUME NEW r \in Request, Login(r)  PROVE IndInv'
    BY <1>1, AuthenticateInv, InsertInv, FetchInv DEF Login
  <1>2. ASSUME NEW r \in Request, Middleware(r)  PROVE IndInv'
    <2>1. CASE LookupFails(r)
      BY <2>1, AnswerInv DEF LookupFails
    <2>2. CASE DeleteStale(r)
      BY <2>2, DeleteInv DEF DeleteStale
    <2> QED
      BY <1>2, <2>1, <2>2, LookupInv, JudgeInv, RenewInv DEF Middleware
  <1>3. ASSUME NEW r \in Request, Handle(r)  PROVE IndInv'
    <2>1. CASE ShowContent(r)
      BY <2>1, AnswerInv DEF ShowContent
    <2>2. CASE Logout(r)
      BY <2>2, DeleteInv DEF Logout, Handling
    <2> QED
      BY <1>3, <2>1, <2>2, VerifyPasswordInv, WritePasswordInv DEF Handle
  <1>4. ASSUME NEW r \in Request, NEW s \in held, NEW p \in Page, Arrive(r, s, p)  PROVE IndInv'
    BY <1>4, ArriveInv
  <1>5. CASE UNCHANGED vars
    <2>1. UNCHANGED <<now, created, expires, held, password, mustChange, request>>
      BY <1>5 DEF vars, rows, account
    <2> QED
      BY <2>1 DEF IndInv, TypeOK, ReqInv, Begun, WithinLifetime, LateStops, FlagSeen, LetIn, Handling, Over
  <1> QED
    BY <1>1, <1>2, <1>3, <1>4, <1>5, ResetPasswordInv, SweepInv, TickInv DEF Next

\* The invariant holds in every reachable state.
LEMMA Invariance == Spec => []IndInv
PROOF
  <1> QED
    BY InitInv, NextInv, PTL DEF Spec

\* Types, and the cap: no row outlives created_at + MaxLifetime (TouchSession).
THEOREM TypeCorrect == Spec => []TypeOK
PROOF
  <1>1. IndInv => TypeOK
    BY DEF IndInv
  <1> QED
    BY <1>1, Invariance, PTL

\* A session that was deleted, or whose lifetime has passed, lets no request
\* in that arrives later, for any number of sessions and of renewals in flight.
THEOREM SessionEnds == Spec => []OverIsFinal
PROOF
  <1>1. IndInv => OverIsFinal
    BY DEF IndInv, ReqInv, LateStops, OverIsFinal
  <1> QED
    BY <1>1, Invariance, PTL

\* While a password waits to be changed, no request that arrives reaches
\* content, for any number of sessions, requests and resets.
THEOREM GateStands == Spec => []GateHolds
PROOF
  <1>1. IndInv => GateHolds
    BY DEF IndInv, ReqInv, FlagSeen, GateHolds
  <1> QED
    BY <1>1, Invariance, PTL
=============================================================================
