------------------------- MODULE InviteSignupProofs -------------------------
(***************************************************************************)
(* Proofs about InviteSignup, for any people, teams, invites and requests: *)
(* rows and requests keep their types, an answer stays true, and every     *)
(* step is one of InviteContract's or changes nothing it speaks of.        *)
(*                                                                         *)
(* A transaction that has written the invite found it open, and holds its  *)
(* row, so that it is open still when it commits; the same goes for the    *)
(* email.  A request that came too late finds the invite used, or its      *)
(* transaction begins after the expiry.  What is committed is never taken  *)
(* back, and tells which request it was.                                   *)
(***************************************************************************)
EXTENDS InviteSignup, TLAPS

\* What the type invariant says of one request.
Shaped(r) ==
    /\ r.pc = "idle" => r = Idle
    /\ r.pc # "idle" =>
          r.kind # None /\ r.person # None /\ r.invite # None /\ invite[r.invite].team # None
    /\ r.pc = "done" <=> r.answer # None
    /\ r.wrote = Written(r) \cup
          (IF r.kind = "signup" /\ r.pc \in {"invite", "member", "commit"} THEN {"user"} ELSE {})

\* The request's transaction has been committed.
After(r) ==
    \/ r.pc = "session" /\ r.kind = "signup"
    \/ r.pc = "done" /\ r.answer \in {"joined", "error"}

\* It did what it is answered: through this request the person has joined.
Through(q, r) ==
    /\ invite[r.invite].by = q /\ ~r.late
    /\ user[r.person] # None /\ <<r.person, invite[r.invite].team>> \in member
    /\ r.kind = "signup" => user[r.person] = q /\ <<r.person, r.person>> \in member

\* Where a request is, and what its transaction holds.
Placed(r) ==
    /\ r.pc = "user" => r.kind = "signup"
    /\ r.pc = "reread" => user[r.person] # None
    /\ r.pc = "session" => r.kind \in {"signup", "login"}
    /\ r.kind # "signup" => user[r.person] # None
    /\ "invite" \in r.wrote => Open(r.invite) /\ ~r.late
    /\ "user" \in r.wrote => user[r.person] = None

\* Who comes late finds the invite used, or expired before the transaction.
Barred(r) == r.late => invite[r.invite].by # None \/ (invite[r.invite].expired /\ ~r.fresh)

Good(q, r) ==
    /\ r.pc # "idle" => Placed(r) /\ Barred(r)
    /\ r.answer = "joined" \/ (r.kind = "signup" /\ r.pc = "session") => Through(q, r)
    /\ r.answer = "taken" => user[r.person] # None

\* The rows of a committed transaction name its request.
Traced ==
    /\ \A p \in Person : user[p] \in Request =>
          request[user[p]].person = p /\ request[user[p]].kind = "signup" /\ After(request[user[p]])
    /\ \A i \in Invite : invite[i].by \in Request =>
          request[invite[i].by].invite = i /\ After(request[invite[i].by])

\* Two open transactions hold different rows.
Exclusive ==
    \A q, s \in Request : q # s =>
        /\ "invite" \in request[q].wrote \cap request[s].wrote => request[q].invite # request[s].invite
        /\ "user" \in request[q].wrote \cap request[s].wrote => request[q].person # request[s].person

RowsOK ==
    /\ user \in [Person -> Request \cup {Operator, None}]
    /\ member \subseteq Person \X (Team \cup Person)
    /\ invite \in [Invite -> InviteType]
    /\ request \in [Request -> RequestType]
    /\ \A i \in Invite : invite[i].known => invite[i].team # None

IndInv ==
    /\ RowsOK
    /\ \A q \in Request : Shaped(request[q]) /\ Good(q, request[q])
    /\ Traced
    /\ Exclusive
-----------------------------------------------------------------------------
\* The fields of a request.
LEMMA RequestFields ==
    ASSUME NEW r \in RequestType
    PROVE  /\ r.pc \in {"idle", "session", "begin", "user", "reread", "invite", "member", "commit", "done"}
           /\ r.kind \in {"signup", "join", "login", None}
           /\ r.person \in Person \cup {None} /\ r.invite \in Invite \cup {None}
           /\ r.wrote \subseteq {"user", "invite", "member"} /\ r.fresh \in BOOLEAN /\ r.late \in BOOLEAN
           /\ r.answer \in {"joined", "invalid", "taken", "error", None}
  BY DEF RequestType

\* None is none of the things a request may hold.
LEMMA NoneApart ==
    /\ None \notin Request /\ None \notin Person /\ None \notin Team /\ None \notin Invite /\ None # Operator
    /\ None \notin {"signup", "join", "login"}
    /\ None \notin {"joined", "invalid", "taken", "error"}
    /\ Operator \notin Request
  BY InviteAssumption

\* A request that has arrived: whose, with which invite, and what it has written.
LEMMA Arrived ==
    ASSUME NEW r \in RequestType, Shaped(r), r.pc # "idle"
    PROVE  /\ r.kind \in {"signup", "join", "login"} /\ r.person \in Person /\ r.invite \in Invite
           /\ invite[r.invite].team # None
           /\ r.pc # "done" => r.answer = None
           /\ "user" \in r.wrote <=> r.kind = "signup" /\ r.pc \in {"invite", "member", "commit"}
           /\ "invite" \in r.wrote <=> r.pc \in {"member", "commit"}
           /\ "member" \in r.wrote <=> r.pc = "commit"
PROOF
  <1>1. /\ r.kind \in {"signup", "join", "login"} /\ r.person \in Person /\ r.invite \in Invite
        /\ invite[r.invite].team # None
        /\ r.pc # "done" => r.answer = None
    BY RequestFields DEF Shaped
  <1>2. r.pc \in {"session", "begin", "user", "reread", "invite", "member", "commit", "done"}
    BY RequestFields
  <1>3. Written(r) = IF r.pc = "commit" THEN {"invite", "member"}
                     ELSE IF r.pc = "member" THEN {"invite"} ELSE {}
    BY <1>2 DEF Written
  <1>4. r.wrote = Written(r) \cup
           (IF r.kind = "signup" /\ r.pc \in {"invite", "member", "commit"} THEN {"user"} ELSE {})
    BY DEF Shaped
  <1>5. CASE r.pc = "commit"
    BY <1>1, <1>3, <1>4, <1>5
  <1>6. CASE r.pc = "member"
    BY <1>1, <1>3, <1>4, <1>6
  <1>7. CASE r.pc \notin {"member", "commit"}
    BY <1>1, <1>3, <1>4, <1>7
  <1> QED BY <1>1, <1>5, <1>6, <1>7

\* Invites and people only move on.
Onward ==
    /\ member \subseteq member'
    /\ \A p \in Person : user[p] # None => user'[p] = user[p]
    /\ \A i \in Invite :
          /\ invite[i].team # None => invite'[i].team = invite[i].team
          /\ invite[i].by # None => invite'[i].by = invite[i].by
          /\ invite[i].expired => invite'[i].expired

\* What others do does not harm a request, as long as they leave alone the rows
\* its transaction has written.
LEMMA Waiting ==
    ASSUME IndInv, Onward, NEW s \in Request, request'[s] = request[s],
           "invite" \in request[s].wrote => invite'[request[s].invite].by = None,
           "user" \in request[s].wrote => user'[request[s].person] = None
    PROVE  Shaped(request[s])' /\ Good(s, request[s])'
PROOF
  <1> DEFINE r == request[s]
  <1>1. r \in RequestType /\ Shaped(r) /\ Good(s, r)
    BY DEF IndInv, RowsOK
  <1>2. CASE r.pc = "idle"
    <2>1. r = Idle
      BY <1>1, <1>2 DEF Shaped
    <2>2. Idle.answer = None /\ Idle.pc = "idle"
      BY DEF Idle
    <2>3. Shaped(r)'
      BY <1>1, <1>2 DEF Shaped, Written
    <2>4. Good(s, r)'
      BY <2>1, <2>2, NoneApart DEF Good
    <2> QED BY <2>3, <2>4
  <1>3. CASE r.pc # "idle"
    <2>1. /\ r.kind \in {"signup", "join", "login"} /\ r.person \in Person /\ r.invite \in Invite
          /\ invite[r.invite].team # None
      BY <1>1, <1>3, Arrived
    <2>2. Shaped(r)'
      BY <1>1, <1>3, <2>1 DEF Shaped, Written, Onward
    <2>3. Placed(r)'
      BY <1>1, <1>3, <2>1 DEF Good, Placed, Onward, Open
    <2>4. Barred(r)'
      BY <1>1, <1>3, <2>1 DEF Good, Barred, Onward
    <2>5. Through(s, r) => Through(s, r)'
      BY <2>1, NoneApart DEF Through, Onward
    <2>6. r.answer = "taken" => user'[r.person] # None
      BY <1>1, <2>1 DEF Good, Onward
    <2> QED BY <1>1, <2>2, <2>3, <2>4, <2>5, <2>6 DEF Good
  <1> QED BY <1>2, <1>3

\* A step of one request alone: it keeps its person and invite, and takes no
\* row that another transaction holds.
LEMMA RequestStep ==
    ASSUME IndInv, NEW q \in Request, NEW w \in RequestType,
           request' = [request EXCEPT ![q] = w], UNCHANGED <<user, member, invite>>,
           Shaped(w), Good(q, w),
           \/ request[q].pc = "idle"
           \/ w.person = request[q].person /\ w.invite = request[q].invite /\ w.kind = request[q].kind,
           After(request[q]) => After(w),
           "invite" \in w.wrote => \A s \in Holders(q, "invite") : request[s].invite # w.invite,
           "user" \in w.wrote => \A s \in Holders(q, "user") : request[s].person # w.person
    PROVE  IndInv'
PROOF
  <1>1. RowsOK'
    BY DEF IndInv, RowsOK
  <1>2. request'[q] = w /\ \A s \in Request : s # q => request'[s] = request[s]
    BY DEF IndInv, RowsOK
  <1>3. ASSUME NEW s \in Request
        PROVE  Shaped(request[s])' /\ Good(s, request[s])'
    <2>1. CASE s = q
      <3>1. Shaped(w)' /\ Good(q, w)'
        BY DEF Shaped, Written, Good, Placed, Barred, Through, Open
      <3> QED BY <1>2, <2>1, <3>1
    <2>2. CASE s # q
      <3>1. Onward
        BY DEF Onward
      <3>2. request[s] \in RequestType /\ Shaped(request[s]) /\ Good(s, request[s])
        BY DEF IndInv, RowsOK
      <3>3. /\ "invite" \in request[s].wrote => invite[request[s].invite].by = None
            /\ "user" \in request[s].wrote => user[request[s].person] = None
        <4>1. request[s].pc = "idle" => request[s].wrote = {}
          BY <3>2 DEF Shaped, Idle
        <4> QED BY <3>2, <4>1 DEF Good, Placed, Open
      <3> QED BY <1>2, <2>2, <3>1, <3>3, Waiting
    <2> QED BY <2>1, <2>2
  <1>4. ~After(request[q]) \/ request[q].pc # "idle"
    BY DEF After
  <1>5. Traced'
    <2>1. ASSUME NEW p \in Person, user[p] \in Request
          PROVE  request'[user[p]].person = p /\ request'[user[p]].kind = "signup" /\ After(request'[user[p]])
      <3>1. request[user[p]].person = p /\ request[user[p]].kind = "signup" /\ After(request[user[p]])
        BY <2>1 DEF IndInv, Traced
      <3> QED BY <1>2, <1>4, <2>1, <3>1
    <2>2. ASSUME NEW i \in Invite, invite[i].by \in Request
          PROVE  request'[invite[i].by].invite = i /\ After(request'[invite[i].by])
      <3>1. request[invite[i].by].invite = i /\ After(request[invite[i].by])
        BY <2>2 DEF IndInv, Traced
      <3> QED BY <1>2, <1>4, <2>2, <3>1
    <2> QED BY <2>1, <2>2 DEF Traced, After
  <1>6. Exclusive'
    <2>1. ASSUME NEW s \in Request, NEW t \in Request, s # t
          PROVE  /\ "invite" \in request'[s].wrote \cap request'[t].wrote => request'[s].invite # request'[t].invite
                 /\ "user" \in request'[s].wrote \cap request'[t].wrote => request'[s].person # request'[t].person
      BY <1>2, <2>1 DEF IndInv, Exclusive, Holders
    <2> QED BY <2>1 DEF Exclusive
  <1> QED BY <1>1, <1>3, <1>5, <1>6 DEF IndInv
-----------------------------------------------------------------------------
(* The answers and what leads to them *)

\* An answer that tells the truth ends a request.
LEMMA FinishInv ==
    ASSUME IndInv, NEW q \in Request, NEW a \in {"joined", "invalid", "taken", "error"},
           request[q].pc \notin {"idle", "done"}, Finish(q, a), UNCHANGED <<user, member, invite>>,
           a = "joined" => Through(q, request[q]),
           a = "taken" => user[request[q].person] # None,
           After(request[q]) => a \in {"joined", "error"}
    PROVE  IndInv'
PROOF
  <1> DEFINE r == request[q]
             w == [r EXCEPT !.pc = "done", !.answer = a, !.wrote = {}]
  <1>1. r \in RequestType /\ Shaped(r) /\ Good(q, r)
    BY DEF IndInv, RowsOK
  <1>2. /\ w \in RequestType /\ w.pc = "done" /\ w.answer = a /\ w.wrote = {}
        /\ w.kind = r.kind /\ w.person = r.person /\ w.invite = r.invite
        /\ w.fresh = r.fresh /\ w.late = r.late
    BY <1>1 DEF RequestType
  <1>3. request' = [request EXCEPT ![q] = w]
    BY DEF Finish, IndInv, RowsOK
  <1>4. a # None
    BY NoneApart
  <1>5. Written(w) = {}
    BY <1>2 DEF Written
  <1>6. Shaped(w)
    BY <1>1, <1>2, <1>4, <1>5 DEF Shaped
  <1>7. Good(q, w)
    BY <1>1, <1>2 DEF Good, Placed, Barred, Through
  <1>8. After(r) => After(w)
    BY <1>2 DEF After
  <1> HIDE DEF w
  <1> QED BY <1>2, <1>3, <1>6, <1>7, <1>8, RequestStep

\* The rows a transaction of that kind has written when it is there.
Held(kind, label) ==
    (IF label = "commit" THEN {"invite", "member"} ELSE IF label = "member" THEN {"invite"} ELSE {})
    \cup (IF kind = "signup" /\ label \in {"invite", "member", "commit"} THEN {"user"} ELSE {})

\* A statement goes well: the handler is at its next one.  It may have written
\* a row that nobody else holds.
LEMMA GoOnInv ==
    ASSUME IndInv, NEW q \in Request, request[q].pc \in {"session", "begin", "user", "invite", "member"},
           NEW label \in {"begin", "user", "reread", "invite", "member", "commit"},
           NEW f \in BOOLEAN, NEW W, W = Held(request[q].kind, label),
           request' = [request EXCEPT ![q] = [request[q] EXCEPT !.pc = label, !.wrote = W, !.fresh = f]],
           UNCHANGED <<user, member, invite>>,
           ~After(request[q]),
           label = "user" => request[q].kind = "signup",
           label = "reread" => user[request[q].person] # None,
           request[q].late => invite[request[q].invite].by # None \/ (invite[request[q].invite].expired /\ ~f),
           label \in {"member", "commit"} =>
              /\ Open(request[q].invite) /\ ~request[q].late
              /\ \A s \in Holders(q, "invite") : request[s].invite # request[q].invite,
           request[q].kind = "signup" /\ label \in {"invite", "member", "commit"} =>
              /\ user[request[q].person] = None
              /\ \A s \in Holders(q, "user") : request[s].person # request[q].person
    PROVE  IndInv'
PROOF
  <1> DEFINE r == request[q]
             w == [r EXCEPT !.pc = label, !.wrote = W, !.fresh = f]
  <1>1. r \in RequestType /\ Shaped(r) /\ Good(q, r) /\ W \in SUBSET {"user", "invite", "member"}
    BY DEF IndInv, RowsOK, Held
  <1>2. /\ w \in RequestType /\ w.pc = label /\ w.wrote = W /\ w.fresh = f
        /\ w.kind = r.kind /\ w.person = r.person /\ w.invite = r.invite
        /\ w.answer = r.answer /\ w.late = r.late
    BY <1>1 DEF RequestType
  <1>3. r.answer = None
    BY <1>1, Arrived
  <1>4. Written(w) = IF label = "commit" THEN {"invite", "member"} ELSE IF label = "member" THEN {"invite"} ELSE {}
    BY <1>2 DEF Written
  <1>5. Shaped(w)
    BY <1>1, <1>2, <1>3, <1>4 DEF Shaped, Held
  <1>6. Placed(w) /\ Barred(w)
    BY <1>1, <1>2 DEF Good, Placed, Barred, Held
  <1>7. Good(q, w)
    BY <1>2, <1>3, <1>6, NoneApart DEF Good
  <1>8. request' = [request EXCEPT ![q] = w]
    OBVIOUS
  <1>9. /\ "invite" \in w.wrote => \A s \in Holders(q, "invite") : request[s].invite # w.invite
        /\ "user" \in w.wrote => \A s \in Holders(q, "user") : request[s].person # w.person
    BY <1>2 DEF Held
  <1>10. After(r) => After(w)
    OBVIOUS
  <1>11. w \in RequestType /\ w.kind = r.kind /\ w.person = r.person /\ w.invite = r.invite
    BY <1>2
  <1> HIDE DEF w
  <1> QED BY <1>5, <1>7, <1>8, <1>9, <1>10, <1>11, RequestStep

\* No session makes a person known to a team: a login goes on to its invite, a
\* signup has joined when its transaction was committed.
LEMMA CreateSessionInv ==
    ASSUME IndInv, NEW q \in Request, CreateSession(q)
    PROVE  IndInv'
PROOF
  <1> DEFINE r == request[q]
  <1>1. r \in RequestType /\ Shaped(r) /\ Good(q, r) /\ r.pc = "session"
    BY DEF IndInv, RowsOK, CreateSession
  <1>2. CASE r.kind = "login"
    <2> DEFINE w == [r EXCEPT !.pc = "begin", !.wrote = {}, !.fresh = r.fresh]
    <2>1. r.wrote = {} /\ r.fresh \in BOOLEAN
      BY <1>1, Arrived, RequestFields
    <2>2. [r EXCEPT !.pc = "begin"] = w
      BY <1>1, <2>1 DEF RequestType
    <2>3. request' = [request EXCEPT ![q] = w]
      BY <1>2, <2>2 DEF CreateSession, Goto, IndInv, RowsOK
    <2>4. r.late => invite[r.invite].by # None \/ (invite[r.invite].expired /\ ~r.fresh)
      BY <1>1, <1>2 DEF After, Good, Barred
    <2>5. ~After(r)
      BY <1>1, <1>2 DEF After
    <2>6. {} = Held(r.kind, "begin")
      BY DEF Held
    <2>7. r.pc \in {"session", "begin", "user", "invite", "member"}
      BY <1>1
    <2>8. UNCHANGED <<user, member, invite>>
      BY DEF CreateSession
    <2> QED BY <2>1, <2>3, <2>4, <2>5, <2>6, <2>7, <2>8, GoOnInv
  <1>3. CASE r.kind # "login"
    <2>1. r.kind = "signup"
      BY <1>1, <1>3 DEF Good, Placed
    <2>2. Through(q, r)
      BY <1>1, <2>1 DEF Good
    <2> QED BY <1>1, <1>3, <2>2, FinishInv DEF CreateSession
  <1> QED BY <1>2, <1>3

\* NOW() is after the arrival.
LEMMA BeginInv ==
    ASSUME IndInv, NEW q \in Request, Begin(q)
    PROVE  IndInv'
PROOF
  <1> DEFINE r == request[q]
             f == ~invite[r.invite].expired
  <1>1. r \in RequestType /\ Shaped(r) /\ Good(q, r) /\ r.pc = "begin" /\ ~After(r)
    BY DEF IndInv, RowsOK, Begin, After
  <1>2. /\ request[q].pc \in {"session", "begin", "user", "invite", "member"}
        /\ UNCHANGED <<user, member, invite>>
    BY <1>1 DEF Begin
  <1>3. r.wrote = {}
    BY <1>1, Arrived, RequestFields
  <1>4. r.late => invite[r.invite].by # None \/ (invite[r.invite].expired /\ ~f)
    BY <1>1 DEF Good, Barred
  <1>5. f \in BOOLEAN
    OBVIOUS
  <1>6. CASE r.kind = "signup"
    <2>1. request' = [request EXCEPT ![q] = [r EXCEPT !.pc = "user", !.fresh = f]]
      BY <1>6 DEF Begin, IndInv, RowsOK
    <2>2. [r EXCEPT !.pc = "user", !.fresh = f] = [r EXCEPT !.pc = "user", !.wrote = {}, !.fresh = f]
      BY <1>1, <1>3 DEF RequestType
    <2>3. request' = [request EXCEPT ![q] = [r EXCEPT !.pc = "user", !.wrote = {}, !.fresh = f]]
      BY <2>1, <2>2
    <2> HIDE DEF f
    <2>4. {} = Held(r.kind, "user")
      BY DEF Held
    <2> QED BY <1>1, <1>2, <1>4, <1>5, <1>6, <2>3, <2>4, GoOnInv
  <1>7. CASE r.kind # "signup"
    <2>1. request' = [request EXCEPT ![q] = [r EXCEPT !.pc = "invite", !.fresh = f]]
      BY <1>7 DEF Begin, IndInv, RowsOK
    <2>2. [r EXCEPT !.pc = "invite", !.fresh = f] = [r EXCEPT !.pc = "invite", !.wrote = {}, !.fresh = f]
      BY <1>1, <1>3 DEF RequestType
    <2>3. request' = [request EXCEPT ![q] = [r EXCEPT !.pc = "invite", !.wrote = {}, !.fresh = f]]
      BY <2>1, <2>2
    <2> HIDE DEF f
    <2>4. {} = Held(r.kind, "invite")
      BY <1>7 DEF Held
    <2> QED BY <1>1, <1>2, <1>4, <1>5, <1>7, <2>3, <2>4, GoOnInv
  <1> QED BY <1>6, <1>7

\* The email is free, and nobody else is about to take it; or it has an account,
\* and will always have it.
LEMMA CreateUserInv ==
    ASSUME IndInv, NEW q \in Request, CreateUser(q)
    PROVE  IndInv'
PROOF
  <1> DEFINE r == request[q]
  <1>1. /\ r \in RequestType /\ Shaped(r) /\ Good(q, r) /\ r.pc = "user" /\ UNCHANGED <<user, member, invite>>
        /\ \A s \in Holders(q, "user") : request[s].person # r.person
    BY DEF IndInv, RowsOK, CreateUser
  <1>2. ~After(r) /\ r.kind = "signup"
    BY <1>1 DEF After, Good, Placed
  <1>3. CASE user[r.person] # None
    <2>1. r.wrote = {} /\ r.fresh \in BOOLEAN
      BY <1>1, Arrived, RequestFields
    <2>2. [r EXCEPT !.pc = "reread"] = [r EXCEPT !.pc = "reread", !.wrote = {}, !.fresh = r.fresh]
      BY <1>1, <2>1 DEF RequestType
    <2>3. request' = [request EXCEPT ![q] = [r EXCEPT !.pc = "reread", !.wrote = {}, !.fresh = r.fresh]]
      BY <1>3, <2>2 DEF CreateUser, Goto, IndInv, RowsOK
    <2>4. {} = Held(r.kind, "reread")
      BY DEF Held
    <2>5. r.late => invite[r.invite].by # None \/ (invite[r.invite].expired /\ ~r.fresh)
      BY <1>1 DEF Good, Barred
    <2>6. r.pc \in {"session", "begin", "user", "invite", "member"}
      BY <1>1
    <2> QED BY <1>1, <1>2, <1>3, <2>1, <2>3, <2>4, <2>5, <2>6, GoOnInv
  <1>4. CASE user[r.person] = None
    <2>1. r.wrote = {} /\ r.fresh \in BOOLEAN
      BY <1>1, Arrived, RequestFields
    <2>2. request' = [request EXCEPT ![q].wrote = @ \cup {"user"}, ![q].pc = "invite"]
      BY <1>4 DEF CreateUser, Write
    <2>3. request' = [request EXCEPT ![q] = [r EXCEPT !.wrote = r.wrote \cup {"user"}, !.pc = "invite"]]
      BY <2>2 DEF IndInv, RowsOK
    <2>4. [r EXCEPT !.wrote = r.wrote \cup {"user"}, !.pc = "invite"]
             = [r EXCEPT !.pc = "invite", !.wrote = {"user"}, !.fresh = r.fresh]
      BY <1>1, <2>1 DEF RequestType
    <2>5. request' = [request EXCEPT ![q] = [r EXCEPT !.pc = "invite", !.wrote = {"user"}, !.fresh = r.fresh]]
      BY <2>3, <2>4
    <2>6. {"user"} = Held(r.kind, "invite")
      BY <1>2 DEF Held
    <2>7. r.late => invite[r.invite].by # None \/ (invite[r.invite].expired /\ ~r.fresh)
      BY <1>1 DEF Good, Barred
    <2>8. r.pc \in {"session", "begin", "user", "invite", "member"}
      BY <1>1
    <2> QED BY <1>1, <1>2, <1>4, <2>1, <2>5, <2>6, <2>7, <2>8, GoOnInv
  <1> QED BY <1>3, <1>4

\* The page shown again tells of an account that is there.
LEMMA RereadInv ==
    ASSUME IndInv, NEW q \in Request, Reread(q)
    PROVE  IndInv'
PROOF
  <1> DEFINE r == request[q]
  <1>1. Good(q, r) /\ r.pc = "reread" /\ UNCHANGED <<user, member, invite>>
    BY DEF IndInv, Reread
  <1>2. user[r.person] # None /\ ~After(r)
    BY <1>1 DEF After, Good, Placed
  <1>3. PICK a \in {"taken", "invalid"} : Finish(q, a)
    BY DEF Reread
  <1> QED BY <1>1, <1>2, <1>3, FinishInv

\* The invite is open and in time, and nobody else is about to use it up: then
\* the request was not late.
LEMMA ConsumeInv ==
    ASSUME IndInv, NEW q \in Request, Consume(q)
    PROVE  IndInv'
PROOF
  <1> DEFINE r == request[q]
             W == {"invite"} \cup (IF r.kind = "signup" THEN {"user"} ELSE {})
  <1>1. /\ r \in RequestType /\ Shaped(r) /\ Good(q, r) /\ r.pc = "invite" /\ UNCHANGED <<user, member, invite>>
        /\ \A s \in Holders(q, "invite") : request[s].invite # r.invite
    BY DEF IndInv, RowsOK, Consume
  <1>2. ~After(r)
    BY <1>1 DEF After
  <1>3. CASE ~(Open(r.invite) /\ r.fresh)
    <2>1. Finish(q, "invalid")
      BY <1>3 DEF Consume
    <2> QED BY <1>1, <1>2, <2>1, FinishInv
  <1>4. CASE Open(r.invite) /\ r.fresh
    <2>1. /\ "user" \in r.wrote <=> r.kind = "signup"
          /\ "invite" \notin r.wrote /\ "member" \notin r.wrote
          /\ r.wrote \subseteq {"user", "invite", "member"} /\ r.fresh \in BOOLEAN
      BY <1>1, Arrived, RequestFields
    <2>2. r.wrote \cup {"invite"} = W
      BY <2>1
    <2>3. request' = [request EXCEPT ![q].wrote = @ \cup {"invite"}, ![q].pc = "member"]
      BY <1>4 DEF Consume, Write
    <2>4. request' = [request EXCEPT ![q] = [r EXCEPT !.wrote = r.wrote \cup {"invite"}, !.pc = "member"]]
      BY <2>3 DEF IndInv, RowsOK
    <2>5. [r EXCEPT !.wrote = r.wrote \cup {"invite"}, !.pc = "member"]
             = [r EXCEPT !.pc = "member", !.wrote = W, !.fresh = r.fresh]
      BY <1>1, <2>2 DEF RequestType
    <2>6. request' = [request EXCEPT ![q] = [r EXCEPT !.pc = "member", !.wrote = W, !.fresh = r.fresh]]
      BY <2>4, <2>5
    <2>7. W = Held(r.kind, "member")
      BY DEF Held
    <2>8. r.late => invite[r.invite].by # None \/ (invite[r.invite].expired /\ ~r.fresh)
      BY <1>1 DEF Good, Barred
    <2>9. ~r.late
      BY <1>4, <2>8 DEF Open
    <2>10. r.kind = "signup" => /\ user[r.person] = None
                                /\ \A s \in Holders(q, "user") : request[s].person # r.person
      BY <1>1, <2>1 DEF Good, Placed, Holders, IndInv, Exclusive
    <2>11. r.pc \in {"session", "begin", "user", "invite", "member"}
      BY <1>1
    <2> HIDE DEF W
    <2> QED BY <1>1, <1>2, <1>4, <2>1, <2>6, <2>7, <2>8, <2>9, <2>10, <2>11, GoOnInv
  <1> QED BY <1>3, <1>4

\* The transaction holds what it wrote before.
LEMMA AddMemberInv ==
    ASSUME IndInv, NEW q \in Request, AddMember(q)
    PROVE  IndInv'
PROOF
  <1> DEFINE r == request[q]
             W == {"invite", "member"} \cup (IF r.kind = "signup" THEN {"user"} ELSE {})
  <1>1. r \in RequestType /\ Shaped(r) /\ Good(q, r) /\ r.pc = "member" /\ UNCHANGED <<user, member, invite>>
    BY DEF IndInv, RowsOK, AddMember
  <1>2. ~After(r)
    BY <1>1 DEF After
  <1>3. /\ "user" \in r.wrote <=> r.kind = "signup"
        /\ "invite" \in r.wrote /\ "member" \notin r.wrote
        /\ r.wrote \subseteq {"user", "invite", "member"} /\ r.fresh \in BOOLEAN
    BY <1>1, Arrived, RequestFields
  <1>4. r.wrote \cup {"member"} = W
    BY <1>3
  <1>5. request' = [request EXCEPT ![q] = [r EXCEPT !.wrote = r.wrote \cup {"member"}, !.pc = "commit"]]
    <2>1. request' = [request EXCEPT ![q].wrote = @ \cup {"member"}, ![q].pc = "commit"]
      BY DEF AddMember, Write
    <2> QED BY <2>1 DEF IndInv, RowsOK
  <1>6. [r EXCEPT !.wrote = r.wrote \cup {"member"}, !.pc = "commit"]
           = [r EXCEPT !.pc = "commit", !.wrote = W, !.fresh = r.fresh]
    BY <1>1, <1>4 DEF RequestType
  <1>7. request' = [request EXCEPT ![q] = [r EXCEPT !.pc = "commit", !.wrote = W, !.fresh = r.fresh]]
    BY <1>5, <1>6
  <1>8. W = Held(r.kind, "commit")
    BY DEF Held
  <1>9. r.late => invite[r.invite].by # None \/ (invite[r.invite].expired /\ ~r.fresh)
    BY <1>1 DEF Good, Barred
  <1>10. /\ Open(r.invite) /\ ~r.late
         /\ \A s \in Holders(q, "invite") : request[s].invite # r.invite
    BY <1>1, <1>3 DEF Good, Placed, Holders, IndInv, Exclusive
  <1>11. r.kind = "signup" => /\ user[r.person] = None
                              /\ \A s \in Holders(q, "user") : request[s].person # r.person
    BY <1>1, <1>3 DEF Good, Placed, Holders, IndInv, Exclusive
  <1>12. r.pc \in {"session", "begin", "user", "invite", "member"} /\ r.fresh \in BOOLEAN
    BY <1>1, <1>3
  <1> HIDE DEF W
  <1> QED BY <1>1, <1>2, <1>7, <1>8, <1>9, <1>10, <1>11, <1>12, GoOnInv

\* An error is true whatever was done.
LEMMA FailInv ==
    ASSUME IndInv, NEW q \in Request, Fail(q)
    PROVE  IndInv'
  BY FinishInv DEF Fail

\* Whoever arrives has the URL of an invite there is.
LEMMA ArriveInv ==
    ASSUME IndInv, NEW q \in Request, NEW kind \in {"signup", "join", "login"}, NEW p \in Person, NEW i \in Invite,
           Arrive(q, kind, p, i)
    PROVE  IndInv'
PROOF
  <1> DEFINE l == ~Open(i) \/ invite[i].expired
             at == IF kind = "login" THEN "session" ELSE "begin"
             w == [Idle EXCEPT !.pc = at, !.kind = kind,
                               !.person = p, !.invite = i, !.late = l]
  <1>1. request[q].pc = "idle" /\ request' = [request EXCEPT ![q] = w] /\ UNCHANGED <<user, member, invite>>
        /\ (kind # "signup" => user[p] # None)
    BY DEF Arrive
  <1>2. l \in BOOLEAN /\ invite[i].team # None
    BY DEF IndInv, RowsOK, InviteType, Arrive, Open
  <1>3. /\ Idle \in RequestType /\ Idle.wrote = {} /\ Idle.fresh = FALSE /\ Idle.answer = None
    BY DEF Idle, RequestType
  <1>4. at \in {"session", "begin"}
    OBVIOUS
  <1>5. /\ w \in RequestType /\ w.pc = at /\ w.kind = kind /\ w.person = p
        /\ w.invite = i /\ w.wrote = {} /\ w.fresh = FALSE /\ w.late = l /\ w.answer = None
    <2> HIDE DEF l, at
    <2> QED BY <1>2, <1>3, <1>4 DEF RequestType
  <1>6. Written(w) = {}
    BY <1>5 DEF Written
  <1>7. Shaped(w)
    BY <1>2, <1>5, <1>6, NoneApart DEF Shaped
  <1>8. Placed(w) /\ Barred(w)
    <2>1. Placed(w)
      BY <1>1, <1>5 DEF Placed
    <2>2. l => invite[i].by # None \/ invite[i].expired
      BY <1>2 DEF Open
    <2>3. Barred(w)
      BY <1>5, <2>2 DEF Barred
    <2> QED BY <2>1, <2>3
  <1>9. Good(q, w)
    BY <1>5, <1>8, NoneApart DEF Good
  <1>10. ~After(request[q])
    BY <1>1 DEF After
  <1>11. "invite" \notin w.wrote /\ "user" \notin w.wrote
    BY <1>5
  <1> HIDE DEF w
  <1> QED BY <1>1, <1>5, <1>7, <1>9, <1>10, <1>11, RequestStep
-----------------------------------------------------------------------------
(* Invites *)

\* Issuing and expiring change no invite that a request may have: nobody has
\* one that was not issued.
LEMMA InviteStep ==
    ASSUME IndInv, UNCHANGED <<user, member, request>>, NEW i \in Invite, NEW v \in InviteType,
           invite' = [invite EXCEPT ![i] = v],
           v.by = invite[i].by, v.known => v.team # None,
           invite[i].team # None => v.team = invite[i].team,
           invite[i].expired => v.expired
    PROVE  IndInv'
PROOF
  <1>1. \A j \in Invite : invite'[j] = (IF j = i THEN v ELSE invite[j])
    BY DEF IndInv, RowsOK
  <1>2. RowsOK'
    BY <1>1 DEF IndInv, RowsOK
  <1>3. \A j \in Invite : invite'[j].by = invite[j].by
    BY <1>1
  <1>4. Onward
    BY <1>1 DEF Onward
  <1>5. ASSUME NEW s \in Request
        PROVE  Shaped(request[s])' /\ Good(s, request[s])'
    <2>1. request[s] \in RequestType /\ Shaped(request[s]) /\ Good(s, request[s])
      BY DEF IndInv, RowsOK
    <2>2. CASE request[s].pc = "idle"
      <3>1. request[s].wrote = {}
        BY <2>1, <2>2 DEF Shaped, Idle
      <3> QED BY <1>4, <3>1, Waiting
    <2>3. CASE request[s].pc # "idle"
      <3>1. request[s].invite \in Invite
        BY <2>1, <2>3, Arrived
      <3>2. /\ "invite" \in request[s].wrote => invite'[request[s].invite].by = None
            /\ "user" \in request[s].wrote => user'[request[s].person] = None
        BY <1>3, <2>1, <2>3, <3>1 DEF Good, Placed, Open
      <3> QED BY <1>4, <3>2, Waiting
    <2> QED BY <2>2, <2>3
  <1>6. Traced'
    BY <1>3 DEF IndInv, Traced, After
  <1>7. Exclusive'
    BY DEF IndInv, Exclusive
  <1> QED BY <1>2, <1>5, <1>6, <1>7 DEF IndInv

LEMMA IssueInv ==
    ASSUME IndInv, NEW u \in Person, NEW i \in Invite, NEW t \in Team, Issue(u, i, t)
    PROVE  IndInv'
PROOF
  <1>1. PICK known \in BOOLEAN : invite' = [invite EXCEPT ![i].team = t, ![i].known = known]
    BY DEF Issue
  <1> DEFINE v == [invite[i] EXCEPT !.team = t, !.known = known]
  <1>2. invite[i] \in InviteType /\ invite[i].team = None
    BY DEF IndInv, RowsOK, Issue
  <1>3. v \in InviteType /\ v.by = invite[i].by /\ v.team = t /\ v.expired = invite[i].expired
    BY <1>2 DEF InviteType
  <1>4. invite' = [invite EXCEPT ![i] = v]
    BY <1>1 DEF IndInv, RowsOK
  <1>5. t # None
    BY NoneApart
  <1> HIDE DEF v
  <1> QED BY <1>2, <1>3, <1>4, <1>5, InviteStep DEF Issue

LEMMA ExpireInv ==
    ASSUME IndInv, NEW i \in Invite, Expire(i)
    PROVE  IndInv'
PROOF
  <1> DEFINE v == [invite[i] EXCEPT !.expired = TRUE]
  <1>1. invite[i] \in InviteType
    BY DEF IndInv, RowsOK
  <1>2. v \in InviteType /\ v.by = invite[i].by /\ v.team = invite[i].team /\ v.expired /\ v.known = invite[i].known
    BY <1>1 DEF InviteType
  <1>3. invite' = [invite EXCEPT ![i] = v]
    BY DEF IndInv, RowsOK, Expire
  <1>4. v.known => v.team # None
    BY <1>2 DEF IndInv, RowsOK
  <1> HIDE DEF v
  <1> QED BY <1>1, <1>2, <1>3, <1>4, InviteStep DEF Expire
-----------------------------------------------------------------------------
(* The commit *)

\* What a commit makes of the rows: the invite was open, and the email of a
\* stranger free.
LEMMA LandRows ==
    ASSUME IndInv, NEW q \in Request, request[q].pc = "commit", Land(q)
    PROVE  LET r == request[q] IN
           /\ r.person \in Person /\ r.invite \in Invite /\ Open(r.invite) /\ ~r.late
           /\ r.kind \in {"signup", "join", "login"} /\ r.answer = None
           /\ user' = IF r.kind = "signup" THEN [user EXCEPT ![r.person] = q] ELSE user
           /\ r.kind = "signup" <=> user[r.person] = None
           /\ member' = member \cup (IF r.kind = "signup" THEN {<<r.person, r.person>>} ELSE {})
                               \cup {<<r.person, invite[r.invite].team>>}
           /\ invite' = [invite EXCEPT ![r.invite].by = q]
PROOF
  <1> DEFINE r == request[q]
  <1>1. r \in RequestType /\ Shaped(r) /\ Good(q, r) /\ r.pc # "idle"
    BY DEF IndInv, RowsOK
  <1>2. /\ r.person \in Person /\ r.invite \in Invite /\ r.kind \in {"signup", "join", "login"} /\ r.answer = None
        /\ "user" \in r.wrote <=> r.kind = "signup"
        /\ "invite" \in r.wrote /\ "member" \in r.wrote
    BY <1>1, Arrived
  <1>3. Open(r.invite) /\ ~r.late /\ (r.kind = "signup" <=> user[r.person] = None)
    BY <1>1, <1>2 DEF Good, Placed
  <1> QED BY <1>2, <1>3 DEF Land, Target

LEMMA LandInv ==
    ASSUME IndInv, NEW q \in Request, request[q].pc = "commit", Land(q), NEW w \in RequestType,
           request' = [request EXCEPT ![q] = w],
           w.wrote = {}, w.kind = request[q].kind, w.person = request[q].person, w.invite = request[q].invite,
           w.late = request[q].late,
           \/ w.pc = "done" /\ w.answer \in {"joined", "error"}
           \/ w.pc = "session" /\ w.answer = None /\ w.kind = "signup"
    PROVE  IndInv'
PROOF
  <1> DEFINE r == request[q]
  <1>1. /\ r.person \in Person /\ r.invite \in Invite /\ Open(r.invite) /\ ~r.late
        /\ r.kind \in {"signup", "join", "login"}
        /\ user' = IF r.kind = "signup" THEN [user EXCEPT ![r.person] = q] ELSE user
        /\ r.kind = "signup" <=> user[r.person] = None
        /\ member' = member \cup (IF r.kind = "signup" THEN {<<r.person, r.person>>} ELSE {})
                            \cup {<<r.person, invite[r.invite].team>>}
        /\ invite' = [invite EXCEPT ![r.invite].by = q]
    BY LandRows
  <1>2. /\ r \in RequestType /\ Shaped(r) /\ invite[r.invite] \in InviteType /\ invite[r.invite].team # None
        /\ invite[r.invite].team \in Team
    BY <1>1 DEF IndInv, RowsOK, Open, InviteType
  <1> DEFINE v == [invite[r.invite] EXCEPT !.by = q]
  <1>3. v \in InviteType /\ v.by = q /\ v.team = invite[r.invite].team /\ v.expired = invite[r.invite].expired
        /\ v.known = invite[r.invite].known
    BY <1>2 DEF InviteType
  <1>4. \A j \in Invite : invite'[j] = (IF j = r.invite THEN v ELSE invite[j])
    BY <1>1 DEF IndInv, RowsOK
  <1>5. \A p \in Person : user'[p] = (IF r.kind = "signup" /\ p = r.person THEN q ELSE user[p])
    BY <1>1 DEF IndInv, RowsOK
  <1>6. request'[q] = w /\ \A s \in Request : s # q => request'[s] = request[s]
    BY DEF IndInv, RowsOK
  <1>7. Onward
    <2>1. invite[r.invite].by = None
      BY <1>1 DEF Open
    <2> HIDE DEF v
    <2> QED BY <1>1, <1>3, <1>4, <1>5, <2>1 DEF Onward
  <1>8. RowsOK'
    <2>1. invite' \in [Invite -> InviteType]
      BY <1>1, <1>3 DEF IndInv, RowsOK
    <2>2. user' \in [Person -> Request \cup {Operator, None}]
      BY <1>1 DEF IndInv, RowsOK
    <2>3. member' \subseteq Person \X (Team \cup Person)
      BY <1>1, <1>2 DEF IndInv, RowsOK
    <2>4. request' \in [Request -> RequestType]
      BY DEF IndInv, RowsOK
    <2>5. \A j \in Invite : invite'[j].known => invite'[j].team # None
      BY <1>2, <1>3, <1>4, ZenonT(60) DEF IndInv, RowsOK
    <2> QED BY <2>1, <2>2, <2>3, <2>4, <2>5 DEF RowsOK
  <1>9. invite'[r.invite] = v /\ invite'[r.invite].team = invite[r.invite].team /\ invite'[r.invite].by = q
    BY <1>1, <1>3, <1>4
  <1>10. Shaped(w)'
    <2>1. w.pc \in {"done", "session"} /\ (w.pc = "done" <=> w.answer # None)
      BY NoneApart
    <2>2. w.kind # None /\ w.person # None /\ w.invite # None
      BY <1>1, NoneApart
    <2>3. Written(w) = {}
      BY <2>1 DEF Written
    <2> HIDE DEF v
    <2> QED BY <1>2, <1>9, <2>1, <2>2, <2>3 DEF Shaped, Written
  <1>11. Through(q, w)'
    <2>1. /\ user'[r.person] # None
          /\ r.kind = "signup" => user'[r.person] = q
      BY <1>1, <1>5, NoneApart
    <2>2. /\ <<r.person, invite'[r.invite].team>> \in member'
          /\ r.kind = "signup" => <<r.person, r.person>> \in member'
      BY <1>1, <1>9
    <2> HIDE DEF v
    <2> QED BY <1>1, <1>9, <2>1, <2>2 DEF Through
  <1>12. Good(q, w)'
    <2>1. Placed(w)'
      BY <1>11 DEF Placed, Through
    <2>2. Barred(w)' /\ w.answer # "taken"
      BY <1>1, NoneApart DEF Barred
    <2> QED BY <1>11, <2>1, <2>2 DEF Good
  <1>13. ASSUME NEW s \in Request
         PROVE  Shaped(request[s])' /\ Good(s, request[s])'
    <2>1. CASE s = q
      BY <1>6, <1>10, <1>12, <2>1
    <2>2. CASE s # q
      <3>1. request[s] \in RequestType /\ Shaped(request[s]) /\ Good(s, request[s]) /\ request'[s] = request[s]
        BY <1>6, <2>2 DEF IndInv, RowsOK
      <3>2. CASE request[s].pc = "idle"
        <4>1. request[s].wrote = {}
          BY <3>1, <3>2 DEF Shaped, Idle
        <4> QED BY <1>7, <3>1, <4>1, Waiting
      <3>3. CASE request[s].pc # "idle"
        <4>1. request[s].invite \in Invite /\ request[s].person \in Person
          BY <3>1, <3>3, Arrived
        <4>2. "invite" \in r.wrote /\ ("user" \in r.wrote <=> r.kind = "signup")
          BY <1>2, Arrived
        <4>3. "invite" \in request[s].wrote => invite'[request[s].invite].by = None
          <5>1. ASSUME "invite" \in request[s].wrote
                PROVE  request[s].invite # r.invite /\ invite[request[s].invite].by = None
            BY <2>2, <3>1, <3>3, <4>2, <5>1 DEF IndInv, Exclusive, Good, Placed, Open
          <5> QED BY <1>4, <4>1, <5>1
        <4>4. "user" \in request[s].wrote => user'[request[s].person] = None
          <5>1. ASSUME "user" \in request[s].wrote
                PROVE  (r.kind = "signup" => request[s].person # r.person) /\ user[request[s].person] = None
            BY <2>2, <3>1, <3>3, <4>2, <5>1 DEF IndInv, Exclusive, Good, Placed
          <5> QED BY <1>5, <4>1, <5>1
        <4> QED BY <1>7, <3>1, <4>3, <4>4, Waiting
      <3> QED BY <3>2, <3>3
    <2> QED BY <2>1, <2>2
  <1>14. After(w) /\ ~After(r)
    BY DEF After
  <1>15. Traced'
    <2>1. ASSUME NEW p \in Person, user'[p] \in Request
          PROVE  request'[user'[p]].person = p /\ request'[user'[p]].kind = "signup" /\ After(request'[user'[p]])
      <3>1. CASE r.kind = "signup" /\ p = r.person
        BY <1>5, <1>6, <1>14, <3>1
      <3>2. CASE ~(r.kind = "signup" /\ p = r.person)
        <4>1. user'[p] = user[p]
          BY <1>5, <3>2
        <4>2. request[user[p]].person = p /\ request[user[p]].kind = "signup" /\ After(request[user[p]])
          BY <2>1, <4>1 DEF IndInv, Traced
        <4> QED BY <1>6, <1>14, <2>1, <4>1, <4>2
      <3> QED BY <3>1, <3>2
    <2>2. ASSUME NEW i \in Invite, invite'[i].by \in Request
          PROVE  request'[invite'[i].by].invite = i /\ After(request'[invite'[i].by])
      <3>1. CASE i = r.invite
        BY <1>6, <1>9, <1>14, <3>1
      <3>2. CASE i # r.invite
        <4>1. invite'[i].by = invite[i].by
          BY <1>4, <3>2
        <4>2. request[invite[i].by].invite = i /\ After(request[invite[i].by])
          BY <2>2, <4>1 DEF IndInv, Traced
        <4> QED BY <1>6, <1>14, <2>2, <4>1, <4>2
      <3> QED BY <3>1, <3>2
    <2> QED BY <2>1, <2>2 DEF Traced, After
  <1>16. Exclusive'
    <2>1. ASSUME NEW s \in Request, NEW t \in Request, s # t
          PROVE  /\ "invite" \in request'[s].wrote \cap request'[t].wrote => request'[s].invite # request'[t].invite
                 /\ "user" \in request'[s].wrote \cap request'[t].wrote => request'[s].person # request'[t].person
      BY <1>6, <2>1 DEF IndInv, Exclusive
    <2> QED BY <2>1 DEF Exclusive
  <1> QED BY <1>8, <1>13, <1>15, <1>16 DEF IndInv

LEMMA CommitInv ==
    ASSUME IndInv, NEW q \in Request, Commit(q) \/ CommitUnheard(q)
    PROVE  IndInv'
PROOF
  <1> DEFINE r == request[q]
             done(a) == [r EXCEPT !.pc = "done", !.answer = a, !.wrote = {}]
             session == [r EXCEPT !.pc = "session", !.wrote = {}]
  <1>1. r \in RequestType /\ r.pc = "commit" /\ Shaped(r) /\ Land(q)
    BY DEF IndInv, RowsOK, Commit, CommitUnheard
  <1>2. r.answer = None
    BY <1>1, Arrived
  <1>3. \/ r.kind = "signup" /\ request' = [request EXCEPT ![q].pc = "session", ![q].wrote = {}]
        \/ Finish(q, "joined")
        \/ Finish(q, "error")
    BY DEF Commit, CommitUnheard
  <1>4. \A a \in {"joined", "error"} :
           /\ done(a) \in RequestType /\ done(a).pc = "done" /\ done(a).answer = a /\ done(a).wrote = {}
           /\ done(a).kind = r.kind /\ done(a).person = r.person /\ done(a).invite = r.invite
           /\ done(a).late = r.late
    BY <1>1 DEF RequestType
  <1>5. /\ session \in RequestType /\ session.pc = "session" /\ session.answer = r.answer /\ session.wrote = {}
        /\ session.kind = r.kind /\ session.person = r.person /\ session.invite = r.invite
        /\ session.late = r.late
    BY <1>1 DEF RequestType
  <1>6. ASSUME NEW a \in {"joined", "error"}, Finish(q, a)
        PROVE  IndInv'
    <2>1. request' = [request EXCEPT ![q] = done(a)]
      BY <1>6 DEF Finish, IndInv, RowsOK
    <2> HIDE DEF done
    <2> QED BY <1>1, <1>4, <2>1, LandInv
  <1>7. ASSUME r.kind = "signup", request' = [request EXCEPT ![q].pc = "session", ![q].wrote = {}]
        PROVE  IndInv'
    <2>1. request' = [request EXCEPT ![q] = session]
      BY <1>7 DEF IndInv, RowsOK
    <2> HIDE DEF session
    <2> QED BY <1>1, <1>2, <1>5, <1>7, <2>1, LandInv, ZenonT(60)
  <1> QED BY <1>3, <1>6, <1>7
-----------------------------------------------------------------------------
LEMMA InitInv == Init => IndInv
PROOF
  <1> SUFFICES ASSUME Init
               PROVE  IndInv
    OBVIOUS
  <1>1. Idle \in RequestType /\ Idle.pc = "idle" /\ Idle.answer = None /\ Idle.wrote = {} /\ Idle.kind = None
    BY DEF Idle, RequestType
  <1>2. RowsOK
    <2>1. user \in [Person -> Request \cup {Operator, None}] /\ member \subseteq Person \X (Team \cup Person)
      BY InviteAssumption DEF Init
    <2>2. [team |-> None, by |-> None, expired |-> FALSE, known |-> FALSE] \in InviteType
      BY DEF InviteType
    <2>3. invite \in [Invite -> InviteType] /\ \A i \in Invite : ~invite[i].known
      BY <2>2 DEF Init
    <2>4. request \in [Request -> RequestType]
      BY <1>1 DEF Init
    <2> QED BY <2>1, <2>3, <2>4 DEF RowsOK
  <1>3. \A q \in Request : request[q] = Idle
    BY DEF Init
  <1>4. Shaped(Idle)
    BY <1>1 DEF Shaped, Written
  <1>5. \A q \in Request : Good(q, Idle)
    BY <1>1, NoneApart DEF Good
  <1>6. Traced
    <2>1. \A p \in Person : user[p] \notin Request
      BY NoneApart DEF Init
    <2>2. \A i \in Invite : invite[i].by = None
      BY DEF Init
    <2> QED BY <2>1, <2>2, NoneApart DEF Traced
  <1>7. Exclusive
    BY <1>1, <1>3 DEF Exclusive
  <1> QED BY <1>2, <1>3, <1>4, <1>5, <1>6, <1>7 DEF IndInv

\* Every step keeps the invariant.
LEMMA NextInv == IndInv /\ [Next]_vars => IndInv'
PROOF
  <1> SUFFICES ASSUME IndInv, [Next]_vars
               PROVE  IndInv'
    OBVIOUS
  <1>1. CASE UNCHANGED vars
    <2>1. UNCHANGED <<user, member, invite, request>>
      BY <1>1 DEF vars
    <2> QED BY <2>1 DEF IndInv, RowsOK, Shaped, Written, Good, Placed, Barred, Through, Open, Traced, After, Exclusive
  <1>2. ASSUME NEW u \in Person, NEW i \in Invite, NEW t \in Team, Issue(u, i, t)
        PROVE  IndInv'
    BY <1>2, IssueInv
  <1>3. ASSUME NEW i \in Invite, Expire(i)
        PROVE  IndInv'
    BY <1>3, ExpireInv
  <1>4. ASSUME NEW q \in Request, NEW kind \in {"signup", "join", "login"}, NEW p \in Person, NEW i \in Invite,
               Arrive(q, kind, p, i)
        PROVE  IndInv'
    BY <1>4, ArriveInv
  <1>5. ASSUME NEW q \in Request, Proceed(q)
        PROVE  IndInv'
    BY <1>5, CreateSessionInv, BeginInv, CreateUserInv, RereadInv, ConsumeInv, AddMemberInv, CommitInv DEF Proceed
  <1>6. ASSUME NEW q \in Request, CommitUnheard(q) \/ Fail(q)
        PROVE  IndInv'
    BY <1>6, CommitInv, FailInv
  <1> QED BY <1>1, <1>2, <1>3, <1>4, <1>5, <1>6 DEF Next

LEMMA SpecInv == Spec => []IndInv
PROOF
  <1> QED BY InitInv, NextInv, PTL DEF Spec

\* People, memberships, invites and requests keep their types, and what a
\* transaction has written is where its handler is.
THEOREM TypeCorrect == Spec => []TypeOK
PROOF
  <1>1. IndInv => TypeOK
    BY DEF IndInv, RowsOK, Shaped, Target, TypeOK
  <1> QED BY SpecInv, <1>1, PTL

\* For any number of racing requests, expiries and failures, an answer to an
\* invite is true when it is given and ever after.
THEOREM AnswersStayTrue == Spec => []AnswersTrue
PROOF
  <1>1. IndInv => AnswersTrue
    <2> SUFFICES ASSUME IndInv, NEW q \in Request
                 PROVE  LET r == request[q]
                            changed == (\E p \in Person : user[p] = q) \/ (\E i \in Invite : invite[i].by = q)
                        IN
                        /\ r.answer = "joined" =>
                              /\ invite[r.invite].by = q /\ ~r.late
                              /\ user[r.person] # None /\ <<r.person, Target(q)>> \in member
                              /\ r.kind = "signup" => user[r.person] = q /\ <<r.person, r.person>> \in member
                        /\ r.answer \in {"invalid", "taken"} => ~changed
                        /\ r.answer = "taken" => user[r.person] # None
      BY DEF AnswersTrue
    <2> DEFINE r == request[q]
    <2>1. Shaped(r) /\ Good(q, r)
      BY DEF IndInv
    <2>2. r.answer \in {"invalid", "taken"} => ~After(r)
      BY <2>1, NoneApart DEF Shaped, After
    <2>3. (\E p \in Person : user[p] = q) \/ (\E i \in Invite : invite[i].by = q) => After(r)
      BY DEF IndInv, Traced
    <2> QED BY <2>1, <2>2, <2>3 DEF Good, Through, Target
  <1> QED BY SpecInv, <1>1, PTL
-----------------------------------------------------------------------------
(* InviteContract *)

Accounts == {p \in Person : user[p] # None}
Leads == [i \in Invite |-> invite[i].team]
Taken == [i \in Invite |-> IF invite[i].by = None THEN None ELSE request[invite[i].by].person]

\* The contract's view of the state.
LEMMA ContractView ==
    /\ Contract!Next <=>
          \/ \E u \in Person, i \in Invite, t \in Team :
                /\ <<u, t>> \in member /\ Leads[i] = None /\ Leads' = [Leads EXCEPT ![i] = t]
                /\ UNCHANGED <<Accounts, member, Taken>>
          \/ \E p \in Person, i \in Invite :
                /\ Leads[i] # None /\ Taken[i] = None /\ Taken' = [Taken EXCEPT ![i] = p] /\ UNCHANGED Leads
                /\ \/ p \in Accounts /\ member' = member \cup {<<p, Leads[i]>>} /\ UNCHANGED Accounts
                   \/ /\ p \notin Accounts
                      /\ Accounts' = Accounts \cup {p}
                      /\ member' = member \cup {<<p, p>>, <<p, Leads[i]>>}
    /\ UNCHANGED Contract!cvars <=> UNCHANGED <<Accounts, member, Leads, Taken>>
PROOF
  <1>1. UNCHANGED Contract!cvars <=> UNCHANGED <<Accounts, member, Leads, Taken>>
    BY DEF Contract!cvars, Accounts, Leads, Taken
  <1>2. Contract!Next <=>
          \/ \E u \in Person, i \in Invite, t \in Team :
                /\ <<u, t>> \in member /\ Leads[i] = None /\ Leads' = [Leads EXCEPT ![i] = t]
                /\ UNCHANGED <<Accounts, member, Taken>>
          \/ \E p \in Person, i \in Invite :
                /\ Leads[i] # None /\ Taken[i] = None /\ Taken' = [Taken EXCEPT ![i] = p] /\ UNCHANGED Leads
                /\ \/ p \in Accounts /\ member' = member \cup {<<p, Leads[i]>>} /\ UNCHANGED Accounts
                   \/ /\ p \notin Accounts
                      /\ Accounts' = Accounts \cup {p}
                      /\ member' = member \cup {<<p, p>>, <<p, Leads[i]>>}
    BY DEF Contract!Next, Contract!Issue, Contract!Claim, Contract!Enroll, Contract!Use, Accounts, Leads, Taken
  <1> QED BY <1>1, <1>2

\* Whoever used an invite stays the one: only the steps of requests that are
\* not committed change a person.
LEMMA TakenStays ==
    ASSUME IndInv, \A i \in Invite : invite'[i].by = invite[i].by,
           \A q \in Request : After(request[q]) => request'[q].person = request[q].person
    PROVE  Taken' = Taken
PROOF
  <1>1. ASSUME NEW i \in Invite
        PROVE  (IF invite'[i].by = None THEN None ELSE request'[invite'[i].by].person)
                  = (IF invite[i].by = None THEN None ELSE request[invite[i].by].person)
    <2>1. CASE invite[i].by = None
      BY <2>1
    <2>2. CASE invite[i].by # None
      <3>1. invite[i].by \in Request
        BY <2>2 DEF IndInv, RowsOK, InviteType
      <3>2. After(request[invite[i].by])
        BY <3>1 DEF IndInv, Traced
      <3> QED BY <2>2, <3>1, <3>2
    <2> QED BY <2>1, <2>2
  <1> QED BY <1>1 DEF Taken

\* A step that writes no row is none of the contract's.
LEMMA QuietStep ==
    ASSUME IndInv, UNCHANGED <<user, member, invite>>,
           \A q \in Request : After(request[q]) => request'[q].person = request[q].person
    PROVE  UNCHANGED Contract!cvars
PROOF
  <1>1. Taken' = Taken
    BY TakenStays
  <1>2. UNCHANGED <<Accounts, member, Leads>>
    BY DEF Accounts, Leads
  <1> QED BY <1>1, <1>2, ContractView

\* One request moves and keeps its person.
LEMMA QuietRequest ==
    ASSUME IndInv, NEW q \in Request, CreateSession(q) \/ Begin(q) \/ CreateUser(q) \/ Reread(q) \/ Consume(q) \/ AddMember(q) \/ Fail(q)
    PROVE  UNCHANGED Contract!cvars
PROOF
  <1>1. request[q] \in RequestType /\ request \in [Request -> RequestType] /\ UNCHANGED <<user, member, invite>>
    BY DEF IndInv, RowsOK, CreateSession, Begin, CreateUser, Reread, Consume, AddMember, Fail
  <1>2. \/ \E l \in {"begin", "reread"} : Goto(q, l)
        \/ \E a \in {"joined", "invalid", "taken", "error"} : Finish(q, a)
        \/ \E row \in {"user", "invite", "member"}, l \in {"invite", "member", "commit"} : Write(q, row, l)
        \/ \E l \in {"user", "invite"}, f \in BOOLEAN : request' = [request EXCEPT ![q].pc = l, ![q].fresh = f]
    BY DEF CreateSession, Begin, CreateUser, Reread, Consume, AddMember, Fail
  <1>3. \A s \in Request : request'[s].person = request[s].person
    <2>1. ASSUME NEW l, Goto(q, l)
          PROVE  \A s \in Request : request'[s].person = request[s].person
      BY <1>1, <2>1 DEF Goto, RequestType
    <2>2. ASSUME NEW a, Finish(q, a)
          PROVE  \A s \in Request : request'[s].person = request[s].person
      BY <1>1, <2>2 DEF Finish, RequestType
    <2>3. ASSUME NEW row, NEW l, Write(q, row, l)
          PROVE  \A s \in Request : request'[s].person = request[s].person
      BY <1>1, <2>3 DEF Write, RequestType
    <2>4. ASSUME NEW l, NEW f, request' = [request EXCEPT ![q].pc = l, ![q].fresh = f]
          PROVE  \A s \in Request : request'[s].person = request[s].person
      BY <1>1, <2>4 DEF RequestType
    <2> QED BY <1>2, <2>1, <2>2, <2>3, <2>4
  <1> QED BY <1>1, <1>3, QuietStep

\* A request that arrives has used nothing yet.
LEMMA QuietArrive ==
    ASSUME IndInv, NEW q \in Request, NEW kind \in {"signup", "join", "login"}, NEW p \in Person, NEW i \in Invite,
           Arrive(q, kind, p, i)
    PROVE  UNCHANGED Contract!cvars
PROOF
  <1>1. ~After(request[q]) /\ UNCHANGED <<user, member, invite>>
    BY DEF Arrive, After
  <1>2. \A s \in Request : s # q => request'[s] = request[s]
    BY DEF Arrive, IndInv, RowsOK
  <1> QED BY <1>1, <1>2, QuietStep

LEMMA QuietExpire ==
    ASSUME IndInv, NEW i \in Invite, Expire(i)
    PROVE  UNCHANGED Contract!cvars
PROOF
  <1>1. \A j \in Invite : invite'[j].by = invite[j].by /\ invite'[j].team = invite[j].team
    BY DEF Expire, IndInv, RowsOK, InviteType
  <1>2. UNCHANGED <<user, member, request>>
    BY DEF Expire
  <1>3. Taken' = Taken
    BY <1>1, <1>2, TakenStays
  <1>4. UNCHANGED <<Accounts, member, Leads>>
    BY <1>1, <1>2 DEF Accounts, Leads
  <1> QED BY <1>3, <1>4, ContractView

LEMMA IssueContract ==
    ASSUME IndInv, NEW u \in Person, NEW i \in Invite, NEW t \in Team, Issue(u, i, t)
    PROVE  Contract!Next
PROOF
  <1>1. PICK known \in BOOLEAN : invite' = [invite EXCEPT ![i].team = t, ![i].known = known]
    BY DEF Issue
  <1>2. <<u, t>> \in member /\ invite[i].team = None /\ UNCHANGED <<user, member, request>>
    BY DEF Issue
  <1>3. \A j \in Invite : invite'[j].by = invite[j].by /\ invite'[j].team = (IF j = i THEN t ELSE invite[j].team)
    BY <1>1 DEF IndInv, RowsOK, InviteType
  <1>4. Taken' = Taken
    BY <1>2, <1>3, TakenStays
  <1>5. Leads[i] = None /\ Leads' = [Leads EXCEPT ![i] = t]
    BY <1>2, <1>3 DEF Leads
  <1>6. UNCHANGED <<Accounts, member>>
    BY <1>2 DEF Accounts
  <1> QED BY <1>2, <1>4, <1>5, <1>6, ContractView

\* The commit uses the invite up and makes the member, in one step, and a
\* stranger's account and team with it.
LEMMA LandContract ==
    ASSUME IndInv, NEW q \in Request, Commit(q) \/ CommitUnheard(q)
    PROVE  Contract!Next
PROOF
  <1> DEFINE r == request[q]
             i == r.invite
             p == r.person
  <1>1. request[q].pc = "commit" /\ Land(q)
    BY DEF Commit, CommitUnheard
  <1>2. /\ p \in Person /\ i \in Invite /\ Open(i) /\ r.kind \in {"signup", "join", "login"}
        /\ user' = IF r.kind = "signup" THEN [user EXCEPT ![p] = q] ELSE user
        /\ r.kind = "signup" <=> user[p] = None
        /\ member' = member \cup (IF r.kind = "signup" THEN {<<p, p>>} ELSE {}) \cup {<<p, invite[i].team>>}
        /\ invite' = [invite EXCEPT ![i].by = q]
    BY <1>1, LandRows
  <1>3. r \in RequestType /\ request \in [Request -> RequestType]
    BY DEF IndInv, RowsOK
  <1>4. \A s \in Request : request'[s].person = request[s].person
    <2>1. CASE request' = [request EXCEPT ![q].pc = "session", ![q].wrote = {}]
      BY <1>3, <2>1 DEF RequestType
    <2>2. ASSUME NEW a, Finish(q, a)
          PROVE  \A s \in Request : request'[s].person = request[s].person
      BY <1>3, <2>2 DEF Finish, RequestType
    <2> QED BY <2>1, <2>2 DEF Commit, CommitUnheard
  <1>5. /\ \A j \in Invite : invite'[j].team = invite[j].team
        /\ \A j \in Invite : invite'[j].by = (IF j = i THEN q ELSE invite[j].by)
    <2>1. \A j \in Invite : invite[j] \in InviteType
      BY DEF IndInv, RowsOK
    <2> QED BY <1>2, <2>1 DEF InviteType, IndInv, RowsOK
  <1>6. Leads[i] # None /\ Taken[i] = None /\ Leads[i] = invite[i].team
    BY <1>2 DEF Leads, Taken, Open
  <1>7. Leads' = Leads
    BY <1>5 DEF Leads
  <1>8. Taken' = [Taken EXCEPT ![i] = p]
    <2>1. ASSUME NEW j \in Invite
          PROVE  (IF invite'[j].by = None THEN None ELSE request'[invite'[j].by].person)
                    = (IF j = i THEN p ELSE IF invite[j].by = None THEN None ELSE request[invite[j].by].person)
      <3>1. CASE j = i
        BY <1>4, <1>5, <3>1, NoneApart
      <3>2. CASE j # i
        <4>1. invite[j].by \in Request \cup {None}
          BY DEF IndInv, RowsOK, InviteType
        <4> QED BY <1>4, <1>5, <3>2, <4>1
      <3> QED BY <3>1, <3>2
    <2> HIDE DEF i, p
    <2> QED BY <1>2, <2>1 DEF Taken
  <1>9. CASE r.kind = "signup"
    <2>1. p \notin Accounts
      BY <1>2, <1>9 DEF Accounts
    <2>2. Accounts' = Accounts \cup {p}
      <3>1. \A x \in Person : user'[x] = (IF x = p THEN q ELSE user[x])
        BY <1>2, <1>9 DEF IndInv, RowsOK
      <3> QED BY <1>2, <3>1, NoneApart DEF Accounts
    <2>3. member' = member \cup {<<p, p>>, <<p, Leads[i]>>}
      BY <1>2, <1>6, <1>9
    <2> HIDE DEF i, p
    <2> QED BY <1>2, <1>6, <1>7, <1>8, <2>1, <2>2, <2>3, ContractView
  <1>10. CASE r.kind # "signup"
    <2>1. p \in Accounts /\ UNCHANGED Accounts
      BY <1>2, <1>10 DEF Accounts
    <2>2. member' = member \cup {<<p, Leads[i]>>}
      BY <1>2, <1>6, <1>10
    <2> HIDE DEF i, p
    <2> QED BY <1>2, <1>6, <1>7, <1>8, <2>1, <2>2, ContractView
  <1> QED BY <1>9, <1>10

LEMMA NextContract == IndInv /\ [Next]_vars => [Contract!Next]_Contract!cvars
PROOF
  <1> SUFFICES ASSUME IndInv, [Next]_vars
               PROVE  Contract!Next \/ UNCHANGED Contract!cvars
    OBVIOUS
  <1>1. CASE UNCHANGED vars
    BY <1>1, QuietStep DEF vars
  <1>2. ASSUME NEW u \in Person, NEW i \in Invite, NEW t \in Team, Issue(u, i, t)
        PROVE  Contract!Next
    BY <1>2, IssueContract
  <1>3. ASSUME NEW i \in Invite, Expire(i)
        PROVE  UNCHANGED Contract!cvars
    BY <1>3, QuietExpire
  <1>4. ASSUME NEW q \in Request, NEW kind \in {"signup", "join", "login"}, NEW p \in Person, NEW i \in Invite,
               Arrive(q, kind, p, i)
        PROVE  UNCHANGED Contract!cvars
    BY <1>4, QuietArrive
  <1>5. ASSUME NEW q \in Request, Proceed(q) \/ CommitUnheard(q) \/ Fail(q)
        PROVE  Contract!Next \/ UNCHANGED Contract!cvars
    BY <1>5, QuietRequest, LandContract DEF Proceed
  <1> QED BY <1>1, <1>2, <1>3, <1>4, <1>5 DEF Next

LEMMA InitContract == Init => Contract!Init
PROOF
  <1> SUFFICES ASSUME Init
               PROVE  Contract!Init
    OBVIOUS
  <1>1. {p \in Person : user[p] # None} = {f[1] : f \in Founder}
    <2>1. \A p \in Person : user[p] # None <=> \E t \in Team : <<p, t>> \in Founder
      BY NoneApart DEF Init
    <2>2. \A p \in Person : (\E t \in Team : <<p, t>> \in Founder) => \E f \in Founder : p = f[1]
      OBVIOUS
    <2>3. \A f \in Founder : f[1] \in Person /\ f[2] \in Team /\ f = <<f[1], f[2]>>
      BY InviteAssumption
    <2> QED BY <2>1, <2>2, <2>3
  <1>2. member = Founder
    BY DEF Init
  <1>3. [i \in Invite |-> invite[i].team] = [i \in Invite |-> None]
    BY DEF Init
  <1>4. [i \in Invite |-> IF invite[i].by = None THEN None ELSE request[invite[i].by].person] = [i \in Invite |-> None]
    BY DEF Init
  <1> QED BY <1>1, <1>2, <1>3, <1>4 DEF Contract!Init

\* However the statements of racing transactions interleave, what the outside
\* sees is an invite that makes one person a member, once and whole.
THEOREM ContractImplemented == Spec => ImplementsInviteContract
PROOF
  <1> QED BY SpecInv, InitContract, NextContract, PTL DEF Spec, ImplementsInviteContract, Contract!Spec
=============================================================================
