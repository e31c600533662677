-------------------------- MODULE OAuthFlowProofs --------------------------
(***************************************************************************)
(* Proofs about OAuthFlow, for any clients, codes, requesters and number   *)
(* of failures: the state keeps its types, a code yields at most one       *)
(* access token, a token is bound to the approval behind its code, only a  *)
(* failure burns a code, and AuthorizationGrant is implemented.            *)
(*                                                                         *)
(* One requester at a time can be between Mark and Issue for a code, and   *)
(* none once the code has a token: the used flag, which only Mark sets and *)
(* nothing resets, is what they follow from.                               *)
(***************************************************************************)
EXTENDS OAuthFlow, FiniteSetTheorems, TLAPS

\* A requester past its lookup showed what its code is bound to.
Verified ==
    \A x \in Exchange :
        exchange[x].at \in {"verified", "marked"} =>
            /\ exchange[x].shown = code[exchange[x].code].binding
            /\ code[exchange[x].code].state \in {"stored", "deleted"}

\* A code being exchanged for a token is marked used, by one requester.
MarkedUsed ==
    \A x \in Exchange : exchange[x].at = "marked" => code[exchange[x].code].used
MarkedAlone ==
    \A x, y \in Exchange :
        exchange[x].at = "marked" /\ exchange[y].at = "marked" /\ exchange[x].code = exchange[y].code
            => x = y

\* A code with a token is used, and nobody is exchanging it.
TokensFinal ==
    \A t \in tokens :
        /\ code[t.code].used
        /\ code[t.code].state \in {"stored", "deleted"}
        /\ \A x \in Exchange : exchange[x].at = "marked" => exchange[x].code # t.code

IndInv ==
    /\ TypeOK
    /\ Verified
    /\ MarkedUsed
    /\ MarkedAlone
    /\ TokensFinal
    /\ OneTokenPerCode
    /\ BoundToApproval
-----------------------------------------------------------------------------
\* There is nothing to verify, mark or hold a token at the start.
LEMMA InitInv == Init => IndInv
  BY OAuthAssumption DEF Init, IndInv, TypeOK, Verified, MarkedUsed, MarkedAlone, TokensFinal,
        RedirectRegistered, OneTokenPerCode, BoundToApproval, CodeType, ExchangeType, TokenType, Blank, Fresh

\* A decision fills in a form, and nobody refers to a form's code yet.
LEMMA FilledInv ==
    ASSUME IndInv, NEW c \in Code, NEW s, NEW b \in Binding, NEW g,
           (s = "denied" /\ g = None) \/ (s = "checked" /\ g \in Grantee),
           code[c].state = "form", Valid(b), code' = [code EXCEPT ![c] = Filled(s, b, g)],
           UNCHANGED <<registered, exchange, tokens, sweep, faults>>
    PROVE  IndInv'
PROOF
  <1> USE OAuthAssumption, NoneAssumption
  <1>1. b \in Binding /\ b.redirect \in registered[b.client] /\ b.redirect \in Allowed
    BY DEF IndInv, TypeOK, Valid, Binding
  <1>2. UNCHANGED <<registered, exchange, tokens, sweep, faults>>
    OBVIOUS
  <1>3. code \in [Code -> CodeType] /\ exchange \in [Exchange -> ExchangeType] /\ tokens \subseteq TokenType
    BY DEF IndInv, TypeOK
  <1>4. code' \in [Code -> CodeType]
    BY <1>1, <1>3 DEF CodeType, Filled
  <1>5. \A d \in Code : d # c => code'[d] = code[d]
    BY <1>1, <1>3
  <1>6. /\ code'[c].state = s /\ code'[c].binding = b /\ code'[c].grantee = g
        /\ ~code'[c].used /\ ~code'[c].expired /\ ~code'[c].sent
    BY <1>1, <1>3 DEF Filled
  <1>7. TypeOK'
    BY <1>2, <1>4, <1>5, <1>6 DEF IndInv, TypeOK, Binding
  <1>8. \A x \in Exchange : exchange[x].at \in {"verified", "marked"} =>
           exchange[x].code \in Code /\ exchange[x].code # c
    BY <1>2, <1>3 DEF IndInv, TypeOK, Verified, ExchangeType
  <1>9. \A t \in tokens : t.code \in Code /\ t.code # c
    BY <1>2, <1>3 DEF IndInv, TokensFinal, TokenType
  <1>10. Verified' /\ MarkedUsed' /\ MarkedAlone'
    BY <1>2, <1>5, <1>8 DEF IndInv, Verified, MarkedUsed, MarkedAlone
  <1>11. RedirectRegistered'
    BY <1>1, <1>2, <1>5, <1>6 DEF IndInv, BoundToApproval, RedirectRegistered
  <1>12. TokensFinal' /\ OneTokenPerCode' /\ BoundToApproval'
    BY <1>2, <1>5, <1>9, <1>11 DEF IndInv, TokensFinal, OneTokenPerCode, BoundToApproval
  <1> QED BY <1>7, <1>10, <1>11, <1>12 DEF IndInv

\* A client gets redirect URIs once, before any approval could name it.
LEMMA RegisterInv ==
    ASSUME IndInv, NEW cl \in Client, NEW uris \in SUBSET Redirect, Register(cl, uris)
    PROVE  IndInv'
PROOF
  <1>1. /\ registered \in [Client -> SUBSET Allowed] /\ code \in [Code -> CodeType]
        /\ registered[cl] = {} /\ uris \subseteq Allowed
        /\ registered' = [registered EXCEPT ![cl] = uris]
        /\ UNCHANGED <<code, exchange, tokens, sweep, faults>>
    BY DEF IndInv, TypeOK, Register, Acceptable
  <1>2. registered' \in [Client -> SUBSET Allowed] /\ \A d \in Client : registered[d] \subseteq registered'[d]
    BY <1>1
  <1>3. TypeOK'
    BY <1>1, <1>2 DEF IndInv, TypeOK
  <1>4. \A c \in Code : code[c].state # "form" => code[c].binding.client \in Client
    BY <1>1 DEF IndInv, TypeOK, CodeType, Binding
  <1>5. RedirectRegistered'
    BY <1>1, <1>2, <1>4 DEF IndInv, BoundToApproval, RedirectRegistered
  <1>6. OneTokenPerCode' /\ BoundToApproval'
    BY <1>1, <1>5 DEF IndInv, OneTokenPerCode, BoundToApproval
  <1>7. Verified' /\ MarkedUsed' /\ MarkedAlone' /\ TokensFinal'
    BY <1>1 DEF IndInv, Verified, MarkedUsed, MarkedAlone, TokensFinal
  <1> QED BY <1>3, <1>6, <1>7 DEF IndInv
-----------------------------------------------------------------------------
\* Steps that change of a row only whether it is there, sent, expired or used,
\* keep what the invariant says of approvals and tokens.
Monotone ==
    \A c \in Code :
        /\ code'[c].binding = code[c].binding
        /\ code'[c].grantee = code[c].grantee
        /\ code[c].used => code'[c].used
        /\ code[c].state \in {"stored", "deleted"} => code'[c].state \in {"stored", "deleted"}
        /\ code'[c].state # "form" => code[c].state # "form"

\* A step that changes rows monotonely and leaves requesters and tokens alone.
LEMMA MonotoneInv ==
    ASSUME IndInv, Monotone, UNCHANGED <<registered, exchange, tokens>>, TypeOK'
    PROVE  IndInv'
PROOF
  <1>1. exchange \in [Exchange -> ExchangeType] /\ tokens \subseteq TokenType
    BY DEF IndInv, TypeOK
  <1>2. \A x \in Exchange : exchange[x].at \in {"verified", "marked"} => exchange[x].code \in Code
    BY <1>1, NoneAssumption DEF IndInv, TypeOK, ExchangeType
  <1>3. \A t \in tokens : t.code \in Code
    BY <1>1 DEF TokenType
  <1>4. Verified' /\ MarkedUsed' /\ MarkedAlone'
    BY <1>2 DEF IndInv, Monotone, Verified, MarkedUsed, MarkedAlone
  <1>5. RedirectRegistered'
    BY DEF IndInv, Monotone, BoundToApproval, RedirectRegistered
  <1>6. TokensFinal' /\ OneTokenPerCode' /\ BoundToApproval'
    BY <1>3, <1>5 DEF IndInv, Monotone, TokensFinal, OneTokenPerCode, BoundToApproval
  <1> QED BY <1>4, <1>5, <1>6 DEF IndInv

\* IssueCode stores the row, or fails and may have stored it.
LEMMA StoreCodeInv ==
    ASSUME IndInv, NEW c \in Code, StoreCode(c)
    PROVE  IndInv'
PROOF
  <1>1. code \in [Code -> CodeType] /\ code[c].state = "checked" /\ faults \in Nat
    BY OAuthAssumption DEF IndInv, TypeOK, StoreCode
  <1>2. UNCHANGED <<registered, exchange, tokens, sweep>>
    BY DEF StoreCode
  <1>3. PICK s \in {"stored", "failed"}, d \in BOOLEAN :
           /\ code' = [code EXCEPT ![c].state = s, ![c].sent = d]
           /\ d => s = "stored"
    <2>1. CASE code' = [code EXCEPT ![c].state = "stored", ![c].sent = TRUE]
      BY <2>1
    <2>2. CASE \E s \in {"stored", "failed"} : code' = [code EXCEPT ![c].state = s]
      <3>1. code[c].sent = FALSE
        BY <1>1 DEF IndInv, TypeOK, CodeType
      <3>2. PICK s \in {"stored", "failed"} : code' = [code EXCEPT ![c].state = s]
        BY <2>2
      <3>3. [code EXCEPT ![c].state = s] = [code EXCEPT ![c].state = s, ![c].sent = FALSE]
        BY <1>1, <3>1 DEF CodeType
      <3> QED BY <3>2, <3>3
    <2> QED BY <2>1, <2>2 DEF StoreCode
  <1>4. code' \in [Code -> CodeType]
    BY <1>1, <1>3, ZenonT(60) DEF CodeType
  <1>5. \A e \in Code : e # c => code'[e] = code[e]
    BY <1>1, <1>3
  <1>6. /\ code'[c].state = s /\ code'[c].sent = d /\ code'[c].binding = code[c].binding
        /\ code'[c].grantee = code[c].grantee /\ code'[c].used = code[c].used
        /\ code'[c].expired = code[c].expired
    BY <1>1, <1>3 DEF CodeType
  <1>7. faults' \in 0..MaxFaults
    BY <1>1, OAuthAssumption DEF IndInv, TypeOK, StoreCode, Fault
  <1>8. TypeOK'
    BY <1>1, <1>2, <1>3, <1>4, <1>5, <1>6, <1>7 DEF IndInv, TypeOK
  <1>9. Monotone
    BY <1>1, <1>5, <1>6 DEF Monotone
  <1> QED BY <1>2, <1>8, <1>9, MonotoneInv

\* A stored code expires.
LEMMA ExpireCodeInv ==
    ASSUME IndInv, NEW c \in Code, ExpireCode(c)
    PROVE  IndInv'
PROOF
  <1>1. /\ code \in [Code -> CodeType] /\ code[c].state = "stored"
        /\ code' = [code EXCEPT ![c].expired = TRUE]
        /\ UNCHANGED <<registered, exchange, tokens, sweep, faults>>
    BY DEF IndInv, TypeOK, ExpireCode
  <1>2. code' \in [Code -> CodeType]
    BY <1>1 DEF CodeType
  <1>3. /\ \A e \in Code : e # c => code'[e] = code[e]
        /\ code'[c].state = code[c].state /\ code'[c].binding = code[c].binding
        /\ code'[c].grantee = code[c].grantee /\ code'[c].used = code[c].used
        /\ code'[c].expired /\ code'[c].sent = code[c].sent
    BY <1>1 DEF CodeType
  <1>4. TypeOK'
    BY <1>1, <1>2, <1>3 DEF IndInv, TypeOK
  <1>5. Monotone
    BY <1>3 DEF Monotone
  <1> QED BY <1>1, <1>4, <1>5, MonotoneInv

\* The sweep deletes the codes that expired, and no others.
LEMMA SweepCodesInv ==
    ASSUME IndInv, SweepCodes
    PROVE  IndInv'
PROOF
  <1>1. /\ code \in [Code -> CodeType] /\ faults \in 0..MaxFaults
        /\ UNCHANGED <<registered, exchange, tokens>> /\ sweep' \in {"idle", "codes", "tokens"}
    BY DEF IndInv, TypeOK, SweepCodes
  <1>2. faults' \in 0..MaxFaults
    BY <1>1, OAuthAssumption DEF SweepCodes, Fault
  <1>3. \A c \in Code :
           \/ code'[c] = code[c]
           \/ /\ code[c].state = "stored" /\ code[c].expired
              /\ code'[c] = [code[c] EXCEPT !.state = "deleted"]
    BY DEF SweepCodes
  <1>4. \A c \in Code :
           /\ code'[c] \in CodeType
           /\ code'[c].binding = code[c].binding /\ code'[c].grantee = code[c].grantee
           /\ code'[c].used = code[c].used /\ code'[c].expired = code[c].expired
           /\ code'[c].sent = code[c].sent
           /\ code'[c].state = code[c].state
              \/ (code[c].state = "stored" /\ code'[c].state = "deleted" /\ code[c].expired)
    <2> TAKE c \in Code
    <2>1. CASE code'[c] = code[c]
      BY <1>1, <2>1
    <2>2. CASE code[c].state = "stored" /\ code[c].expired /\ code'[c] = [code[c] EXCEPT !.state = "deleted"]
      <3>1. code[c] \in CodeType
        BY <1>1
      <3> QED BY <2>2, <3>1 DEF CodeType
    <2> QED BY <1>3, <2>1, <2>2
  <1>5. code' \in [Code -> CodeType]
    <2>1. code' = [c \in Code |-> code'[c]]
      BY <1>1 DEF SweepCodes
    <2> QED BY <2>1, <1>4
  <1>6. TypeOK'
    BY <1>1, <1>2, <1>4, <1>5 DEF IndInv, TypeOK
  <1>7. Monotone
    BY <1>4 DEF Monotone
  <1> QED BY <1>1, <1>6, <1>7, MonotoneInv
-----------------------------------------------------------------------------
\* Tokens may come to be expired or deleted, nothing else about them changes.
SameTokens ==
    \A t \in tokens' : \E u \in tokens :
        /\ t.code = u.code /\ t.by = u.by /\ t.shown = u.shown
        /\ t.client = u.client /\ t.grantee = u.grantee

\* A step on the flags of tokens keeps the invariant.
LEMMA SameTokensInv ==
    ASSUME IndInv, SameTokens, UNCHANGED <<registered, code, exchange>>, TypeOK'
    PROVE  IndInv'
PROOF
  <1>1. Verified' /\ MarkedUsed' /\ MarkedAlone' /\ RedirectRegistered'
    BY DEF IndInv, Verified, MarkedUsed, MarkedAlone, BoundToApproval, RedirectRegistered
  <1>2. TokensFinal'
    BY DEF IndInv, SameTokens, TokensFinal
  <1>3. OneTokenPerCode'
    BY DEF IndInv, SameTokens, OneTokenPerCode
  <1>4. BoundToApproval'
    BY <1>1 DEF IndInv, SameTokens, BoundToApproval
  <1> QED BY <1>1, <1>2, <1>3, <1>4 DEF IndInv

\* A token expires.
LEMMA ExpireTokenInv ==
    ASSUME IndInv, NEW t \in tokens, ExpireToken(t)
    PROVE  IndInv'
PROOF
  <1>1. /\ tokens \subseteq TokenType
        /\ tokens' = (tokens \ {t}) \cup {[t EXCEPT !.expired = TRUE]}
        /\ UNCHANGED <<registered, code, exchange, sweep, faults>>
    BY DEF IndInv, TypeOK, ExpireToken
  <1>2. LET e == [t EXCEPT !.expired = TRUE]
        IN  /\ e \in TokenType
            /\ e.code = t.code /\ e.by = t.by /\ e.shown = t.shown
            /\ e.client = t.client /\ e.grantee = t.grantee
    BY <1>1 DEF TokenType
  <1>3. SameTokens
    BY <1>1, <1>2 DEF SameTokens
  <1>4. TypeOK'
    <2>1. tokens' \subseteq TokenType
      BY <1>1, <1>2
    <2> QED BY <1>1, <2>1 DEF IndInv, TypeOK
  <1> QED BY <1>1, <1>3, <1>4, SameTokensInv

\* The sweep deletes the tokens that expired.
LEMMA SweepTokensInv ==
    ASSUME IndInv, SweepTokens
    PROVE  IndInv'
PROOF
  <1>1. /\ tokens \subseteq TokenType /\ faults \in 0..MaxFaults
        /\ UNCHANGED <<registered, code, exchange>> /\ sweep' = "idle"
    BY DEF IndInv, TypeOK, SweepTokens
  <1>2. faults' \in 0..MaxFaults
    BY <1>1, OAuthAssumption DEF SweepTokens, Fault
  <1>3. \A u \in tokens :
           LET e == [u EXCEPT !.deleted = u.expired]
           IN  /\ e \in TokenType
               /\ e.code = u.code /\ e.by = u.by /\ e.shown = u.shown
               /\ e.client = u.client /\ e.grantee = u.grantee
    BY <1>1 DEF TokenType
  <1>4. \A t \in tokens' : t \in tokens \/ \E u \in tokens : t = [u EXCEPT !.deleted = u.expired]
    BY DEF SweepTokens
  <1>5. SameTokens /\ tokens' \subseteq TokenType
    <2>1. \A t \in tokens' : t \in TokenType /\ \E u \in tokens :
             /\ t.code = u.code /\ t.by = u.by /\ t.shown = u.shown
             /\ t.client = u.client /\ t.grantee = u.grantee
      <3> TAKE t \in tokens'
      <3>1. CASE t \in tokens
        BY <1>1, <3>1
      <3>2. CASE \E u \in tokens : t = [u EXCEPT !.deleted = u.expired]
        BY <1>3, <3>2
      <3> QED BY <1>4, <3>1, <3>2
    <2> QED BY <2>1 DEF SameTokens
  <1>6. TypeOK'
    BY <1>1, <1>2, <1>5 DEF IndInv, TypeOK
  <1> QED BY <1>1, <1>5, <1>6, SameTokensInv
-----------------------------------------------------------------------------
\* A requester that lets go of its code, whatever became of the rows.
LEMMA ReleaseInv ==
    ASSUME IndInv, NEW x \in Exchange, NEW a \in {"refused", "failed", "done"},
           exchange' = [exchange EXCEPT ![x] = Fresh(a)],
           Monotone, code' \in [Code -> CodeType], UNCHANGED <<registered, tokens, sweep>>, faults' \in 0..MaxFaults,
           \A c \in Code : \/ code'[c] = code[c]
                           \/ /\ code[c].state = "stored" /\ code'[c].state = "stored"
                              /\ code'[c].sent = code[c].sent /\ code'[c].expired = code[c].expired
    PROVE  IndInv'
PROOF
  <1>1. exchange \in [Exchange -> ExchangeType] /\ tokens \subseteq TokenType
    BY DEF IndInv, TypeOK
  <1>2. /\ \A y \in Exchange : y # x => exchange'[y] = exchange[y]
        /\ exchange'[x].at = a /\ exchange'[x].code = None /\ exchange'[x].shown = None
        /\ exchange' \in [Exchange -> ExchangeType]
    BY <1>1 DEF ExchangeType, Fresh
  <1>3. TypeOK'
    <2>1. \A c \in Code : (/\ code[c].state # "form" <=> code[c].binding # None
                           /\ code[c].state \in {"form", "denied"} <=> code[c].grantee = None
                           /\ code[c].state = "deleted" => code[c].expired
                           /\ code[c].sent \/ code[c].used \/ code[c].expired
                                => code[c].state \in {"stored", "deleted"})'
      BY DEF IndInv, TypeOK, Monotone
    <2>2. \A y \in Exchange : (/\ exchange[y].at \in {"verified", "marked"} <=> exchange[y].code # None
                               /\ exchange[y].code # None <=> exchange[y].shown # None)'
      BY <1>2 DEF IndInv, TypeOK
    <2>3. /\ tokens' \subseteq TokenType /\ sweep' \in {"idle", "codes", "tokens"}
          /\ registered' \in [Client -> SUBSET Allowed]
      BY DEF IndInv, TypeOK
    <2> QED BY <1>2, <2>1, <2>2, <2>3 DEF TypeOK
  <1>4. \A y \in Exchange : exchange[y].at \in {"verified", "marked"} => exchange[y].code \in Code
    BY <1>1, NoneAssumption DEF IndInv, TypeOK, ExchangeType
  <1>5. \A t \in tokens : t.code \in Code
    BY <1>1 DEF TokenType
  <1>6. Verified' /\ MarkedUsed' /\ MarkedAlone'
    BY <1>2, <1>4 DEF IndInv, Monotone, Verified, MarkedUsed, MarkedAlone
  <1>7. RedirectRegistered'
    BY DEF IndInv, Monotone, BoundToApproval, RedirectRegistered
  <1>8. TokensFinal' /\ OneTokenPerCode' /\ BoundToApproval'
    BY <1>2, <1>5, <1>7 DEF IndInv, Monotone, TokensFinal, OneTokenPerCode, BoundToApproval
  <1> QED BY <1>3, <1>6, <1>7, <1>8 DEF IndInv

\* A lookup takes hold of a code only with the right proof.
LEMMA LookupInv ==
    ASSUME IndInv, NEW x \in Exchange, NEW c \in Code, NEW b \in Binding, Lookup(x, c, b)
    PROVE  IndInv'
PROOF
  <1>1. /\ code \in [Code -> CodeType] /\ exchange \in [Exchange -> ExchangeType]
        /\ tokens \subseteq TokenType /\ faults \in 0..MaxFaults
        /\ UNCHANGED <<registered, code, tokens, sweep, faults>>
    BY DEF IndInv, TypeOK, Lookup
  <1>2. CASE exchange' = [exchange EXCEPT ![x] = Fresh("refused")]
    <2>1. Monotone
      BY <1>1 DEF Monotone
    <2> QED BY <1>1, <1>2, <2>1, ReleaseInv
  <1>3. CASE /\ Active(c) /\ code[c].binding = b
             /\ exchange' = [exchange EXCEPT ![x] = [at |-> "verified", code |-> c, shown |-> b]]
    <2>1. /\ \A y \in Exchange : y # x => exchange'[y] = exchange[y]
          /\ exchange'[x].at = "verified" /\ exchange'[x].code = c /\ exchange'[x].shown = b
          /\ exchange' \in [Exchange -> ExchangeType]
      BY <1>1, <1>3 DEF ExchangeType
    <2>2. c # None /\ b # None
      BY NoneAssumption
    <2>3. TypeOK'
      BY <1>1, <2>1, <2>2 DEF IndInv, TypeOK
    <2>4. Verified'
      BY <1>1, <1>3, <2>1 DEF IndInv, Verified, Active
    <2>5. MarkedUsed' /\ MarkedAlone' /\ TokensFinal'
      BY <1>1, <2>1 DEF IndInv, MarkedUsed, MarkedAlone, TokensFinal
    <2>6. RedirectRegistered' /\ OneTokenPerCode' /\ BoundToApproval'
      BY <1>1 DEF IndInv, RedirectRegistered, OneTokenPerCode, BoundToApproval
    <2> QED BY <2>3, <2>4, <2>5, <2>6 DEF IndInv
  <1> QED BY <1>2, <1>3 DEF Lookup

\* A failed lookup does nothing.
LEMMA LookupFailsInv ==
    ASSUME IndInv, NEW x \in Exchange, LookupFails(x)
    PROVE  IndInv'
PROOF
  <1>1. /\ code \in [Code -> CodeType] /\ UNCHANGED <<registered, code, tokens, sweep>>
        /\ exchange' = [exchange EXCEPT ![x] = Fresh("failed")] /\ faults' \in 0..MaxFaults
    BY OAuthAssumption DEF IndInv, TypeOK, LookupFails, Fault
  <1>2. Monotone
    BY <1>1 DEF Monotone
  <1> QED BY <1>1, <1>2, ReleaseInv

\* The mark falls to one requester, while the row is unused: it can neither
\* have a token nor be another's.
LEMMA MarkInv ==
    ASSUME IndInv, NEW x \in Exchange, Mark(x)
    PROVE  IndInv'
PROOF
  <1> DEFINE c == exchange[x].code
             live == code[c].state = "stored" /\ ~code[c].used
  <1>1. /\ code \in [Code -> CodeType] /\ exchange \in [Exchange -> ExchangeType]
        /\ tokens \subseteq TokenType /\ faults \in 0..MaxFaults
        /\ exchange[x].at = "verified" /\ UNCHANGED <<registered, tokens, sweep>>
    BY DEF IndInv, TypeOK, Mark
  <1>2. \A y \in Exchange : exchange[y].at \in {"verified", "marked"} => exchange[y].code \in Code
    BY <1>1, NoneAssumption DEF IndInv, TypeOK, ExchangeType
  <1>3. c \in Code
    BY <1>1, <1>2
  <1>4. ASSUME NEW d \in BOOLEAN, d => live, code' = [code EXCEPT ![c].used = @ \/ d]
        PROVE  /\ Monotone /\ code' \in [Code -> CodeType]
               /\ \A e \in Code : \/ code'[e] = code[e]
                                  \/ /\ code[e].state = "stored" /\ code'[e].state = "stored"
                                     /\ code'[e].sent = code[e].sent /\ code'[e].expired = code[e].expired
    <2>1. code[c].used \in BOOLEAN
      BY <1>1, <1>3 DEF CodeType
    <2>2. code' \in [Code -> CodeType]
      BY <1>1, <1>3, <1>4, <2>1 DEF CodeType
    <2>3. \A e \in Code : e # c => code'[e] = code[e]
      BY <1>1, <1>4
    <2>4. /\ code'[c].state = code[c].state /\ code'[c].binding = code[c].binding
          /\ code'[c].grantee = code[c].grantee /\ code'[c].expired = code[c].expired
          /\ code'[c].sent = code[c].sent /\ code'[c].used = (code[c].used \/ d)
      BY <1>1, <1>3, <1>4 DEF CodeType
    <2>5. CASE d
      BY <1>4, <2>2, <2>3, <2>4, <2>5 DEF Monotone
    <2>6. CASE ~d
      <3>1. code' = code
        BY <1>1, <1>3, <1>4, <2>1, <2>6 DEF CodeType
      <3> QED BY <2>2, <3>1 DEF Monotone
    <2> QED BY <2>5, <2>6
  <1>5. CASE /\ live
             /\ code' = [code EXCEPT ![c].used = TRUE]
             /\ exchange' = [exchange EXCEPT ![x].at = "marked"]
             /\ UNCHANGED faults
    <2>1. /\ \A e \in Code : e # c => code'[e] = code[e]
          /\ code'[c].state = code[c].state /\ code'[c].binding = code[c].binding
          /\ code'[c].grantee = code[c].grantee /\ code'[c].expired = code[c].expired
          /\ code'[c].sent = code[c].sent /\ code'[c].used
          /\ code' \in [Code -> CodeType]
      BY <1>1, <1>3, <1>5, ZenonT(60) DEF CodeType
    <2>2. /\ \A y \in Exchange : y # x => exchange'[y] = exchange[y]
          /\ exchange'[x].at = "marked" /\ exchange'[x].code = c
          /\ exchange'[x].shown = exchange[x].shown
          /\ exchange' \in [Exchange -> ExchangeType]
      BY <1>1, <1>5 DEF ExchangeType
    <2>3. TypeOK'
      BY <1>1, <1>5, <2>1, <2>2 DEF IndInv, TypeOK
    <2>4. Verified' /\ MarkedUsed'
      BY <1>1, <1>2, <2>1, <2>2 DEF IndInv, Verified, MarkedUsed
    <2>5. \A y \in Exchange : exchange[y].at = "marked" => exchange[y].code # c
      BY <1>5 DEF IndInv, MarkedUsed
    <2>6. MarkedAlone'
      BY <2>2, <2>5 DEF IndInv, MarkedAlone
    <2>7. \A t \in tokens : t.code \in Code /\ t.code # c
      BY <1>1, <1>5 DEF IndInv, TokensFinal, TokenType
    <2>8. RedirectRegistered'
      BY <1>1, <2>1 DEF IndInv, BoundToApproval, RedirectRegistered
    <2>9. TokensFinal' /\ OneTokenPerCode' /\ BoundToApproval'
      BY <1>1, <2>1, <2>2, <2>7, <2>8 DEF IndInv, TokensFinal, OneTokenPerCode, BoundToApproval
    <2> QED BY <2>3, <2>4, <2>6, <2>8, <2>9 DEF IndInv
  <1>6. CASE /\ ~live
             /\ exchange' = [exchange EXCEPT ![x] = Fresh("refused")]
             /\ UNCHANGED <<code, faults>>
    <2>1. Monotone
      BY <1>6 DEF Monotone
    <2> QED BY <1>1, <1>6, <2>1, ReleaseInv
  <1>7. CASE /\ Fault
             /\ \E done \in {FALSE, live} : code' = [code EXCEPT ![c].used = @ \/ done]
             /\ exchange' = [exchange EXCEPT ![x] = Fresh("failed")]
    <2>1. PICK d \in {FALSE, live} : code' = [code EXCEPT ![c].used = @ \/ d]
      BY <1>7
    <2>2. d \in BOOLEAN /\ (d => live)
      OBVIOUS
    <2>3. faults' \in 0..MaxFaults
      BY <1>1, <1>7, OAuthAssumption DEF Fault
    <2>4. /\ Monotone /\ code' \in [Code -> CodeType]
          /\ \A e \in Code : \/ code'[e] = code[e]
                             \/ /\ code[e].state = "stored" /\ code'[e].state = "stored"
                                /\ code'[e].sent = code[e].sent /\ code'[e].expired = code[e].expired
      BY <1>4, <2>1, <2>2
    <2> QED BY <1>1, <1>7, <2>3, <2>4, ReleaseInv
  <1> QED BY <1>5, <1>6, <1>7 DEF Mark

\* The one requester that marked the code adds its only token.
LEMMA IssueInv ==
    ASSUME IndInv, NEW x \in Exchange, Issue(x)
    PROVE  IndInv'
PROOF
  <1> DEFINE c == exchange[x].code
             n == NewToken(x)
  <1>1. /\ code \in [Code -> CodeType] /\ exchange \in [Exchange -> ExchangeType]
        /\ tokens \subseteq TokenType /\ faults \in 0..MaxFaults
        /\ exchange[x].at = "marked" /\ UNCHANGED <<registered, code, sweep>>
    BY DEF IndInv, TypeOK, Issue
  <1>2. PICK a \in {"done", "failed"} : exchange' = [exchange EXCEPT ![x] = Fresh(a)]
    BY DEF Issue
  <1>3. faults' \in 0..MaxFaults
    BY <1>1, OAuthAssumption DEF Issue, Fault
  <1>4. CASE tokens' = tokens
    <2>1. Monotone
      BY <1>1 DEF Monotone
    <2> QED BY <1>1, <1>2, <1>3, <1>4, <2>1, ReleaseInv
  <1>5. CASE tokens' = tokens \cup {n}
    <2>1. \A y \in Exchange : exchange[y].at \in {"verified", "marked"} => exchange[y].code \in Code
      BY <1>1, NoneAssumption DEF IndInv, TypeOK, ExchangeType
    <2>2. /\ c \in Code /\ exchange[x].shown = code[c].binding /\ code[c].used
          /\ code[c].state \in {"stored", "deleted"}
      BY <1>1, <2>1 DEF IndInv, Verified, MarkedUsed
    <2>3. code[c].binding \in Binding /\ code[c].grantee \in Grantee
      BY <1>1, <2>2 DEF IndInv, TypeOK, CodeType
    <2>4. /\ n.code = c /\ n.by = x /\ n.shown = code[c].binding
          /\ n.client = code[c].binding.client /\ n.grantee = code[c].grantee /\ n \in TokenType
      BY <2>2, <2>3 DEF NewToken, TokenType, Binding
    <2>5. /\ \A y \in Exchange : y # x => exchange'[y] = exchange[y]
          /\ exchange'[x].at = a /\ exchange'[x].code = None /\ exchange'[x].shown = None
          /\ exchange' \in [Exchange -> ExchangeType]
      BY <1>1, <1>2 DEF ExchangeType, Fresh
    <2>6. TypeOK'
      BY <1>1, <1>3, <1>5, <2>4, <2>5 DEF IndInv, TypeOK
    <2>7. Verified' /\ MarkedUsed' /\ MarkedAlone'
      BY <1>1, <2>5 DEF IndInv, Verified, MarkedUsed, MarkedAlone
    <2>8. \A y \in Exchange : exchange'[y].at = "marked" => exchange'[y].code # c
      BY <1>1, <2>5 DEF IndInv, MarkedAlone
    <2>9. TokensFinal'
      BY <1>1, <1>5, <2>2, <2>4, <2>5, <2>8 DEF IndInv, TokensFinal
    <2>10. \A t \in tokens : t.code # c
      BY <1>1 DEF IndInv, TokensFinal
    <2>11. OneTokenPerCode'
      BY <1>5, <2>4, <2>10 DEF IndInv, OneTokenPerCode
    <2>12. RedirectRegistered'
      BY <1>1 DEF IndInv, BoundToApproval, RedirectRegistered
    <2>13. BoundToApproval'
      BY <1>1, <1>5, <2>2, <2>4, <2>12 DEF IndInv, BoundToApproval
    <2> QED BY <2>6, <2>7, <2>9, <2>11, <2>12, <2>13 DEF IndInv
  <1> QED BY <1>4, <1>5 DEF Issue
-----------------------------------------------------------------------------
\* Every step keeps the invariant.
LEMMA NextInv == IndInv /\ [Next]_vars => IndInv'
PROOF
  <1> SUFFICES ASSUME IndInv, [Next]_vars
               PROVE  IndInv'
    OBVIOUS
  <1>1. CASE \E c \in Code : Approve(c) \/ ExpireCode(c)
    <2>1. ASSUME NEW c \in Code, Deny(c)
          PROVE  IndInv'
      BY <2>1, FilledInv DEF Deny, Asked
    <2>2. ASSUME NEW c \in Code, CheckApproval(c)
          PROVE  IndInv'
      BY <2>2, FilledInv DEF CheckApproval, Asked
    <2> QED BY <1>1, <2>1, <2>2, StoreCodeInv, ExpireCodeInv DEF Approve
  <1>2. CASE \E x \in Exchange : Token(x)
    BY <1>2, LookupInv, LookupFailsInv, MarkInv, IssueInv DEF Token
  <1>3. CASE \E t \in tokens : ExpireToken(t)
    BY <1>3, ExpireTokenInv
  <1>4. CASE SweepStart
    BY <1>4 DEF SweepStart, IndInv, TypeOK, Verified, MarkedUsed, MarkedAlone, TokensFinal,
         RedirectRegistered, OneTokenPerCode, BoundToApproval
  <1>5. CASE SweepCodes \/ SweepTokens
    BY <1>5, SweepCodesInv, SweepTokensInv
  <1>6. CASE UNCHANGED vars
    BY <1>6 DEF vars, IndInv, TypeOK, Verified, MarkedUsed, MarkedAlone, TokensFinal,
         RedirectRegistered, OneTokenPerCode, BoundToApproval
  <1>7. CASE \E cl \in Client, uris \in SUBSET Redirect : Register(cl, uris)
    BY <1>7, RegisterInv
  <1>8. CASE RegisterFails
    BY <1>8, OAuthAssumption DEF RegisterFails, Fault, IndInv, TypeOK, Verified, MarkedUsed, MarkedAlone,
         TokensFinal, RedirectRegistered, OneTokenPerCode, BoundToApproval
  <1> QED BY <1>1, <1>2, <1>3, <1>4, <1>5, <1>6, <1>7, <1>8 DEF Next, Maintenance

\* The invariant holds throughout.
LEMMA SpecInv == Spec => []IndInv
PROOF
  <1> QED BY InitInv, NextInv, PTL DEF Spec

\* The rows, handlers and tokens keep their types, for any constants.
THEOREM TypeCorrect == Spec => []TypeOK
PROOF
  <1>1. IndInv => TypeOK
    BY DEF IndInv
  <1> QED BY SpecInv, <1>1, PTL

\* A code is one-shot (ConsumeCode's conditional UPDATE): it yields at most
\* one access token, for any number of requesters and of failed calls.
THEOREM OneToken == Spec => []OneTokenPerCode
PROOF
  <1>1. IndInv => OneTokenPerCode
    BY DEF IndInv
  <1> QED BY SpecInv, <1>1, PTL

\* A token is for the client, redirect URI, verifier, user and project of the
\* approval behind its code.
THEOREM TokenBound == Spec => []BoundToApproval
PROOF
  <1>1. IndInv => BoundToApproval
    BY DEF IndInv
  <1> QED BY SpecInv, <1>1, PTL
-----------------------------------------------------------------------------
(* AuthorizationGrant *)

\* An approval that has not been stored.
Unopened(c) == code[c].state \in {"form", "denied", "checked", "failed"}
HasToken(c) == \E t \in tokens : t.code = c
Shown(c) == {t.shown : t \in {u \in tokens : u.code = c}}

\* What AuthorizationGrant sees of a code.
LEMMA Seen ==
    /\ \A c \in Code : Unopened(c) => Stage(c) = "none"
    /\ \A c \in Code : ~Unopened(c) /\ HasToken(c) => Stage(c) = "redeemed"
    /\ \A c \in Code : ~Unopened(c) /\ ~HasToken(c) /\ Redeemable(c) => Stage(c) = "open"
    /\ \A c \in Code : ~Unopened(c) /\ ~HasToken(c) /\ ~Redeemable(c) => Stage(c) = "void"
  BY DEF Unopened, HasToken, Stage

\* A step that stores no approval and issues no token, and after which no code
\* is redeemable that was not: some codes, or none, become void.
Shrinks ==
    /\ \A c \in Code : Unopened(c)' <=> Unopened(c)
    /\ \A c \in Code : ~Unopened(c) => code'[c].binding = code[c].binding
    /\ \A c \in Code : HasToken(c)' <=> HasToken(c)
    /\ \A c \in Code : Shown(c)' = Shown(c)
    /\ \A c \in Code : Redeemable(c)' => Redeemable(c)

LEMMA ShrinksVoids ==
    ASSUME Shrinks
    PROVE  Grant!Next
PROOF
  <1> DEFINE S == {c \in Code : Stage(c) = "open" /\ Stage(c)' # "open"}
  <1>1. \A c \in Code : Stage(c)' = IF c \in S THEN "void" ELSE Stage(c)
    <2> TAKE c \in Code
    <2>1. /\ Unopened(c)' => Stage(c)' = "none"
          /\ ~Unopened(c)' /\ HasToken(c)' => Stage(c)' = "redeemed"
          /\ ~Unopened(c)' /\ ~HasToken(c)' /\ Redeemable(c)' => Stage(c)' = "open"
          /\ ~Unopened(c)' /\ ~HasToken(c)' /\ ~Redeemable(c)' => Stage(c)' = "void"
      BY DEF Unopened, HasToken, Stage
    <2> QED BY <2>1, Seen DEF Shrinks
  <1>2. [c \in Code |-> Stage(c)]' = [c \in Code |-> IF c \in S THEN "void" ELSE [d \in Code |-> Stage(d)][c]]
    BY <1>1
  <1>3. \A c \in Code : Stage(c)' = "none" <=> Stage(c) = "none"
    BY <1>1
  <1>4. [c \in Code |-> IF Stage(c) = "none" THEN None ELSE code[c].binding]'
           = [c \in Code |-> IF Stage(c) = "none" THEN None ELSE code[c].binding]
    BY <1>3, Seen DEF Shrinks
  <1>5. [c \in Code |-> {t.shown : t \in {u \in tokens : u.code = c}}]'
           = [c \in Code |-> {t.shown : t \in {u \in tokens : u.code = c}}]
    BY DEF Shrinks, Shown
  <1>6. \A c \in S : [d \in Code |-> Stage(d)][c] = "open"
    OBVIOUS
  <1>7. Grant!Void(S)
    BY <1>2, <1>4, <1>5, <1>6 DEF Grant!Void
  <1>8. S \in SUBSET Code
    OBVIOUS
  <1> QED BY <1>7, <1>8 DEF Grant!Next
\* A step that opens no approval, issues no token and gives nobody a hold on a
\* code: a row may only become used, expired or deleted, a requester may only
\* let go.
Releases ==
    /\ \A c \in Code : Unopened(c)' <=> Unopened(c)
    /\ \A c \in Code : ~Unopened(c) => code'[c].binding = code[c].binding
    /\ \A c \in Code : code'[c].state = "stored" /\ ~code'[c].used => code[c].state = "stored" /\ ~code[c].used
    /\ \A c \in Code : code'[c].state = "stored" /\ ~code'[c].expired /\ code'[c].sent =>
                          ~code[c].expired /\ code[c].sent
    /\ \A x \in Exchange : exchange'[x] = exchange[x] \/ exchange'[x].code = None
    /\ \A c \in Code : HasToken(c)' <=> HasToken(c)
    /\ \A c \in Code : Shown(c)' = Shown(c)

LEMMA ReleasesVoids ==
    ASSUME Releases
    PROVE  Grant!Next
PROOF
  <1>1. \A c \in Code : Redeemable(c)' => Redeemable(c)
    <2> SUFFICES ASSUME NEW c \in Code, Redeemable(c)'
                 PROVE  Redeemable(c)
      OBVIOUS
    <2>1. c # None
      BY NoneAssumption
    <2>2. \/ code'[c].state = "stored" /\ ~code'[c].used /\ ~code'[c].expired /\ code'[c].sent
          \/ \E x \in Exchange :
                /\ exchange'[x].code = c
                /\ exchange'[x].at = "marked" \/ (code'[c].state = "stored" /\ ~code'[c].used)
      BY DEF Redeemable, Active
    <2> QED BY <2>1, <2>2 DEF Redeemable, Active, Releases
  <1>2. Shrinks
    BY <1>1 DEF Shrinks, Releases
  <1> QED BY <1>2, ShrinksVoids

\* Steps that leave the tokens alone show the same of them.
LEMMA TokensSame ==
    ASSUME UNCHANGED tokens
    PROVE  /\ \A c \in Code : HasToken(c)' <=> HasToken(c)
           /\ \A c \in Code : Shown(c)' = Shown(c)
  BY DEF HasToken, Shown

\* Steps on rows alone.
LEMMA RowsRelease ==
    ASSUME UNCHANGED <<exchange, tokens>>,
           \A c \in Code :
              \/ code'[c] = code[c]
              \/ code[c].state \in {"form", "checked"} /\ code'[c].state \in {"denied", "checked", "failed"}
              \/ /\ code[c].state = "stored" /\ code'[c].state \in {"stored", "deleted"}
                 /\ code'[c].binding = code[c].binding /\ code'[c].used = code[c].used
                 /\ code'[c].sent = code[c].sent /\ code'[c].expired
    PROVE  Grant!Next
PROOF
  <1>1. \A c \in Code : Unopened(c)' <=> code'[c].state \in {"form", "denied", "checked", "failed"}
    BY DEF Unopened
  <1>2. Releases
    BY <1>1, TokensSame DEF Releases, Unopened
  <1> QED BY <1>2, ReleasesVoids

\* A requester lets go of what it held, after marking the row or not.
LEMMA LetGo ==
    ASSUME IndInv, NEW x \in Exchange, NEW a, exchange' = [exchange EXCEPT ![x] = Fresh(a)], UNCHANGED tokens,
           \/ code' = code
           \/ \E c \in Code : code[c].state = "stored" /\ code' = [code EXCEPT ![c].used = TRUE]
    PROVE  Grant!Next
PROOF
  <1>1. exchange \in [Exchange -> ExchangeType] /\ code \in [Code -> CodeType]
    BY DEF IndInv, TypeOK
  <1>2. \A y \in Exchange : exchange'[y] = exchange[y] \/ exchange'[y].code = None
    BY <1>1 DEF Fresh
  <1>3. \A c \in Code : /\ code'[c].state = code[c].state /\ code'[c].binding = code[c].binding
                        /\ code'[c].expired = code[c].expired /\ code'[c].sent = code[c].sent
                        /\ code[c].used => code'[c].used
    BY <1>1 DEF CodeType
  <1>4. \A c \in Code : Unopened(c)' <=> Unopened(c)
    BY <1>3 DEF Unopened
  <1>5. Releases
    BY <1>2, <1>3, <1>4, TokensSame DEF Releases
  <1> QED BY <1>5, ReleasesVoids
-----------------------------------------------------------------------------
\* IssueCode opens the approval, or leaves it as it was.
LEMMA StoreCodeGrant ==
    ASSUME IndInv, NEW c \in Code, StoreCode(c)
    PROVE  Grant!Next
PROOF
  <1>1. /\ code \in [Code -> CodeType] /\ tokens \subseteq TokenType
        /\ code[c].state = "checked" /\ UNCHANGED <<exchange, tokens>>
    BY DEF IndInv, TypeOK, StoreCode
  <1>2. \A d \in Code : d # c => code'[d] = code[d]
    BY <1>1 DEF StoreCode
  <1>3. /\ code'[c].state \in {"stored", "failed"} /\ code'[c].binding = code[c].binding
    BY <1>1 DEF StoreCode, CodeType
  <1>4. CASE code'[c].state = "failed"
    BY <1>1, <1>2, <1>4, RowsRelease
  <1>5. CASE code'[c].state = "stored"
    <2>1. ~HasToken(c) /\ Stage(c) = "none"
      BY <1>1 DEF HasToken, Stage, IndInv, TokensFinal
    <2>2. Stage(c)' \in {"open", "void"}
      BY <1>1, <1>5, <2>1 DEF HasToken, Stage
    <2>3. \A d \in Code : d # c => Stage(d)' = Stage(d)
      <3> TAKE d \in Code
      <3> HAVE d # c
      <3>1. code'[d] = code[d] /\ UNCHANGED <<exchange, tokens>>
        BY <1>1, <1>2
      <3>2. Redeemable(d)' <=> Redeemable(d)
        BY <3>1 DEF Redeemable, Active
      <3> QED BY <3>1, <3>2 DEF Stage
    <2>4. code[c].binding \in Binding
      BY <1>1 DEF IndInv, TypeOK, CodeType
    <2>5. [d \in Code |-> Stage(d)]' = [[d \in Code |-> Stage(d)] EXCEPT ![c] = Stage(c)']
      BY <2>3
    <2>6. [d \in Code |-> IF Stage(d) = "none" THEN None ELSE code[d].binding]'
             = [[d \in Code |-> IF Stage(d) = "none" THEN None ELSE code[d].binding] EXCEPT ![c] = code[c].binding]
      BY <1>2, <1>3, <2>2, <2>3
    <2>7. [d \in Code |-> {t.shown : t \in {u \in tokens : u.code = d}}]'
             = [d \in Code |-> {t.shown : t \in {u \in tokens : u.code = d}}]
      BY <1>1
    <2>8. [d \in Code |-> Stage(d)][c] = "none"
      BY <2>1
    <2>9. Grant!Open(c)
      BY <2>2, <2>4, <2>5, <2>6, <2>7, <2>8 DEF Grant!Open
    <2> QED BY <2>9 DEF Grant!Next
  <1> QED BY <1>3, <1>4, <1>5

\* A lookup holds a code only if it was redeemable.
LEMMA LookupGrant ==
    ASSUME IndInv, NEW x \in Exchange, NEW c \in Code, NEW b \in Binding, Lookup(x, c, b)
    PROVE  Grant!Next
PROOF
  <1>1. exchange \in [Exchange -> ExchangeType] /\ code[c].sent /\ UNCHANGED <<code, tokens>>
    BY DEF IndInv, TypeOK, Lookup
  <1>2. CASE exchange' = [exchange EXCEPT ![x] = Fresh("refused")]
    BY <1>1, <1>2, LetGo
  <1>3. CASE Active(c) /\ exchange' = [exchange EXCEPT ![x] = [at |-> "verified", code |-> c, shown |-> b]]
    <2>1. /\ \A y \in Exchange : y # x => exchange'[y] = exchange[y]
          /\ exchange'[x].at = "verified" /\ exchange'[x].code = c
      BY <1>1, <1>3
    <2>2. Redeemable(c)
      BY <1>1, <1>3 DEF Redeemable
    <2>3. \A d \in Code : d # c /\ Redeemable(d)' => Redeemable(d)
      <3> SUFFICES ASSUME NEW d \in Code, d # c, Redeemable(d)'
                   PROVE  Redeemable(d)
        OBVIOUS
      <3>1. \/ code[d].state = "stored" /\ ~code[d].used /\ ~code[d].expired /\ code[d].sent
            \/ \E y \in Exchange :
                  /\ exchange'[y].code = d
                  /\ exchange'[y].at = "marked" \/ (code[d].state = "stored" /\ ~code[d].used)
        BY <1>1 DEF Redeemable, Active
      <3> QED BY <3>1, <2>1 DEF Redeemable, Active
    <2>4. \A d \in Code : Unopened(d)' <=> Unopened(d)
      BY <1>1 DEF Unopened
    <2>5. Shrinks
      BY <1>1, <2>2, <2>3, <2>4, TokensSame DEF Shrinks
    <2> QED BY <2>5, ShrinksVoids
  <1> QED BY <1>2, <1>3 DEF Lookup

\* The requester that marks a code had a hold on it.
LEMMA MarkGrant ==
    ASSUME IndInv, NEW x \in Exchange, Mark(x)
    PROVE  Grant!Next
PROOF
  <1> DEFINE c == exchange[x].code
             live == code[c].state = "stored" /\ ~code[c].used
  <1>1. /\ code \in [Code -> CodeType] /\ exchange \in [Exchange -> ExchangeType]
        /\ exchange[x].at = "verified" /\ UNCHANGED tokens
    BY DEF IndInv, TypeOK, Mark
  <1>2. c \in Code
    BY <1>1, NoneAssumption DEF IndInv, TypeOK, ExchangeType
  <1>3. CASE /\ live
             /\ code' = [code EXCEPT ![c].used = TRUE]
             /\ exchange' = [exchange EXCEPT ![x].at = "marked"]
    <2>1. /\ \A d \in Code : d # c => code'[d] = code[d]
          /\ code'[c].state = code[c].state /\ code'[c].binding = code[c].binding
      BY <1>1, <1>2, <1>3 DEF CodeType
    <2>2. /\ \A y \in Exchange : y # x => exchange'[y] = exchange[y]
          /\ exchange'[x].code = c
      BY <1>1, <1>3 DEF ExchangeType
    <2>3. Redeemable(c)
      BY <1>3 DEF Redeemable
    <2>4. \A d \in Code : d # c /\ Redeemable(d)' => Redeemable(d)
      <3> SUFFICES ASSUME NEW d \in Code, d # c, Redeemable(d)'
                   PROVE  Redeemable(d)
        OBVIOUS
      <3>1. \/ code'[d].state = "stored" /\ ~code'[d].used /\ ~code'[d].expired /\ code'[d].sent
            \/ \E y \in Exchange :
                  /\ exchange'[y].code = d
                  /\ exchange'[y].at = "marked" \/ (code'[d].state = "stored" /\ ~code'[d].used)
        BY DEF Redeemable, Active
      <3> QED BY <3>1, <2>1, <2>2 DEF Redeemable, Active
    <2>5. \A d \in Code : Unopened(d)' <=> Unopened(d)
      BY <2>1 DEF Unopened
    <2>6. Shrinks
      BY <1>1, <2>1, <2>3, <2>4, <2>5, TokensSame DEF Shrinks
    <2> QED BY <2>6, ShrinksVoids
  <1>4. CASE exchange' = [exchange EXCEPT ![x] = Fresh("refused")] /\ code' = code
    BY <1>1, <1>4, LetGo
  <1>5. CASE /\ \E done \in {FALSE, live} : code' = [code EXCEPT ![c].used = @ \/ done]
             /\ exchange' = [exchange EXCEPT ![x] = Fresh("failed")]
    <2>1. code[c].used \in BOOLEAN /\ live \in BOOLEAN
      BY <1>1, <1>2 DEF CodeType
    <2>2. PICK done \in {FALSE, live} : code' = [code EXCEPT ![c].used = @ \/ done]
      BY <1>5
    <2>3. CASE done
      <3>1. live
        BY <2>2, <2>3
      <3>2. code' = [code EXCEPT ![c].used = TRUE]
        BY <2>2, <2>3
      <3> QED BY <1>1, <1>2, <1>5, <3>1, <3>2, LetGo
    <2>4. CASE ~done
      <3>1. code' = [code EXCEPT ![c].used = @]
        BY <2>1, <2>2, <2>4
      <3>2. code' = code
        BY <1>1, <1>2, <3>1 DEF CodeType
      <3> QED BY <1>1, <1>5, <3>2, LetGo
    <2> QED BY <2>3, <2>4
  <1> QED BY <1>3, <1>4, <1>5 DEF Mark

\* The requester that marked the code redeems it with what it showed, which is
\* what the code is bound to; or the insert fails and the code is void.
LEMMA IssueGrant ==
    ASSUME IndInv, NEW x \in Exchange, Issue(x)
    PROVE  Grant!Next
PROOF
  <1> DEFINE n == NewToken(x)
  <1>1. /\ code \in [Code -> CodeType] /\ exchange \in [Exchange -> ExchangeType]
        /\ exchange[x].at = "marked" /\ code' = code
    BY DEF IndInv, TypeOK, Issue
  <1>2. PICK a \in {"done", "failed"} : exchange' = [exchange EXCEPT ![x] = Fresh(a)]
    BY DEF Issue
  <1>3. CASE tokens' = tokens
    BY <1>1, <1>2, <1>3, LetGo
  <1>4. CASE tokens' = tokens \cup {n}
    <2>1. PICK c \in Code : c = exchange[x].code
      BY <1>1, NoneAssumption DEF IndInv, TypeOK, ExchangeType
    <2>2. /\ n.code = c /\ n.shown = code[c].binding /\ ~Unopened(c)
      BY <1>1, <2>1 DEF IndInv, Verified, NewToken, Unopened
    <2>3. \A t \in tokens : t.code # c
      BY <1>1, <2>1 DEF IndInv, TokensFinal
    <2>4. Stage(c) = "open"
      BY <1>1, <2>1, <2>2, <2>3, Seen DEF HasToken, Redeemable
    <2>5. Stage(c)' = "redeemed"
      BY <1>1, <1>4, <2>2 DEF Stage, Unopened
    <2>6. \A y \in Exchange : \/ exchange'[y] = exchange[y]
                              \/ exchange[y].code = c /\ exchange'[y].code = None
      BY <1>1, <1>2, <2>1 DEF Fresh
    <2>7. \A d \in Code : d # c => Stage(d)' = Stage(d)
      <3> TAKE d \in Code
      <3> HAVE d # c
      <3>1. d # None
        BY NoneAssumption
      <3>2. (\E t \in tokens' : t.code = d) <=> (\E t \in tokens : t.code = d)
        BY <1>4, <2>2
      <3>3. (\E y \in Exchange : /\ exchange'[y].code = d
                                 /\ exchange'[y].at = "marked" \/ (code[d].state = "stored" /\ ~code[d].used))
            <=> (\E y \in Exchange : /\ exchange[y].code = d
                                     /\ exchange[y].at = "marked" \/ (code[d].state = "stored" /\ ~code[d].used))
        BY <2>6, <3>1
      <3>4. Redeemable(d)' <=> Redeemable(d)
        BY <1>1, <3>3 DEF Redeemable, Active
      <3> QED BY <1>1, <3>2, <3>4 DEF Stage
    <2>8. [d \in Code |-> Stage(d)]' = [[d \in Code |-> Stage(d)] EXCEPT ![c] = "redeemed"]
      BY <2>5, <2>7
    <2>9. [d \in Code |-> IF Stage(d) = "none" THEN None ELSE code[d].binding]'
             = [d \in Code |-> IF Stage(d) = "none" THEN None ELSE code[d].binding]
      BY <1>1, <2>4, <2>5, <2>7
    <2>10. \A d \in Code : Shown(d)' = IF d = c THEN {code[c].binding} ELSE Shown(d)
      <3> TAKE d \in Code
      <3>1. Shown(d)' = {t.shown : t \in {u \in tokens' : u.code = d}}
        BY DEF Shown
      <3>2. CASE d = c
        <4>1. {u \in tokens' : u.code = d} = {n}
          BY <1>4, <2>2, <2>3, <3>2
        <4> QED BY <2>2, <3>1, <3>2, <4>1
      <3>3. CASE d # c
        <4>1. {u \in tokens' : u.code = d} = {u \in tokens : u.code = d}
          BY <1>4, <2>2, <3>3
        <4> QED BY <3>1, <3>3, <4>1 DEF Shown
      <3> QED BY <3>2, <3>3
    <2>11. [d \in Code |-> {t.shown : t \in {u \in tokens : u.code = d}}]'
              = [[d \in Code |-> {t.shown : t \in {u \in tokens : u.code = d}}]
                   EXCEPT ![c] = {[d \in Code |-> IF Stage(d) = "none" THEN None ELSE code[d].binding][c]}]
      BY <2>1, <2>4, <2>10 DEF Shown
    <2>12. [d \in Code |-> Stage(d)][c] = "open"
      BY <2>1, <2>4
    <2>13. Grant!Redeem(c)
      BY <2>8, <2>9, <2>11, <2>12 DEF Grant!Redeem
    <2> QED BY <2>1, <2>13 DEF Grant!Next
  <1> QED BY <1>3, <1>4 DEF Issue
-----------------------------------------------------------------------------
\* The flags of a token are not seen.
LEMMA FlagsUnseen ==
    ASSUME UNCHANGED <<code, exchange>>,
           \A t \in tokens' : \E u \in tokens : t.code = u.code /\ t.shown = u.shown,
           \A u \in tokens : \E t \in tokens' : t.code = u.code /\ t.shown = u.shown
    PROVE  Grant!Next
PROOF
  <1>1. \A c \in Code : HasToken(c)' <=> HasToken(c)
    BY DEF HasToken
  <1>2. \A c \in Code : Shown(c)' = Shown(c)
    <2> TAKE c \in Code
    <2>1. Shown(c)' = {t.shown : t \in {u \in tokens' : u.code = c}}
      BY DEF Shown
    <2> QED BY <2>1 DEF Shown
  <1>3. \A c \in Code : Unopened(c)' <=> Unopened(c)
    BY DEF Unopened
  <1>4. Releases
    BY <1>1, <1>2, <1>3 DEF Releases
  <1> QED BY <1>4, ReleasesVoids

LEMMA ExpireTokenGrant ==
    ASSUME IndInv, NEW t \in tokens, ExpireToken(t)
    PROVE  Grant!Next
PROOF
  <1> DEFINE e == [t EXCEPT !.expired = TRUE]
  <1>1. t \in TokenType /\ tokens' = (tokens \ {t}) \cup {e} /\ UNCHANGED <<code, exchange>>
    BY DEF IndInv, TypeOK, ExpireToken
  <1>2. e.code = t.code /\ e.shown = t.shown
    BY <1>1 DEF TokenType
  <1>3. \A u \in tokens' : \E v \in tokens : u.code = v.code /\ u.shown = v.shown
    BY <1>1, <1>2
  <1>4. \A v \in tokens : \E u \in tokens' : u.code = v.code /\ u.shown = v.shown
    BY <1>1, <1>2
  <1> QED BY <1>1, <1>3, <1>4, FlagsUnseen

LEMMA SweepTokensGrant ==
    ASSUME IndInv, SweepTokens
    PROVE  Grant!Next
PROOF
  <1>1. tokens \subseteq TokenType /\ UNCHANGED <<code, exchange>>
    BY DEF IndInv, TypeOK, SweepTokens
  <1>2. CASE tokens' = tokens
    BY <1>1, <1>2, FlagsUnseen
  <1>3. CASE tokens' = {[t EXCEPT !.deleted = t.expired] : t \in tokens}
    <2>1. \A t \in tokens : LET e == [t EXCEPT !.deleted = t.expired] IN e.code = t.code /\ e.shown = t.shown
      BY <1>1 DEF TokenType
    <2>2. \A u \in tokens' : \E v \in tokens : u.code = v.code /\ u.shown = v.shown
      BY <1>3, <2>1
    <2>3. \A v \in tokens : \E u \in tokens' : u.code = v.code /\ u.shown = v.shown
      BY <1>3, <2>1
    <2> QED BY <1>1, <2>2, <2>3, FlagsUnseen
  <1> QED BY <1>2, <1>3 DEF SweepTokens

\* A decision at the form, a code that expires and the sweep of the expired.
LEMMA RowsGrant ==
    ASSUME IndInv, \/ \E c \in Code : Deny(c) \/ CheckApproval(c) \/ ExpireCode(c)
                   \/ SweepCodes
    PROVE  Grant!Next
PROOF
  <1>1. code \in [Code -> CodeType]
    BY DEF IndInv, TypeOK
  <1>2. ASSUME NEW c \in Code, Deny(c) \/ CheckApproval(c)
        PROVE  Grant!Next
    <2>1. UNCHANGED <<exchange, tokens>> /\ code[c].state = "form"
      BY <1>2 DEF Deny, CheckApproval
    <2>2. PICK s \in {"denied", "checked"} : \E b, g : code' = [code EXCEPT ![c] = Filled(s, b, g)]
      BY <1>2 DEF Deny, CheckApproval
    <2>3. code'[c].state \in {"denied", "checked"} /\ \A d \in Code : d # c => code'[d] = code[d]
      BY <1>1, <2>2 DEF Filled
    <2> QED BY <2>1, <2>3, RowsRelease
  <1>3. ASSUME NEW c \in Code, ExpireCode(c)
        PROVE  Grant!Next
    <2>1. /\ UNCHANGED <<exchange, tokens>> /\ code[c].state = "stored"
          /\ code' = [code EXCEPT ![c].expired = TRUE]
      BY <1>3 DEF ExpireCode
    <2>2. /\ \A d \in Code : d # c => code'[d] = code[d]
          /\ code'[c].state = "stored" /\ code'[c].binding = code[c].binding
          /\ code'[c].used = code[c].used /\ code'[c].sent = code[c].sent /\ code'[c].expired
      BY <1>1, <2>1 DEF CodeType
    <2> QED BY <2>1, <2>2, RowsRelease
  <1>4. ASSUME SweepCodes
        PROVE  Grant!Next
    <2>1. UNCHANGED <<exchange, tokens>>
      BY <1>4 DEF SweepCodes
    <2>2. \A c \in Code :
             \/ code'[c] = code[c]
             \/ /\ code[c].state = "stored" /\ code[c].expired
                /\ code'[c] = [code[c] EXCEPT !.state = "deleted"]
      BY <1>4 DEF SweepCodes
    <2>3. \A c \in Code :
             \/ code'[c] = code[c]
             \/ /\ code[c].state = "stored" /\ code'[c].state = "deleted"
                /\ code'[c].binding = code[c].binding /\ code'[c].used = code[c].used
                /\ code'[c].sent = code[c].sent /\ code'[c].expired
      <3> TAKE c \in Code
      <3>1. code[c] \in CodeType
        BY <1>1
      <3> QED BY <2>2, <3>1 DEF CodeType
    <2> QED BY <2>1, <2>3, RowsRelease
  <1> QED BY <1>2, <1>3, <1>4

\* Every step is a step of AuthorizationGrant or one it does not see.
LEMMA NextGrant == IndInv /\ [Next]_vars => [Grant!Next]_Grant!vars
PROOF
  <1> SUFFICES ASSUME IndInv, [Next]_vars
               PROVE  Grant!Next
    OBVIOUS
  <1>1. CASE \E c \in Code : Approve(c) \/ ExpireCode(c)
    BY <1>1, RowsGrant, StoreCodeGrant DEF Approve
  <1>2. CASE \E x \in Exchange : Token(x)
    <2>1. ASSUME NEW x \in Exchange, LookupFails(x)
          PROVE  Grant!Next
      BY <2>1, LetGo DEF LookupFails
    <2> QED BY <1>2, <2>1, LookupGrant, MarkGrant, IssueGrant DEF Token
  <1>3. CASE \E t \in tokens : ExpireToken(t)
    BY <1>3, ExpireTokenGrant
  <1>4. CASE SweepCodes \/ SweepTokens
    BY <1>4, RowsGrant, SweepTokensGrant
  <1>5. CASE \/ SweepStart \/ RegisterFails \/ UNCHANGED vars
             \/ \E cl \in Client, uris \in SUBSET Redirect : Register(cl, uris)
    <2>1. UNCHANGED <<code, exchange, tokens>>
      BY <1>5 DEF SweepStart, RegisterFails, Register, vars
    <2> QED BY <2>1, RowsRelease
  <1> QED BY <1>1, <1>2, <1>3, <1>4, <1>5 DEF Next, Maintenance

\* There is no approval at the start.
LEMMA InitGrant == Init => Grant!Init
PROOF
  <1> SUFFICES ASSUME Init
               PROVE  Grant!Init
    OBVIOUS
  <1>1. \A c \in Code : Stage(c) = "none"
    BY DEF Init, Blank, Stage
  <1>2. [c \in Code |-> Stage(c)] = [c \in Code |-> "none"]
    BY <1>1
  <1>3. [c \in Code |-> IF Stage(c) = "none" THEN None ELSE code[c].binding] = [c \in Code |-> None]
    BY <1>1
  <1>4. [c \in Code |-> {t.shown : t \in {u \in tokens : u.code = c}}] = [c \in Code |-> {}]
    BY DEF Init
  <1> QED BY <1>2, <1>3, <1>4 DEF Grant!Init

\* The database calls of the authorization server implement
\* AuthorizationGrant: an approval opens once, is redeemed at most once, with
\* the proof it is bound to, and redeemed or void it stays so.
THEOREM GrantImplemented == Spec => ImplementsAuthorizationGrant
PROOF
  <1> QED BY SpecInv, InitGrant, NextGrant, PTL DEF Spec, ImplementsAuthorizationGrant, Grant!Spec
-----------------------------------------------------------------------------
(* Burned codes *)

\* A step that takes nothing from the codes outside S: they are not marked,
\* they keep their tokens, and whoever has marked one still has it.
Spares(S) ==
    /\ \A c \in Code \ S : code'[c].used => code[c].used
    /\ \A c \in Code \ S : HasToken(c) => HasToken(c)'
    /\ \A x \in Exchange : exchange[x].at = "marked" /\ exchange[x].code \notin S =>
                              exchange'[x].at = "marked" /\ exchange'[x].code = exchange[x].code

LEMMA SparesBurned ==
    ASSUME NEW S, Spares(S)
    PROVE  Burned' \subseteq Burned \cup S
PROOF
  <1> SUFFICES ASSUME NEW c \in Burned', c \notin S
               PROVE  c \in Burned
    OBVIOUS
  <1>1. /\ c \in Code /\ code'[c].used
        /\ \A t \in tokens' : t.code # c
        /\ \A x \in Exchange : ~(exchange'[x].at = "marked" /\ exchange'[x].code = c)
    BY DEF Burned
  <1>2. HasToken(c)' <=> \E t \in tokens' : t.code = c
    BY DEF HasToken
  <1>3. code[c].used /\ ~HasToken(c) /\ \A x \in Exchange : ~(exchange[x].at = "marked" /\ exchange[x].code = c)
    BY <1>1, <1>2 DEF Spares
  <1> QED BY <1>1, <1>3 DEF Burned, HasToken

\* A requester's step burns nothing if the code it is about, if any, comes out
\* marked by the requester or with a token; a failed one burns that code at most.
LEMMA MarkBurns ==
    ASSUME IndInv, NEW x \in Exchange, Mark(x)
    PROVE  \/ Burned' \subseteq Burned /\ faults' = faults
           \/ faults' = faults + 1 /\ \E c \in Code : Burned' \subseteq Burned \cup {c}
PROOF
  <1>1. /\ code \in [Code -> CodeType] /\ exchange \in [Exchange -> ExchangeType]
        /\ exchange[x].at = "verified" /\ UNCHANGED tokens
    BY DEF IndInv, TypeOK, Mark
  <1>2. PICK c \in Code : c = exchange[x].code
    BY <1>1, NoneAssumption DEF IndInv, TypeOK, ExchangeType
  <1>3. \A d \in Code : d # c => code'[d] = code[d]
    BY <1>1, <1>2 DEF Mark
  <1>4. \A y \in Exchange : y # x => exchange'[y] = exchange[y]
    BY <1>1 DEF Mark
  <1>5. Spares({c})
    BY <1>1, <1>3, <1>4, TokensSame DEF Spares
  <1>6. Burned' \subseteq Burned \cup {c}
    BY <1>5, SparesBurned
  <1>7. CASE /\ exchange' = [exchange EXCEPT ![x].at = "marked"]
             /\ UNCHANGED faults
    <2>1. exchange'[x].at = "marked" /\ exchange'[x].code = c
      BY <1>1, <1>2, <1>7 DEF ExchangeType
    <2>2. c \notin Burned'
      BY <2>1 DEF Burned
    <2> QED BY <1>6, <1>7, <2>2
  <1>8. CASE UNCHANGED <<code, faults>>
    <2>1. Spares({})
      BY <1>1, <1>4, <1>8, TokensSame DEF Spares
    <2> QED BY <1>8, <2>1, SparesBurned
  <1>9. CASE faults' = faults + 1
    BY <1>6, <1>9
  <1> QED BY <1>7, <1>8, <1>9 DEF Mark, Fault

LEMMA IssueBurns ==
    ASSUME IndInv, NEW x \in Exchange, Issue(x)
    PROVE  \/ Burned' \subseteq Burned /\ faults' = faults
           \/ faults' = faults + 1 /\ \E c \in Code : Burned' \subseteq Burned \cup {c}
PROOF
  <1>1. /\ exchange \in [Exchange -> ExchangeType] /\ exchange[x].at = "marked" /\ UNCHANGED code
    BY DEF IndInv, TypeOK, Issue
  <1>2. PICK c \in Code : c = exchange[x].code
    BY <1>1, NoneAssumption DEF IndInv, TypeOK, ExchangeType
  <1>3. \A y \in Exchange : y # x => exchange'[y] = exchange[y]
    BY <1>1 DEF Issue
  <1>4. tokens \subseteq tokens'
    BY DEF Issue
  <1>5. \A d \in Code : HasToken(d) => HasToken(d)'
    BY <1>4 DEF HasToken
  <1>6. Spares({c})
    BY <1>1, <1>2, <1>3, <1>5 DEF Spares
  <1>7. Burned' \subseteq Burned \cup {c}
    BY <1>6, SparesBurned
  <1>8. CASE tokens' = tokens \cup {NewToken(x)} /\ UNCHANGED faults
    <2>1. NewToken(x).code = c
      BY <1>2 DEF NewToken
    <2>2. c \notin Burned'
      BY <1>8, <2>1 DEF Burned
    <2> QED BY <1>7, <1>8, <2>2
  <1>9. CASE faults' = faults + 1
    BY <1>7, <1>9
  <1> QED BY <1>8, <1>9 DEF Issue, Fault

\* No other step burns anything.
LEMMA OthersBurnNothing ==
    ASSUME IndInv, [Next]_vars, ~ \E x \in Exchange : Mark(x) \/ Issue(x)
    PROVE  Burned' \subseteq Burned /\ (faults' = faults \/ faults' = faults + 1)
PROOF
  <1>1. /\ code \in [Code -> CodeType] /\ exchange \in [Exchange -> ExchangeType] /\ tokens \subseteq TokenType
    BY DEF IndInv, TypeOK
  <1>2. ASSUME UNCHANGED <<exchange, tokens>>, \A c \in Code : code'[c].used => code[c].used
        PROVE  Burned' \subseteq Burned
    <2>1. Spares({})
      BY <1>2, TokensSame DEF Spares
    <2> QED BY <2>1, SparesBurned
  <1>3. ASSUME NEW c \in Code, Approve(c) \/ ExpireCode(c)
        PROVE  Burned' \subseteq Burned /\ (faults' = faults \/ faults' = faults + 1)
    <2>1. UNCHANGED <<exchange, tokens>> /\ (faults' = faults \/ faults' = faults + 1)
      BY <1>3 DEF Approve, Deny, CheckApproval, StoreCode, ExpireCode, Fault
    <2>2. \A d \in Code : d # c => code'[d] = code[d]
      BY <1>1, <1>3 DEF Approve, Deny, CheckApproval, StoreCode, ExpireCode
    <2>3. code'[c].used => code[c].used
      <3>1. CASE Deny(c) \/ CheckApproval(c)
        BY <1>1, <3>1 DEF Deny, CheckApproval, Filled
      <3>2. CASE StoreCode(c) \/ ExpireCode(c)
        BY <1>1, <3>2 DEF StoreCode, ExpireCode, CodeType
      <3> QED BY <1>3, <3>1, <3>2 DEF Approve
    <2> QED BY <1>2, <2>1, <2>2, <2>3
  <1>4. ASSUME NEW x \in Exchange, LookupFails(x) \/ \E c \in Code, b \in Binding : Lookup(x, c, b)
        PROVE  Burned' \subseteq Burned /\ (faults' = faults \/ faults' = faults + 1)
    <2>1. UNCHANGED <<code, tokens>> /\ (faults' = faults \/ faults' = faults + 1) /\ exchange[x].at # "marked"
      BY <1>4 DEF LookupFails, Lookup, Ready, Fault
    <2>2. \A y \in Exchange : y # x => exchange'[y] = exchange[y]
      BY <1>1, <1>4 DEF LookupFails, Lookup
    <2>3. Spares({})
      BY <2>1, <2>2, TokensSame DEF Spares
    <2> QED BY <2>1, <2>3, SparesBurned
  <1>5. ASSUME UNCHANGED <<code, exchange>>, \A u \in tokens : \E v \in tokens' : u.code = v.code
        PROVE  Burned' \subseteq Burned
    <2>1. \A c \in Code : HasToken(c) => HasToken(c)'
      BY <1>5 DEF HasToken
    <2>2. Spares({})
      BY <1>5, <2>1 DEF Spares
    <2> QED BY <2>2, SparesBurned
  <1>6. ASSUME NEW t \in tokens, ExpireToken(t)
        PROVE  Burned' \subseteq Burned /\ faults' = faults
    <2>1. /\ UNCHANGED <<code, exchange, faults>> /\ t \in TokenType
          /\ tokens' = (tokens \ {t}) \cup {[t EXCEPT !.expired = TRUE]}
      BY <1>1, <1>6 DEF ExpireToken
    <2>2. [t EXCEPT !.expired = TRUE].code = t.code
      BY <2>1 DEF TokenType
    <2> QED BY <1>5, <2>1, <2>2
  <1>7. ASSUME SweepTokens
        PROVE  Burned' \subseteq Burned /\ (faults' = faults \/ faults' = faults + 1)
    <2>1. UNCHANGED <<code, exchange>> /\ (faults' = faults \/ faults' = faults + 1)
      BY <1>7 DEF SweepTokens, Fault
    <2>2. \A u \in tokens : [u EXCEPT !.deleted = u.expired].code = u.code
      BY <1>1 DEF TokenType
    <2>3. \A u \in tokens : \E v \in tokens' : u.code = v.code
      BY <1>7, <2>2 DEF SweepTokens
    <2> QED BY <1>5, <2>1, <2>3
  <1>8. ASSUME SweepCodes
        PROVE  Burned' \subseteq Burned /\ (faults' = faults \/ faults' = faults + 1)
    <2>1. UNCHANGED <<exchange, tokens>> /\ (faults' = faults \/ faults' = faults + 1)
      BY <1>8 DEF SweepCodes, Fault
    <2>2. \A c \in Code : code'[c] = code[c] \/ code'[c] = [code[c] EXCEPT !.state = "deleted"]
      BY <1>8 DEF SweepCodes
    <2>3. \A c \in Code : code'[c].used = code[c].used
      BY <1>1, <2>2, ZenonT(60) DEF CodeType
    <2> QED BY <1>2, <2>1, <2>3
  <1>9. CASE \/ SweepStart \/ RegisterFails \/ UNCHANGED vars
             \/ \E cl \in Client, uris \in SUBSET Redirect : Register(cl, uris)
    <2>1. UNCHANGED <<code, exchange, tokens>> /\ (faults' = faults \/ faults' = faults + 1)
      BY <1>9 DEF SweepStart, RegisterFails, Register, Fault, vars
    <2> QED BY <1>2, <2>1
  <1> QED BY <1>3, <1>4, <1>6, <1>7, <1>8, <1>9 DEF Next, Token, Maintenance

\* A set that grows by at most one when a count does.
LEMMA AtMostOneMore ==
    ASSUME NEW S, NEW T, NEW n \in Nat, IsFiniteSet(S), Cardinality(S) <= n
    PROVE  /\ T \subseteq S => IsFiniteSet(T) /\ Cardinality(T) <= n
           /\ \A c : T \subseteq S \cup {c} => IsFiniteSet(T) /\ Cardinality(T) <= n + 1
PROOF
  <1>1. Cardinality(S) \in Nat
    BY FS_CardinalityType
  <1>2. T \subseteq S => IsFiniteSet(T) /\ Cardinality(T) <= Cardinality(S) /\ Cardinality(T) \in Nat
    BY FS_Subset, FS_CardinalityType
  <1>3. ASSUME NEW c, T \subseteq S \cup {c}
        PROVE  IsFiniteSet(T) /\ Cardinality(T) <= n + 1
    <2>1. /\ IsFiniteSet(S \cup {c})
          /\ Cardinality(S \cup {c}) = IF c \in S THEN Cardinality(S) ELSE Cardinality(S) + 1
      BY FS_AddElement
    <2>2. IsFiniteSet(T) /\ Cardinality(T) <= Cardinality(S \cup {c}) /\ Cardinality(T) \in Nat
      BY <1>3, <2>1, FS_Subset, FS_CardinalityType
    <2> QED BY <1>1, <2>1, <2>2
  <1> QED BY <1>1, <1>2, <1>3

BurnedCounted == IsFiniteSet(Burned) /\ BurnedOwedToFaults

LEMMA InitBurned == Init => BurnedCounted
PROOF
  <1>1. Init => Burned = {}
    BY DEF Init, Blank, Burned
  <1> QED BY <1>1, FS_EmptySet DEF Init, BurnedCounted, BurnedOwedToFaults

LEMMA NextBurned == IndInv /\ BurnedCounted /\ [Next]_vars => BurnedCounted'
PROOF
  <1> SUFFICES ASSUME IndInv, BurnedCounted, [Next]_vars
               PROVE  BurnedCounted'
    OBVIOUS
  <1>1. faults \in Nat /\ IsFiniteSet(Burned) /\ Cardinality(Burned) <= faults
    BY OAuthAssumption DEF IndInv, TypeOK, BurnedCounted, BurnedOwedToFaults
  <1>2. \/ Burned' \subseteq Burned /\ (faults' = faults \/ faults' = faults + 1)
        \/ faults' = faults + 1 /\ \E c \in Code : Burned' \subseteq Burned \cup {c}
    BY MarkBurns, IssueBurns, OthersBurnNothing
  <1>3. /\ Burned' \subseteq Burned => IsFiniteSet(Burned') /\ Cardinality(Burned') <= faults
        /\ \A c : Burned' \subseteq Burned \cup {c} => IsFiniteSet(Burned') /\ Cardinality(Burned') <= faults + 1
    BY <1>1, AtMostOneMore
  <1>4. Burned' \subseteq Burned => IsFiniteSet(Burned') /\ Cardinality(Burned') \in Nat
    BY <1>3, FS_CardinalityType
  <1>5. IsFiniteSet(Burned') /\ Cardinality(Burned') <= faults'
    BY <1>1, <1>2, <1>3, <1>4
  <1> QED BY <1>5 DEF BurnedCounted, BurnedOwedToFaults

\* A code is used up without a token only where a call failed, one code for
\* each failure at most.
THEOREM OnlyFailuresBurn == Spec => []BurnedOwedToFaults
PROOF
  <1>1. BurnedCounted => BurnedOwedToFaults
    BY DEF BurnedCounted
  <1>2. Init => IndInv /\ BurnedCounted
    BY InitInv, InitBurned
  <1>3. (IndInv /\ BurnedCounted) /\ [Next]_vars => (IndInv /\ BurnedCounted)'
    BY NextInv, NextBurned
  <1> QED BY <1>1, <1>2, <1>3, PTL DEF Spec
=============================================================================
