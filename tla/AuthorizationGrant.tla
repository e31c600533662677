------------------------ MODULE AuthorizationGrant ------------------------
(***************************************************************************)
(* What the authorization server promises about a code: it opens once, is  *)
(* redeemed for at most one access token by a requester who showed what    *)
(* the approval bound it to, and once redeemed or void it stays so.        *)
(***************************************************************************)
CONSTANTS Code, Binding, NoBinding

VARIABLES
    stage,    \* [Code -> {"none", "open", "redeemed", "void"}]
    bound,    \* [Code -> Binding \cup {NoBinding}]: what the approval bound the code to
    proof     \* [Code -> SUBSET Binding]: what the requesters who got a token showed

vars == <<stage, bound, proof>>

Init ==
    /\ stage = [c \in Code |-> "none"]
    /\ bound = [c \in Code |-> NoBinding]
    /\ proof = [c \in Code |-> {}]

\* The approval is stored; void at once if its answer never reaches the client.
Open(c) ==
    /\ stage[c] = "none"
    /\ \E b \in Binding : bound' = [bound EXCEPT ![c] = b]
    /\ \E s \in {"open", "void"} : stage' = [stage EXCEPT ![c] = s]
    /\ UNCHANGED proof

Redeem(c) ==
    /\ stage[c] = "open"
    /\ stage' = [stage EXCEPT ![c] = "redeemed"]
    /\ proof' = [proof EXCEPT ![c] = {bound[c]}]
    /\ UNCHANGED bound

\* Expired, or burned by a call that failed; a sweep may void several at once.
Void(S) ==
    /\ \A c \in S : stage[c] = "open"
    /\ stage' = [c \in Code |-> IF c \in S THEN "void" ELSE stage[c]]
    /\ UNCHANGED <<bound, proof>>

Next ==
    \/ \E c \in Code : Open(c) \/ Redeem(c)
    \/ \E S \in SUBSET Code : Void(S)

Spec == Init /\ [][Next]_vars
=============================================================================
