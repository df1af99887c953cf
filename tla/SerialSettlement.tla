--------------------------- MODULE SerialSettlement ---------------------------
(***************************************************************************)
(* What SettlementQueue promises its callers, without saying how: accepted *)
(* settlements are numbered in the order of acceptance, they are emitted   *)
(* one at a time in that order, and each is emitted exactly once.          *)
(***************************************************************************)
EXTENDS Naturals

VARIABLES
    accepted,   \* how many settlements have been accepted
    answered,   \* the numbers of those the emitter has answered for
    emitting    \* the numbers of those handed to the emitter and not answered

serialVars == <<accepted, answered, emitting>>

Init ==
    /\ accepted = 0
    /\ answered = {}
    /\ emitting = {}

Accept ==
    /\ accepted' = accepted + 1
    /\ UNCHANGED <<answered, emitting>>

\* The oldest settlement without an answer is handed to the emitter.
Begin ==
    /\ emitting = {}
    /\ \E n \in 1 .. accepted :
         /\ answered = 1 .. (n - 1)
         /\ emitting' = {n}
    /\ UNCHANGED <<accepted, answered>>

\* It is answered; the next one, if there is any, may begin in the same step.
Finish ==
    \E n \in 1 .. accepted :
        /\ emitting = {n}
        /\ answered' = answered \cup {n}
        /\ \/ emitting' = {}
           \/ n < accepted /\ emitting' = {n + 1}
        /\ UNCHANGED accepted

Next == Accept \/ Begin \/ Finish

Spec == Init /\ [][Next]_serialVars
===============================================================================
