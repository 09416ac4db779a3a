--------------------------- MODULE PaymentPromise ---------------------------
(***************************************************************************)
(* What the handling of payments promises of one booking: a service is     *)
(* begun once, and only for money that was taken for it; money goes back   *)
(* at most once, and only as long as nothing was done for it.              *)
(***************************************************************************)
EXTENDS Naturals

CONSTANTS Payments

Services == {"advance", "final"}

VARIABLES
    taken,      \* the payments taken, each with the service it pays
    begun,      \* how often each service was begun
    returned    \* how often each payment was given back

promise == <<taken, begun, returned>>

Init ==
    /\ taken = {}
    /\ begun = [t \in Services |-> 0]
    /\ returned = [p \in Payments |-> 0]

Take(p, t) ==
    /\ \A x \in taken : x[1] # p
    /\ taken' = taken \cup {<<p, t>>}
    /\ UNCHANGED <<begun, returned>>

BeginService(p, t) ==
    /\ begun[t] = 0
    /\ <<p, t>> \in taken
    /\ \A q \in Payments : returned[q] = 0
    /\ begun' = [begun EXCEPT ![t] = 1]
    /\ UNCHANGED <<taken, returned>>

GiveBack(p) ==
    /\ returned[p] = 0
    /\ \E t \in Services : <<p, t>> \in taken
    /\ \A t \in Services : begun[t] = 0
    /\ returned' = [returned EXCEPT ![p] = 1]
    /\ UNCHANGED <<taken, begun>>

Next ==
    \E p \in Payments :
        \/ \E t \in Services : Take(p, t) \/ BeginService(p, t)
        \/ GiveBack(p)

Spec == Init /\ [][Next]_promise

==============================================================================
