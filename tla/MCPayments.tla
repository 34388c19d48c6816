------------------------------ MODULE MCPayments -----------------------------
(* The two halves of the payment service, for model checking.  They share   *)
(* no row, so that a behaviour is one of either half while the other rests. *)
EXTENDS OutboundPayment, InboundPayment

CONSTANTS i1, i2, full, other, bare

\* Two bodies for one key, and one without a journal entry.
AllOrders == {<<i1, full>>, <<i1, other>>, <<i2, full>>, <<i2, bare>>}

NoOrders == {}

VARIABLE half

Init == half \in {"out", "in"} /\ OutInit /\ InInit

Next == \/ half = "out" /\ OutNext /\ UNCHANGED <<inVars, half>>
        \/ half = "in"  /\ InNext  /\ UNCHANGED <<outVars, half>>

Spec == Init /\ [][Next]_<<outVars, inVars, half>> /\ OutFairness /\ InFairness
=============================================================================
