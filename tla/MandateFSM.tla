----------------------------- MODULE MandateFSM -----------------------------
(***************************************************************************)
(* The finite state machine of a payment mandate (app/mandate_fsm.py).     *)
(* MandateStatus is the enumeration of app/models.py, AllowedTransitions   *)
(* the table of the same name as a relation. The remaining operators name  *)
(* the classes of statuses the handlers test for.                          *)
(***************************************************************************)
MandateStatus ==
    {"RESERVED", "ORDER_CREATING", "ORDER_CREATED", "PAYMENT_PENDING",
     "PAYMENT_CAPTURED", "PAYMENT_FAILED", "EXPIRED", "RELEASED"}

AllowedTransitions ==
    ({"RESERVED"}        \X {"ORDER_CREATING"}) \cup
    ({"ORDER_CREATING"}  \X {"ORDER_CREATED", "RESERVED", "RELEASED"}) \cup
    ({"ORDER_CREATED"}   \X {"PAYMENT_PENDING", "PAYMENT_CAPTURED", "PAYMENT_FAILED", "EXPIRED"}) \cup
    ({"PAYMENT_PENDING"} \X {"PAYMENT_CAPTURED", "PAYMENT_FAILED"}) \cup
    ({"PAYMENT_FAILED", "EXPIRED"} \X {"RELEASED"})

CanTransition(from, to) == <<from, to>> \in AllowedTransitions

\* A mutant: staying where it is counts as an illegal move.
TransitionListed(from, to) == CanTransition(from, to)

\* The calls transition(record, to) that return: a move to the status the
\* mandate already has is a no-op, a move of the table is made, any other raises.
TransitionLegal(from, to) == from = to \/ CanTransition(from, to)

\* A handler calls transition() at most twice between two commits.
WithinTwoMoves(from, to) ==
    \E via \in MandateStatus : TransitionLegal(from, via) /\ TransitionLegal(via, to)

Terminal      == {s \in MandateStatus : ~ \E t \in MandateStatus : CanTransition(s, t)}
AwaitsPayment == {"ORDER_CREATED", "PAYMENT_PENDING"}
InFlight      == {"ORDER_CREATING"} \cup AwaitsPayment
HoldsBudget   == {"RESERVED"} \cup InFlight
Unsuccessful  == {"RELEASED", "PAYMENT_FAILED", "EXPIRED"}

=============================================================================
