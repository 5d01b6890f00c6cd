------------------------------ MODULE OrderFlow ------------------------------
(***************************************************************************)
(* Gateway orders beside the mandates they pay: what create_order() and    *)
(* reconcile_order() answer (app/razorpay_client.py), what the handlers    *)
(* record of it, and what the payer and the gateway do with the order. The *)
(* handlers are those of PaymentRail in a deployment with a live gateway.  *)
(*                                                                         *)
(* create_order() never fails: when the call is refused or times out it    *)
(* answers with an order it invents, so the gateway may or may not have    *)
(* one. reconcile_order() answers None for any error. The agent endpoints  *)
(* and the recovery at start-up use a mock client of their own.            *)
(*                                                                         *)
(* The request that creates a standalone order loads its mandate before    *)
(* the call and writes it back after, whatever the row holds by then.      *)
(***************************************************************************)
EXTENDS PaymentRail

CONSTANT Overlaps  \* whether recovery may meet a request that is still at work

ASSUME OverlapsAssumption == Overlaps \in BOOLEAN

VARIABLES
    gateway,   \* the mandates whose receipt key the gateway has an order for
    recorded,  \* mandate_records.razorpay_order_id: none, the gateway's or an invented one
    object,    \* the mandate as the request that calls the gateway holds it, and its answer
    paid       \* the mandates whose gateway order the payer has paid

orderVars == <<gateway, recorded, object, paid>>

OrderId == {"none", "gateway", "invented"}
NoObject == [status |-> "none", recorded |-> "none", answer |-> "none"]
Numbers == 1 .. MaxMandates

InitOrders ==
    /\ Init
    /\ gateway = {}
    /\ recorded = [m \in Numbers |-> "none"]
    /\ object = [m \in Numbers |-> NoObject]
    /\ paid = {}

-----------------------------------------------------------------------------
(***************************************************************************)
(* The answers of the gateway client.                                      *)
(***************************************************************************)
\* create_order(): the call succeeds, or times out when the gateway has created
\* the order or before.
CreateOrder(m, id) ==
    \/ id = "gateway" /\ gateway' = gateway \cup {m}
    \/ id = "invented" /\ gateway' \in {gateway, gateway \cup {m}}

\* reconcile_order() of the live client, when it finds an order.
FindsOrder(m) == m \in gateway

\* A mutant: the id is assigned after the commit.
AnswerNotWritten(m, id) == recorded

WithAnswer(m, id) == [recorded EXCEPT ![m] = id]

\* Recovery meets no request at work, unless Overlaps.
MayRecover(m) == Overlaps \/ handler[m] = "none"

-----------------------------------------------------------------------------
(***************************************************************************)
(* The handlers.                                                           *)
(***************************************************************************)
\* The object is loaded to read the receipt key, then the gateway is called.
CallLiveGateway(m) ==
    /\ CallGateway(m)
    /\ \E id \in OrderId :
          /\ CreateOrder(m, id)
          /\ object' = [object EXCEPT ![m] = [status   |-> mandates[m].status,
                                             recorded |-> recorded[m],
                                             answer   |-> id]]
    /\ UNCHANGED <<recorded, paid>>

\* A mutant: the object is changed after its last flush.
NeverFlushed(before, after, now) == now

\* An UPDATE writes an attribute if the object's value changed.
Changed(before, after, now) == IF after # before THEN after ELSE now

\* The object is moved to ORDER_CREATED and the attributes that changed are written.
RecordOrder(m) ==
    LET held == object[m] IN
    /\ handler[m] = "called"
    /\ TransitionLegal(held.status, "ORDER_CREATED")
    /\ mandates' = SetStatus(m, Changed(held.status, "ORDER_CREATED", mandates[m].status))
    /\ recorded' = WithAnswer(m, Changed(held.recorded, held.answer, recorded[m]))
    /\ audit' = audit \cup {<<"ORDER_CREATED", m>>}
    /\ handler' = [handler EXCEPT ![m] = "none"]
    /\ object' = [object EXCEPT ![m] = NoObject]
    /\ UNCHANGED <<registry, plans, events, receipts, expired, gateway, paid>>

\* Between the answer and the commit the request fails: the row stays in
\* ORDER_CREATING and the answer is lost.
RequestFails(m) ==
    /\ HandlerFails(m)
    /\ object' = [object EXCEPT ![m] = NoObject]
    /\ UNCHANGED <<gateway, recorded, paid>>

ProcessDies ==
    /\ Crash
    /\ object' = [m \in Numbers |-> NoObject]
    /\ UNCHANGED <<gateway, recorded, paid>>

MockAgentOrder(m) ==
    /\ AgentOrder(m)
    /\ recorded' = WithAnswer(m, "invented")
    /\ UNCHANGED <<gateway, object, paid>>

\* The order that is found is recorded also when the mandate has been
\* ORDER_CREATED all along with an invented one.
OperatorFinds(m) ==
    /\ MayRecover(m)
    /\ FindsOrder(m)
    /\ ReconcileFound(m)
    /\ recorded' = WithAnswer(m, "gateway")
    /\ UNCHANGED <<gateway, object, paid>>

OperatorFindsNothing(m) ==
    /\ MayRecover(m)
    /\ ReconcileNotFound(m)
    /\ UNCHANGED orderVars

\* A process starts; with Overlaps another may be serving requests.
ProcessStarts ==
    /\ \/ StartupReconcile
       \/ /\ Overlaps
          /\ mandates' = [m \in Rows |->
                            IF mandates[m].status = "ORDER_CREATING"
                            THEN [mandates[m] EXCEPT !.status = "RESERVED"]
                            ELSE mandates[m]]
          /\ UNCHANGED <<registry, plans, events, audit, receipts, handler, expired>>
    /\ UNCHANGED orderVars

\* execute_plan_leg() writes the answer and both moves in one commit.
OrderLeg(m) ==
    /\ ExecuteLeg(m)
    /\ \E id \in OrderId :
          /\ CreateOrder(m, id)
          /\ recorded' = WithAnswer(m, id)
    /\ UNCHANGED <<object, paid>>

\* The leg is released for a reason that has nothing to do with the gateway, or
\* because the commit that would have recorded its order failed.
GiveUpLeg(m) ==
    /\ ReleaseLeg(m)
    /\ \/ gateway' = gateway
       \/ /\ mandates[m].status \in {"RESERVED", "ORDER_CREATING"}
          /\ mandates[m].intent \notin expired
          /\ gateway' = gateway \cup {m}
    /\ UNCHANGED <<recorded, object, paid>>

-----------------------------------------------------------------------------
(***************************************************************************)
(* The payer and the gateway, external. Whoever was told the gateway's     *)
(* order id may pay it; a webhook names that id, and an event belongs to   *)
(* one order.                                                              *)
(***************************************************************************)
Pay(m) ==
    /\ recorded[m] = "gateway"
    /\ m \notin paid
    /\ paid' = paid \cup {m}
    /\ UNCHANGED <<vars, gateway, recorded, object>>

EventOf(e, m) == \A event \in events : event.id = e => event.mandate = m

PaymentReported(m) ==
    /\ m \in paid
    /\ recorded[m] = "gateway"
    /\ \E e \in EventIds : EventOf(e, m) /\ CaptureWebhook(e, m, mandates[m].amount)
    /\ UNCHANGED orderVars

\* An attempt to pay failed; a later one may succeed.
AttemptReported(m) ==
    /\ recorded[m] = "gateway"
    /\ \E e \in EventIds : EventOf(e, m) /\ FailWebhook(e, m)
    /\ UNCHANGED orderVars

-----------------------------------------------------------------------------
Unrelated ==
    /\ \/ Authorization
       \/ \E m \in Rows : BeginOrder(m)
       \/ \E p \in Plans : SyncPlan(p)
       \/ \E i \in Intents : ExpireIntent(i)
    /\ UNCHANGED orderVars

NextOrders ==
    \/ Unrelated
    \/ \E m \in Rows :
          \/ CallLiveGateway(m) \/ RecordOrder(m) \/ RequestFails(m) \/ MockAgentOrder(m)
          \/ OperatorFinds(m) \/ OperatorFindsNothing(m)
          \/ OrderLeg(m) \/ GiveUpLeg(m)
          \/ Pay(m) \/ PaymentReported(m) \/ AttemptReported(m)
    \/ ProcessDies
    \/ ProcessStarts

allVars == <<vars, orderVars>>

SpecOrders == InitOrders /\ [][NextOrders]_allVars

\* The gateway repeats a report until it is processed. An operator asks again
\* for a mandate whose order the gateway does not confirm, and the gateway
\* sometimes answers: nothing in the program does that by itself.
FairSpecOrders ==
    /\ SpecOrders
    /\ \A m \in Numbers :
          /\ WF_allVars(m \in Rows /\ PaymentReported(m))
          /\ SF_allVars(m \in Rows /\ OperatorFinds(m))

-----------------------------------------------------------------------------
(***************************************************************************)
(* Properties.                                                             *)
(***************************************************************************)
\* An id under which a payer may pay stays recorded until the end, so that a
\* webhook that names it always finds its mandate (webhooks.py looks it up by
\* razorpay_order_id alone), and the ledger knows of it.
KnownOrdersStayKnown ==
    [][\A m \in Rows :
          recorded[m] = "gateway" =>
              recorded'[m] = "gateway" /\ <<"ORDER_CREATED", m>> \in audit]_allVars

\* An order the gateway has is recorded, or its request is still at work, or it
\* is in one of the states its loss can end in: invented answer not yet repaired,
\* request gone (ORDER_CREATING, or RESERVED after a recovery that did not find
\* it), leg released. A mandate that awaits payment always has some order.
OrdersAreAccountedFor ==
    \A m \in Rows :
        /\ m \in gateway =>
              \/ recorded[m] # "none"
              \/ mandates[m].status \in {"ORDER_CREATING", "RESERVED", "RELEASED"}
        /\ recorded[m] = "gateway" => m \in gateway
        /\ mandates[m].status \in AwaitsPayment \cup {"PAYMENT_CAPTURED", "PAYMENT_FAILED"}
              => recorded[m] # "none"

HasStatus(m, statuses) == m \in Rows /\ mandates[m].status \in statuses

\* What is paid is settled: captured, unless a failed attempt or a release had
\* ended the mandate before.
PaymentsAreSettled ==
    \A m \in Numbers :
        m \in paid ~> HasStatus(m, {"PAYMENT_CAPTURED"} \cup Unsuccessful)

\* A timed-out call whose order exists is repaired, as long as the mandate awaits
\* payment and somebody asks.
InventedOrdersAreRepaired ==
    \A m \in Numbers :
        (m \in gateway /\ recorded[m] = "invented" /\ HasStatus(m, {"ORDER_CREATED"}))
        ~> (recorded[m] = "gateway" \/ HasStatus(m, Unsuccessful))

\* With Overlaps = FALSE this is PaymentRail: what a request holds across its
\* call is what the row still holds when it writes.
RequestsAreUndisturbed == Spec

\* "Terminal States (no outgoing transitions): PAYMENT_CAPTURED, RELEASED"
\* (mandate_fsm.py).
TerminalStatesHaveNoExit ==
    [][\A m \in Rows : mandates[m].status \in Terminal =>
                           mandates'[m].status = mandates[m].status]_allVars

=============================================================================
