--------------------------- MODULE OrderFlow_proofs ---------------------------
(***************************************************************************)
(* Theorems about OrderFlow when recovery does not meet a request that is  *)
(* still at work: it is PaymentRail then, no order gets lost without a     *)
(* trace, and an order a payer can pay stays known.                        *)
(***************************************************************************)
EXTENDS OrderFlow, PaymentRail_proofs

OrdersTypeOK ==
    /\ gateway \subseteq Numbers
    /\ recorded \in [Numbers -> OrderId]
    /\ object \in [Numbers -> [status : MandateStatus \cup {"none"}, recorded : OrderId,
                               answer : OrderId]]
    /\ paid \subseteq Numbers

\* What is known of mandate m and its order. An order id is recorded exactly from
\* ORDER_CREATED on, so a request that calls the gateway holds no id before the
\* answer and overwrites none after it.
OrderFacts(m) ==
    /\ m \notin Rows => recorded[m] = "none"
    /\ m \in Rows =>
          /\ mandates[m].status \in {"RESERVED", "ORDER_CREATING"} => recorded[m] = "none"
          /\ m \in gateway =>
                \/ recorded[m] # "none"
                \/ mandates[m].status \in {"ORDER_CREATING", "RESERVED", "RELEASED"}
          /\ mandates[m].status \in AwaitsPayment \cup {"PAYMENT_CAPTURED", "PAYMENT_FAILED"}
                => recorded[m] # "none"
    /\ recorded[m] = "gateway" => m \in gateway /\ <<"ORDER_CREATED", m>> \in audit
    /\ handler[m] \in {"creating", "called"} => m \in Rows /\ mandates[m].status = "ORDER_CREATING"
    /\ handler[m] = "called" =>
          /\ object[m].status = "ORDER_CREATING" /\ object[m].recorded = "none"
          /\ object[m].answer \in {"gateway", "invented"}
          /\ object[m].answer = "gateway" => m \in gateway

OrdersInv ==
    /\ TypeOK
    /\ HandledAreStandalone
    /\ OrdersTypeOK
    /\ \A m \in Numbers : OrderFacts(m)

\* A step that has nothing to do with mandate k.
Undisturbed(k) ==
    /\ k \in Rows' <=> k \in Rows
    /\ k \in Rows => mandates'[k].status = mandates[k].status
    /\ handler'[k] = handler[k] /\ recorded'[k] = recorded[k] /\ object'[k] = object[k]
    /\ k \in gateway' <=> k \in gateway
    /\ audit \subseteq audit'

\* A row that a step leaves undisturbed has the facts it had.
LEMMA UndisturbedFacts ==
    ASSUME NEW k \in Numbers, OrderFacts(k), Undisturbed(k)
    PROVE  OrderFacts(k)'
BY DEF OrderFacts, Undisturbed

\* A step in which one row changes at most, and the other variables only there.
LEMMA OneRowStep ==
    ASSUME TypeOK, NEW m \in Rows, \A k \in Numbers : OrderFacts(k),
           \/ mandates' = mandates
           \/ \E row : RowBecomes(m, row),
           \A k \in Numbers \ {m} :
              /\ handler'[k] = handler[k] /\ recorded'[k] = recorded[k] /\ object'[k] = object[k]
              /\ k \in gateway' <=> k \in gateway,
           audit \subseteq audit',
           OrderFacts(m)'
    PROVE  (\A k \in Numbers : OrderFacts(k))'
<1>1. /\ Rows' = Rows
      /\ \A k \in Rows : k # m => mandates'[k] = mandates[k]
  BY DEF RowBecomes, Rows
<1>2. \A k \in Numbers \ {m} : Undisturbed(k)
  BY <1>1 DEF Undisturbed
<1>3. \A k \in Numbers \ {m} : OrderFacts(k)'
  BY <1>2, UndisturbedFacts
<1>4. QED
  BY <1>3

\* What a request holds is what the row holds, so its write is the move that
\* PaymentRail makes; every other step is one of PaymentRail, or leaves it alone.
LEMMA OrdersStepIsRailStep ==
    ASSUME ~Overlaps, OrdersInv, [NextOrders]_allVars
    PROVE  [Next]_vars
<1>1. ASSUME NEW m \in Rows, RecordOrder(m) PROVE FinishOrder(m)
  <2>1. /\ object[m].status = "ORDER_CREATING" /\ mandates[m].status = "ORDER_CREATING"
    BY <1>1, RowFacts DEF OrdersInv, OrderFacts, RecordOrder, Numbers
  <2>2. QED
    BY <1>1, <2>1 DEF RecordOrder, FinishOrder, Changed
<1>2. ASSUME NEW m \in Rows, PaymentReported(m) PROVE Webhooks
  BY <1>2, RowFacts DEF PaymentReported, Webhooks, OrdersInv
<1>3. ASSUME NEW m \in Rows, AttemptReported(m) PROVE Webhooks
  BY <1>3 DEF AttemptReported, Webhooks
<1>4. CASE Unrelated
  BY <1>4 DEF Unrelated, Next, OrderHandling, PlanExecution
<1>5. ASSUME NEW m \in Rows,
             \/ CallLiveGateway(m) \/ RecordOrder(m) \/ RequestFails(m) \/ MockAgentOrder(m)
             \/ OperatorFinds(m) \/ OperatorFindsNothing(m)
      PROVE  OrderHandling
  BY <1>1, <1>5
  DEF OrderHandling, CallLiveGateway, RequestFails, MockAgentOrder, OperatorFinds, OperatorFindsNothing
<1>6. ASSUME NEW m \in Rows, OrderLeg(m) \/ GiveUpLeg(m) PROVE PlanExecution
  BY <1>6 DEF PlanExecution, OrderLeg, GiveUpLeg
<1>7. ASSUME NEW m \in Rows, Pay(m) PROVE UNCHANGED vars
  BY <1>7 DEF Pay
<1>8. ASSUME ProcessDies \/ ProcessStarts PROVE OrderHandling
  BY <1>8 DEF ProcessDies, ProcessStarts, OrderHandling
<1>9. CASE UNCHANGED allVars
  BY <1>9 DEF allVars
<1>10. QED
  BY <1>2, <1>3, <1>4, <1>5, <1>6, <1>7, <1>8, <1>9 DEF NextOrders, Next

\* A step keeps the types.
LEMMA OrdersTypeStep ==
    ASSUME OrdersInv, [NextOrders]_allVars
    PROVE  OrdersTypeOK'
<1>0. /\ OrdersTypeOK
      /\ \A m \in Rows : m \in Numbers /\ mandates[m].status \in MandateStatus
      /\ NoObject \in [status : MandateStatus \cup {"none"}, recorded : OrderId, answer : OrderId]
  BY RowFacts DEF OrdersInv, Numbers, NoObject, OrderId
<1>1. ASSUME UNCHANGED orderVars PROVE OrdersTypeOK'
  BY <1>0, <1>1 DEF orderVars, OrdersTypeOK
<1>2. ASSUME NEW m \in Rows, CallLiveGateway(m) PROVE OrdersTypeOK'
  <2>1. PICK id \in OrderId :
           /\ CreateOrder(m, id)
           /\ object' = [object EXCEPT ![m] = [status   |-> mandates[m].status,
                                              recorded |-> recorded[m],
                                              answer   |-> id]]
    BY <1>2 DEF CallLiveGateway
  <2>2. gateway' \subseteq Numbers
    BY <1>0, <2>1 DEF CreateOrder, OrdersTypeOK
  <2>3. recorded[m] \in OrderId
    BY <1>0 DEF OrdersTypeOK
  <2>4. recorded' = recorded /\ paid' = paid
    BY <1>2 DEF CallLiveGateway
  <2>5. QED
    BY <1>0, <2>1, <2>2, <2>3, <2>4 DEF OrdersTypeOK
<1>3. ASSUME NEW m \in Rows, RecordOrder(m) PROVE OrdersTypeOK'
  <2>1. \A held, answer, now \in OrderId : Changed(held, answer, now) \in OrderId
    BY DEF Changed
  <2>2. Changed(object[m].recorded, object[m].answer, recorded[m]) \in OrderId
    BY <1>0, <2>1 DEF OrdersTypeOK
  <2>3. QED
    BY <1>0, <1>3, <2>2 DEF RecordOrder, WithAnswer, OrdersTypeOK
<1>4. ASSUME NEW m \in Rows, RequestFails(m) PROVE OrdersTypeOK'
  BY <1>0, <1>4 DEF RequestFails, OrdersTypeOK
<1>5. ASSUME NEW m \in Rows, MockAgentOrder(m) \/ OperatorFinds(m) PROVE OrdersTypeOK'
  BY <1>0, <1>5 DEF MockAgentOrder, OperatorFinds, WithAnswer, OrdersTypeOK, OrderId
<1>6. ASSUME NEW m \in Rows, OrderLeg(m) PROVE OrdersTypeOK'
  BY <1>0, <1>6 DEF OrderLeg, CreateOrder, WithAnswer, OrdersTypeOK
<1>7. ASSUME NEW m \in Rows, GiveUpLeg(m) PROVE OrdersTypeOK'
  BY <1>0, <1>7 DEF GiveUpLeg, OrdersTypeOK
<1>8. ASSUME NEW m \in Rows, Pay(m) PROVE OrdersTypeOK'
  BY <1>0, <1>8 DEF Pay, OrdersTypeOK
<1>9. ASSUME ProcessDies PROVE OrdersTypeOK'
  BY <1>0, <1>9 DEF ProcessDies, OrdersTypeOK
<1>10. QED
  BY <1>1, <1>2, <1>3, <1>4, <1>5, <1>6, <1>7, <1>8, <1>9
  DEF NextOrders, Unrelated, OperatorFindsNothing, PaymentReported, AttemptReported, ProcessStarts,
      allVars

\* Every step leaves each mandate accounted for.
LEMMA OrderFactsStep ==
    ASSUME ~Overlaps, OrdersInv, [NextOrders]_allVars
    PROVE  (\A m \in Numbers : OrderFacts(m))'
<1> DEFINE Goal == (\A m \in Numbers : OrderFacts(m))'
<1>0. /\ TypeOK /\ OrdersTypeOK /\ HandledAreStandalone
      /\ handler \in [Numbers -> HandlerPosition]
      /\ Len(mandates) \in Nat
      /\ \A m \in Numbers : OrderFacts(m)
      /\ \A m \in Rows : m \in Numbers /\ mandates[m].status \in MandateStatus
  BY RowFacts DEF OrdersInv, TypeOK, Numbers
<1>1. ASSUME NEW m \in Rows, NEW status, RowBecomes(m, RowWithStatus(m, status))
      PROVE  m \in Rows' /\ mandates'[m].status = status
  BY <1>0, <1>1, RowFacts DEF RowBecomes, RowWithStatus, MandateRow, Rows
<1>2. ASSUME NEW m \in Rows, NEW status, NEW captured,
             RowBecomes(m, RowWithOutcome(m, status, captured))
      PROVE  m \in Rows' /\ mandates'[m].status = status
  BY <1>0, <1>2, RowFacts DEF RowBecomes, RowWithOutcome, MandateRow, Rows
<1>3. ASSUME \A m \in Numbers : Undisturbed(m) PROVE Goal
  BY <1>0, <1>3, UndisturbedFacts
<1>4. ASSUME mandates' = mandates, handler' = handler, UNCHANGED orderVars, audit \subseteq audit'
      PROVE  Goal
  BY <1>3, <1>4 DEF Undisturbed, orderVars, Rows
<1>5. ASSUME Insertion, UNCHANGED orderVars, audit \subseteq audit',
             \A m \in Numbers : handler'[m] \in {"creating", "called"} => handler'[m] = handler[m]
      PROVE  Goal
  <2> SUFFICES ASSUME NEW m \in Numbers PROVE OrderFacts(m)'
    OBVIOUS
  <2>1. CASE m \in Rows
    <3>1. m \in Rows' /\ mandates'[m] = mandates[m]
      BY <1>0, <1>5, <2>1, LenProperties DEF Insertion, Rows
    <3>2. QED
      BY <1>0, <1>5, <2>1, <3>1 DEF OrderFacts, orderVars
  <2>2. CASE m \notin Rows
    <3>1. m \in Rows' => mandates'[m].status = "RESERVED"
      BY <1>5, <2>2 DEF Insertion
    <3>2. recorded'[m] = "none" /\ handler'[m] \notin {"creating", "called"}
      BY <1>0, <1>5, <2>2 DEF OrderFacts, orderVars
    <3>3. QED
      BY <3>1, <3>2 DEF OrderFacts, AwaitsPayment
  <2>3. QED
    BY <2>1, <2>2
<1> HIDE DEF Goal
<1>6. CASE Unrelated
  <2>1. UNCHANGED orderVars /\ audit \subseteq audit'
    BY <1>6
    DEF Unrelated, Authorization, RegisterIntent, AuthorizeMandate, AuthorizeMandateRejected,
        AuthorizePlan, AuthorizePlanRejected, BeginOrder, SyncPlan, ExpireIntent
  <2>2. ASSUME NEW i \in Intents, NEW merchant \in Merchants, NEW key \in Keys,
               NEW total \in CartTotals, NEW ok, NEW caller \in {"reserved", "agent"},
               AuthorizeMandate(i, merchant, key, total, ok, caller)
        PROVE  Goal
    <3>1. \A m \in Numbers : handler'[m] \in {"creating", "called"} => handler'[m] = handler[m]
      BY <1>0, <2>2 DEF AuthorizeMandate
    <3>2. QED
      BY <1>0, <1>5, <2>1, <2>2, <3>1, InsertionSteps
  <2>3. ASSUME NEW i \in Intents, NEW p \in Plans, NEW legs \in Legs, NEW total,
               AuthorizePlan(i, p, legs, total)
        PROVE  Goal
    BY <1>0, <1>5, <2>1, <2>3, InsertionSteps DEF AuthorizePlan
  <2>4. CASE Authorization
    BY <1>4, <2>1, <2>2, <2>3, <2>4
    DEF Authorization, RegisterIntent, AuthorizeMandateRejected, AuthorizePlanRejected, Goal
  <2>5. ASSUME NEW m \in Rows, BeginOrder(m) PROVE Goal
    <3>1. RowBecomes(m, RowWithStatus(m, "ORDER_CREATING"))
      BY <1>0, <2>5, StatusSteps
    <3>2. m \in Rows' /\ mandates'[m].status = "ORDER_CREATING"
      BY <1>1, <3>1
    <3>3. handler' = [handler EXCEPT ![m] = "creating"]
          /\ mandates[m].status \in {"RESERVED", "ORDER_CREATING"}
      BY <1>0, <2>5
      DEF BeginOrder, TransitionLegal, CanTransition, AllowedTransitions
    <3>4. OrderFacts(m)'
      BY <1>0, <2>1, <3>2, <3>3 DEF OrderFacts, orderVars, AwaitsPayment
    <3>5. QED
      BY <1>0, <2>1, <3>1, <3>3, <3>4, OneRowStep DEF orderVars, Goal
  <2>6. QED
    BY <1>4, <1>6, <2>1, <2>4, <2>5 DEF Unrelated, SyncPlan, ExpireIntent, Goal
<1>7. ASSUME NEW m \in Rows, CallLiveGateway(m) PROVE Goal
  <2>1. PICK id \in OrderId :
           /\ CreateOrder(m, id)
           /\ object' = [object EXCEPT ![m] = [status   |-> mandates[m].status,
                                              recorded |-> recorded[m],
                                              answer   |-> id]]
    BY <1>7 DEF CallLiveGateway
  <2>2. /\ mandates' = mandates /\ audit' = audit /\ recorded' = recorded
        /\ handler[m] = "creating" /\ handler' = [handler EXCEPT ![m] = "called"]
    BY <1>7 DEF CallLiveGateway, CallGateway
  <2>3. /\ \A k \in Numbers \ {m} : k \in gateway' <=> k \in gateway
        /\ gateway \subseteq gateway' /\ id \in {"gateway", "invented"}
        /\ id = "gateway" => m \in gateway'
    BY <2>1 DEF CreateOrder
  <2>4. mandates[m].status = "ORDER_CREATING" /\ recorded[m] = "none"
    BY <1>0, <2>2 DEF OrderFacts
  <2>5. /\ object'[m] = [status |-> "ORDER_CREATING", recorded |-> "none", answer |-> id]
        /\ \A k \in Numbers \ {m} : object'[k] = object[k]
    BY <1>0, <2>1, <2>4 DEF OrdersTypeOK
  <2>6. OrderFacts(m)'
    BY <1>0, <2>2, <2>3, <2>4, <2>5 DEF OrderFacts, Rows, AwaitsPayment
  <2>7. QED
    BY <1>0, <2>2, <2>3, <2>5, <2>6, OneRowStep DEF Goal
<1>8. ASSUME NEW m \in Rows, RecordOrder(m) PROVE Goal
  <2>1. /\ object[m].status = "ORDER_CREATING" /\ mandates[m].status = "ORDER_CREATING"
        /\ object[m].recorded = "none" /\ recorded[m] = "none"
        /\ object[m].answer \in {"gateway", "invented"}
        /\ object[m].answer = "gateway" => m \in gateway
    BY <1>0, <1>8 DEF OrderFacts, RecordOrder
  <2>2. /\ mandates' = SetStatus(m, "ORDER_CREATED")
        /\ recorded' = [recorded EXCEPT ![m] = object[m].answer]
        /\ audit' = audit \cup {<<"ORDER_CREATED", m>>}
        /\ handler' = [handler EXCEPT ![m] = "none"]
        /\ object' = [object EXCEPT ![m] = NoObject] /\ gateway' = gateway
    BY <1>8, <2>1 DEF RecordOrder, Changed, WithAnswer
  <2>3. FinishOrder(m)
    BY <1>8, <2>1, <2>2 DEF RecordOrder, FinishOrder
  <2>4. RowBecomes(m, RowWithStatus(m, "ORDER_CREATED"))
    BY <1>0, <2>3, StatusSteps
  <2>5. m \in Rows' /\ mandates'[m].status = "ORDER_CREATED"
    BY <1>1, <2>4
  <2>6. recorded'[m] = object[m].answer /\ handler'[m] = "none"
    BY <1>0, <2>2 DEF OrdersTypeOK
  <2>7. OrderFacts(m)'
    BY <2>1, <2>2, <2>5, <2>6 DEF OrderFacts
  <2>8. QED
    BY <1>0, <2>2, <2>4, <2>7, OneRowStep DEF OrdersTypeOK, Goal
<1>9. ASSUME NEW m \in Rows, RequestFails(m) PROVE Goal
  <2>1. /\ mandates' = mandates /\ audit' = audit /\ recorded' = recorded /\ gateway' = gateway
        /\ handler' = [handler EXCEPT ![m] = "none"] /\ object' = [object EXCEPT ![m] = NoObject]
    BY <1>9 DEF RequestFails, HandlerFails
  <2>2. OrderFacts(m)'
    BY <1>0, <2>1 DEF OrderFacts, Rows
  <2>3. QED
    BY <1>0, <2>1, <2>2, OneRowStep DEF OrdersTypeOK, Goal
\* The four ways an order is recorded outside the request that was to create it.
<1>10. ASSUME NEW m \in Rows, NEW id \in {"gateway", "invented"},
              RowBecomes(m, RowWithStatus(m, "ORDER_CREATED")),
              recorded' = [recorded EXCEPT ![m] = id],
              id = "gateway" => m \in gateway' /\ <<"ORDER_CREATED", m>> \in audit',
              \A k \in Numbers \ {m} : /\ handler'[k] = handler[k]
                                       /\ k \in gateway' <=> k \in gateway,
              handler'[m] = "none", audit \subseteq audit', object' = object
       PROVE  Goal
  <2>1. m \in Rows' /\ mandates'[m].status = "ORDER_CREATED" /\ recorded'[m] = id
    BY <1>0, <1>1, <1>10 DEF OrdersTypeOK
  <2>2. OrderFacts(m)'
    BY <1>10, <2>1 DEF OrderFacts
  <2>3. QED
    BY <1>0, <1>10, <2>2, OneRowStep DEF OrdersTypeOK, Goal
<1>11. ASSUME NEW m \in Rows, MockAgentOrder(m) PROVE Goal
  <2>1. RowBecomes(m, RowWithStatus(m, "ORDER_CREATED"))
    BY <1>0, <1>11, StatusSteps DEF MockAgentOrder
  <2>2. /\ handler' = [handler EXCEPT ![m] = "none"] /\ audit' = audit
        /\ recorded' = [recorded EXCEPT ![m] = "invented"]
        /\ gateway' = gateway /\ object' = object
    BY <1>11 DEF MockAgentOrder, AgentOrder, WithAnswer
  <2>3. QED
    BY <1>0, <1>10, <2>1, <2>2
<1>12. ASSUME NEW m \in Rows, OperatorFinds(m) PROVE Goal
  <2>1. RowBecomes(m, RowWithStatus(m, "ORDER_CREATED"))
    BY <1>0, <1>12, StatusSteps DEF OperatorFinds
  <2>2. /\ handler' = handler /\ handler[m] = "none"
        /\ audit' = audit \cup {<<"ORDER_CREATED", m>>}
        /\ recorded' = [recorded EXCEPT ![m] = "gateway"]
        /\ m \in gateway /\ gateway' = gateway /\ object' = object
    BY <1>12 DEF OperatorFinds, MayRecover, FindsOrder, ReconcileFound, WithAnswer
  <2>3. QED
    BY <1>0, <1>10, <2>1, <2>2
<1>13. ASSUME NEW m \in Rows, OrderLeg(m) PROVE Goal
  <2>1. RowBecomes(m, RowWithStatus(m, "ORDER_CREATED"))
    BY <1>0, <1>13, StatusSteps DEF OrderLeg
  <2>2. PICK id \in OrderId : CreateOrder(m, id) /\ recorded' = [recorded EXCEPT ![m] = id]
    BY <1>13 DEF OrderLeg, WithAnswer
  <2>3. /\ id \in {"gateway", "invented"} /\ (id = "gateway" => m \in gateway')
        /\ \A k \in Numbers \ {m} : k \in gateway' <=> k \in gateway
    BY <2>2 DEF CreateOrder
  <2>4. /\ handler' = handler /\ handler[m] = "none" /\ object' = object
        /\ audit' = audit \cup {<<"ORDER_CREATED", m>>}
    BY <1>0, <1>13 DEF OrderLeg, ExecuteLeg, HandledAreStandalone, Numbers
  <2>5. QED
    BY <1>10, <2>1, <2>2, <2>3, <2>4
<1>14. ASSUME NEW m \in Rows, OperatorFindsNothing(m) PROVE Goal
  <2>1. RowBecomes(m, RowWithStatus(m, "RESERVED"))
    BY <1>0, <1>14, StatusSteps DEF OperatorFindsNothing
  <2>2. m \in Rows' /\ mandates'[m].status = "RESERVED"
    BY <1>1, <2>1
  <2>3. /\ handler' = handler /\ handler[m] = "none" /\ audit' = audit /\ UNCHANGED orderVars
        /\ mandates[m].status \in {"RESERVED", "ORDER_CREATING"}
    BY <1>0, <1>14
    DEF OperatorFindsNothing, MayRecover, ReconcileNotFound, TransitionLegal, CanTransition,
        AllowedTransitions
  <2>4. OrderFacts(m)'
    BY <1>0, <2>2, <2>3 DEF OrderFacts, orderVars, AwaitsPayment
  <2>5. QED
    BY <1>0, <2>1, <2>3, <2>4, OneRowStep DEF orderVars, Goal
<1>15. ASSUME NEW m \in Rows, GiveUpLeg(m) PROVE Goal
  <2>1. RowBecomes(m, RowWithOutcome(m, ReleasedStatus(m), mandates[m].captured))
    BY <1>0, <1>15, OutcomeSteps DEF GiveUpLeg
  <2>2. m \in Rows' /\ mandates'[m].status = ReleasedStatus(m)
    BY <1>2, <2>1
  <2>3. /\ handler' = handler /\ handler[m] = "none" /\ audit \subseteq audit'
        /\ recorded' = recorded /\ object' = object
        /\ gateway' \in {gateway, gateway \cup {m}}
        /\ gateway' # gateway => mandates[m].status \in HoldsBudget
    BY <1>0, <1>15
    DEF GiveUpLeg, ReleaseLeg, HandledAreStandalone, Numbers, HoldsBudget, InFlight
  <2>4. OrderFacts(m)'
    BY <1>0, <2>2, <2>3 DEF OrderFacts, ReleasedStatus, AwaitsPayment
  <2>5. QED
    BY <1>0, <2>1, <2>3, <2>4, OneRowStep DEF Goal
<1>16. ASSUME NEW m \in Rows, NEW status \in {"PAYMENT_CAPTURED", "PAYMENT_FAILED"}, NEW captured,
              RowBecomes(m, RowWithOutcome(m, status, captured)),
              mandates[m].status \in AwaitsPayment, handler' = handler, UNCHANGED orderVars,
              audit \subseteq audit'
       PROVE  Goal
  <2>1. m \in Rows' /\ mandates'[m].status = status
    BY <1>2, <1>16
  <2>2. /\ recorded[m] # "none" /\ handler[m] \notin {"creating", "called"}
    BY <1>0, <1>16 DEF OrderFacts, AwaitsPayment
  <2>3. OrderFacts(m)'
    BY <1>0, <1>16, <2>1, <2>2 DEF OrderFacts, orderVars
  <2>4. QED
    BY <1>0, <1>16, <2>3, OneRowStep DEF orderVars, Goal
<1>17. ASSUME NEW m \in Rows, PaymentReported(m) \/ AttemptReported(m) PROVE Goal
  <2>1. mandates[m].amount \in CartTotals
    BY <1>0, RowFacts
  <2>2. handler' = handler /\ UNCHANGED orderVars /\ audit \subseteq audit'
    BY <1>17 DEF PaymentReported, AttemptReported, CaptureWebhook, FailWebhook
  <2>3. Capture(m) \/ Failure(m)
    BY <1>0, <1>17, <2>1, WebhookSteps DEF PaymentReported, AttemptReported
  <2>4. QED
    BY <1>16, <2>2, <2>3 DEF Capture, Failure
<1>18. ASSUME NEW m \in Rows, Pay(m) PROVE Goal
  BY <1>3, <1>18 DEF Pay, vars, Undisturbed, Rows
<1>19. ASSUME ProcessDies PROVE Goal
  <2>1. /\ mandates' = mandates /\ audit' = audit /\ recorded' = recorded /\ gateway' = gateway
        /\ \A m \in Numbers : handler'[m] = "none"
    BY <1>19 DEF ProcessDies, Crash, Numbers
  <2>2. QED
    BY <1>0, <2>1 DEF OrderFacts, Rows, Goal
<1>20. ASSUME ProcessStarts PROVE Goal
  <2>1. StartupReconcile /\ UNCHANGED orderVars
    BY <1>20 DEF ProcessStarts
  <2>2. /\ handler' = handler /\ audit' = audit /\ Rows' = Rows
        /\ \A m \in Rows : handler[m] = "none"
        /\ \A m \in Rows : mandates'[m] = IF mandates[m].status = "ORDER_CREATING"
                                           THEN RowWithStatus(m, "RESERVED") ELSE mandates[m]
    BY <1>0, <2>1 DEF StartupReconcile, RowWithStatus, Rows
  <2>3. \A m \in Rows : mandates'[m].status = IF mandates[m].status = "ORDER_CREATING"
                                               THEN "RESERVED" ELSE mandates[m].status
    BY <1>0, <2>2, RowFacts DEF RowWithStatus, MandateRow
  <2>4. ASSUME NEW m \in Numbers PROVE OrderFacts(m)'
    BY <1>0, <2>1, <2>2, <2>3 DEF OrderFacts, orderVars, AwaitsPayment
  <2>5. QED
    BY <2>4 DEF Goal
<1>21. CASE UNCHANGED allVars
  BY <1>4, <1>21 DEF allVars, vars, orderVars, Goal
<1>22. QED
  BY <1>6, <1>7, <1>8, <1>9, <1>11, <1>12, <1>13, <1>14, <1>15, <1>17, <1>18, <1>19, <1>20, <1>21
  DEF NextOrders, Goal

\* The strengthened invariant.
LEMMA OrdersInvariant ==
    ASSUME ~Overlaps
    PROVE  SpecOrders => []OrdersInv
<1>1. InitOrders => OrdersInv
  <2> SUFFICES ASSUME InitOrders PROVE OrdersInv
    OBVIOUS
  <2>1. Init
    BY DEF InitOrders
  <2>2. TypeOK
    BY <2>1, InitTypeOK
  <2>3. HandledAreStandalone
    BY <2>1 DEF Init, HandledAreStandalone, Rows
  <2>4. OrdersTypeOK
    BY DEF InitOrders, OrdersTypeOK, OrderId, NoObject
  <2>5. \A m \in Numbers : OrderFacts(m)
    BY <2>1 DEF InitOrders, Init, OrderFacts, Numbers, Rows
  <2>6. QED
    BY <2>2, <2>3, <2>4, <2>5 DEF OrdersInv
<1>2. OrdersInv /\ [NextOrders]_allVars => OrdersInv'
  <2> SUFFICES ASSUME OrdersInv, [NextOrders]_allVars PROVE OrdersInv'
    OBVIOUS
  <2>1. [Next]_vars
    BY OrdersStepIsRailStep
  <2>2. TypeOK' /\ HandledAreStandalone'
    BY <2>1, TypeOKStep, HandledStep DEF OrdersInv
  <2>3. OrdersTypeOK'
    BY OrdersTypeStep
  <2>4. (\A m \in Numbers : OrderFacts(m))'
    BY OrderFactsStep
  <2>5. QED
    BY <2>2, <2>3, <2>4 DEF OrdersInv
<1>3. QED
  BY <1>1, <1>2, PTL DEF SpecOrders

\* When recovery meets no request at work, the rail with its gateway orders is
\* PaymentRail: what a request holds across its call is what the row still holds
\* when it writes.
THEOREM OrdersKeepRail ==
    ASSUME ~Overlaps
    PROVE  SpecOrders => RequestsAreUndisturbed
<1>1. InitOrders => Init
  BY DEF InitOrders
<1>2. OrdersInv /\ [NextOrders]_allVars => [Next]_vars
  BY OrdersStepIsRailStep
<1>3. QED
  BY <1>1, <1>2, OrdersInvariant, PTL DEF SpecOrders, Spec, RequestsAreUndisturbed

\* No order the gateway has is lost without a trace in its mandate, and a mandate
\* that awaits payment has an order.
THEOREM OrdersAccounted ==
    ASSUME ~Overlaps
    PROVE  SpecOrders => []OrdersAreAccountedFor
<1>1. OrdersInv => OrdersAreAccountedFor
  BY RowFacts DEF OrdersInv, OrderFacts, OrdersAreAccountedFor, Numbers
<1>2. QED
  BY <1>1, OrdersInvariant, PTL

\* An order id that can be paid is never overwritten, and the ledger knows of it.
THEOREM OrdersStayKnown ==
    ASSUME ~Overlaps
    PROVE  SpecOrders => KnownOrdersStayKnown
<1> DEFINE Known == \A m \in Rows : recorded[m] = "gateway" =>
                       recorded'[m] = "gateway" /\ <<"ORDER_CREATED", m>> \in audit
<1>1. OrdersInv /\ [NextOrders]_allVars => [Known]_allVars
  <2> SUFFICES ASSUME OrdersInv, [NextOrders]_allVars PROVE Known
    OBVIOUS
  <2>0. /\ TypeOK /\ OrdersTypeOK /\ \A m \in Numbers : OrderFacts(m)
        /\ \A m \in Rows : m \in Numbers
    BY RowFacts DEF OrdersInv, Numbers
  <2>1. SUFFICES ASSUME NEW m \in Rows, recorded[m] = "gateway" PROVE recorded'[m] = "gateway"
    BY <2>0 DEF OrderFacts
  <2>2. mandates[m].status \notin {"RESERVED", "ORDER_CREATING"} /\ handler[m] # "called"
    BY <2>0, <2>1 DEF OrderFacts
  <2>3. ASSUME NEW k \in Rows, NEW id, recorded' = [recorded EXCEPT ![k] = id],
               k = m => id = "gateway"
        PROVE  recorded'[m] = "gateway"
    BY <2>0, <2>1, <2>3 DEF OrdersTypeOK
  <2>4. ASSUME NEW k \in Rows, RecordOrder(k) PROVE recorded'[m] = "gateway"
    BY <2>2, <2>3, <2>4 DEF RecordOrder, WithAnswer
  <2>5. ASSUME NEW k \in Rows, MockAgentOrder(k) PROVE recorded'[m] = "gateway"
    <3>1. mandates[k].status \in {"RESERVED", "ORDER_CREATING"}
      BY <2>5
      DEF MockAgentOrder, AgentOrder, TransitionLegal, CanTransition, AllowedTransitions
    <3>2. QED
      BY <2>2, <2>3, <2>5, <3>1 DEF MockAgentOrder, WithAnswer
  <2>6. ASSUME NEW k \in Rows, OperatorFinds(k) PROVE recorded'[m] = "gateway"
    BY <2>3, <2>6 DEF OperatorFinds, WithAnswer
  <2>7. ASSUME NEW k \in Rows, OrderLeg(k) PROVE recorded'[m] = "gateway"
    BY <2>2, <2>3, <2>7 DEF OrderLeg, ExecuteLeg, WithAnswer
  <2>8. ASSUME recorded' = recorded PROVE recorded'[m] = "gateway"
    BY <2>1, <2>8
  <2>9. QED
    BY <2>4, <2>5, <2>6, <2>7, <2>8
    DEF NextOrders, Unrelated, CallLiveGateway, RequestFails, OperatorFindsNothing, GiveUpLeg, Pay,
        PaymentReported, AttemptReported, ProcessDies, ProcessStarts, allVars, orderVars
<1>2. QED
  BY <1>1, OrdersInvariant, PTL DEF SpecOrders, KnownOrdersStayKnown

\* The claim of mandate_fsm.py that TLC refutes with Overlaps holds without them:
\* no recovery, webhook or answer takes a captured or released mandate further.
THEOREM TerminalIsFinal ==
    ASSUME ~Overlaps
    PROVE  SpecOrders => TerminalStatesHaveNoExit
<1> DEFINE Final == \A m \in Rows : mandates[m].status \in Terminal =>
                       mandates'[m].status = mandates[m].status
<1>1. ASSUME TypeOK, [Next]_vars PROVE Final
  <2>1. /\ \A m \in Rows : mandates[m].status \in {"RESERVED", "ORDER_CREATING"} \cup AwaitsPayment
             => mandates[m].status \notin Terminal
    BY TerminalStatuses DEF AwaitsPayment
  <2>2. QED
    BY <1>1, <2>1, MandateSteps, TerminalStatuses
    DEF Insertion, StartupReset, StatusChange, Capture, Failure, Release, RowBecomes, HoldsBudget,
        InFlight
<1>2. OrdersInv /\ [NextOrders]_allVars => [Final]_allVars
  BY <1>1, OrdersStepIsRailStep DEF OrdersInv
<1>3. QED
  BY <1>2, OrdersInvariant, PTL DEF SpecOrders, TerminalStatesHaveNoExit

=============================================================================
