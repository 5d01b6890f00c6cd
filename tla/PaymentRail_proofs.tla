------------------------- MODULE PaymentRail_proofs -------------------------
(***************************************************************************)
(* Theorems about PaymentRail for every set of intents, merchants, plans,  *)
(* keys and events, every cap and every bound, checked by TLAPS.           *)
(***************************************************************************)
EXTENDS PaymentRail, SequenceTheorems, FiniteSetTheorems, TLAPS

(***************************************************************************)
(* Lemmas about the operators the model is built from.                     *)
(***************************************************************************)
\* The two final statuses of mandate_fsm.py.
LEMMA TerminalStatuses == Terminal = {"PAYMENT_CAPTURED", "RELEASED"}
BY DEF Terminal, CanTransition, AllowedTransitions, MandateStatus

\* The only statuses a failed payment can arrive in.
LEMMA FailureFollowsOrder ==
    ASSUME NEW status \in MandateStatus, CanTransition(status, "PAYMENT_FAILED")
    PROVE  status \in AwaitsPayment
BY DEF CanTransition, AllowedTransitions, MandateStatus, AwaitsPayment

\* The moves the handlers make are moves of the table.
LEMMA HandlerMoves ==
    /\ \A s \in MandateStatus : WithinTwoMoves(s, s)
    /\ \A s, t \in MandateStatus : TransitionLegal(s, t) => WithinTwoMoves(s, t)
    /\ WithinTwoMoves("RESERVED", "ORDER_CREATED")
    /\ \A s \in HoldsBudget : WithinTwoMoves(s, "RELEASED")
    /\ \A s \in AwaitsPayment : WithinTwoMoves(s, "PAYMENT_CAPTURED")
    /\ WithinTwoMoves("ORDER_CREATING", "RESERVED")
BY DEF WithinTwoMoves, TransitionLegal, CanTransition, AllowedTransitions, MandateStatus,
       HoldsBudget, InFlight, AwaitsPayment

\* Updating one row of the mandate table.
LEMMA RowUpdate ==
    ASSUME NEW rows \in Seq(MandateRow), NEW m \in 1 .. Len(rows), NEW row \in MandateRow
    PROVE  LET new == [rows EXCEPT ![m] = row] IN
           /\ new \in Seq(MandateRow)
           /\ Len(new) = Len(rows)
           /\ \A k \in 1 .. Len(rows) : new[k] = IF k = m THEN row ELSE rows[k]
BY ExceptSeq

\* What SetStatus does to the table.
LEMMA StatusUpdate ==
    ASSUME TypeOK, NEW m \in Rows, NEW status \in MandateStatus
    PROVE  LET new == SetStatus(m, status) IN
           /\ new \in Seq(MandateRow)
           /\ Len(new) = Len(mandates)
           /\ \A k \in Rows :
                new[k] = IF k = m THEN [mandates[m] EXCEPT !.status = status] ELSE mandates[k]
<1> DEFINE row == [mandates[m] EXCEPT !.status = status]
<1>1. mandates \in Seq(MandateRow)
  BY DEF TypeOK
<1>2. mandates[m] \in MandateRow
  BY <1>1, ElementOfSeq DEF Rows
<1>3. row \in MandateRow
  BY <1>2 DEF MandateRow
<1>4. SetStatus(m, status) = [mandates EXCEPT ![m] = row]
  BY DEF SetStatus
<1> HIDE DEF row
<1>5. QED
  BY <1>1, <1>3, <1>4, RowUpdate DEF Rows, row

\* Every status a plan is given is a plan status.
LEMMA DerivedStatusType ==
    ASSUME NEW rows, NEW p
    PROVE  DerivedStatus(rows, p) \in PlanStatus
BY DEF DerivedStatus, PlanStatus

\* Synchronising a plan keeps the type of the plans.
LEMMA SyncedType ==
    ASSUME TypeOK, NEW rows, NEW p
    PROVE  Synced(rows, p) \subseteq [Plans -> PlanRow]
<1>1. \A q \in Plans : plans[q] \in PlanRow
  BY DEF TypeOK
<1>2. SeenStatus(rows, p) \subseteq PlanStatus
  BY DerivedStatusType DEF SeenStatus, PlanStatus
<1>3. ASSUME NEW status \in PlanStatus
      PROVE  WithStatus(p, status) \in [Plans -> PlanRow]
  <2>1. \A q \in Plans : [plans[q] EXCEPT !.status = status] \in PlanRow
    BY <1>1 DEF PlanRow
  <2>2. QED
    BY <1>1, <2>1 DEF WithStatus
<1>4. QED
  BY <1>2, <1>3 DEF Synced, Stored, TypeOK

\* So does a synchronisation that comes late.
LEMMA LateSyncedType ==
    ASSUME TypeOK, NEW rows, NEW p, NEW changed
    PROVE  LateSynced(rows, p, changed) \subseteq [Plans -> PlanRow]
<1>1. \A q \in Plans : plans[q] \in PlanRow
  BY DEF TypeOK
<1>2. ASSUME NEW status \in PlanStatus
      PROVE  WithStatus(p, status) \in [Plans -> PlanRow]
  <2>1. \A q \in Plans : [plans[q] EXCEPT !.status = status] \in PlanRow
    BY <1>1 DEF PlanRow
  <2>2. QED
    BY <1>1, <2>1 DEF WithStatus
<1>3. QED
  BY <1>2, DerivedStatusType DEF LateSynced, Stored, TypeOK

\* What a charge and a refund make of a row of the registry.
LEMMA ChargedRow ==
    ASSUME NEW row \in IntentRow, NEW i \in Intents, NEW total \in Nat
    PROVE  /\ Charged(row, i, total) \in IntentRow
           /\ Charged(row, i, total).reserved = row.reserved + total
           /\ Charged(row, i, total).captured = row.captured
           /\ Charged(row, i, total).consumed = row.consumed + 1
           /\ Charged(row, i, total).status =
                IF row.consumed + 1 >= MaxTransactions[i] THEN "EXHAUSTED" ELSE row.status
BY DEF Charged, IntentRow

\* A refund keeps the type of an intent's row.
LEMMA RefundedRow ==
    ASSUME NEW row \in IntentRow, NEW paise \in Nat
    PROVE  /\ Refunded(row, paise) \in IntentRow
           /\ Refunded(row, paise).reserved =
                IF row.reserved >= paise THEN row.reserved - paise ELSE 0
           /\ Refunded(row, paise).captured = row.captured
           /\ Refunded(row, paise).consumed = row.consumed
           /\ Refunded(row, paise).status = row.status
BY DEF Refunded, IntentRow

\* Registering, charging and refunding give rows of the registry.
LEMMA RegistryRows ==
    ASSUME TypeOK, NEW i \in Intents
    PROVE  /\ registry[i] \in IntentRow
           /\ Registered(i) \in IntentRow
BY DEF TypeOK, Registered, FreshRow, IntentRow

\* A leg of a new plan, or a new standalone mandate, is a row of the table.
LEMMA NewMandateType ==
    ASSUME NEW i \in Intents, NEW p \in Plans \cup {NoPlan}, NEW merchant \in Merchants,
           NEW key \in Keys \cup (Plans \X Merchants), NEW total \in CartTotals
    PROVE  NewMandate(i, p, merchant, key, total) \in MandateRow
BY CartTotalsAssumption DEF NewMandate, MandateRow, MandateStatus

\* The table after a plan of the given legs was added.
LEMMA PlanAppend ==
    ASSUME TypeOK, NEW i \in Intents, NEW p \in Plans, NEW legs \in Legs
    PROVE  LET NewLeg(leg) == NewMandate(i, p, leg.merchant, LegKey(p, leg.merchant), leg.total)
               new == mandates \o [k \in 1 .. Len(legs) |-> NewLeg(legs[k])]
           IN  /\ Len(legs) \in Nat \ {0}
               /\ \A k \in 1 .. Len(legs) : legs[k].merchant \in Merchants /\ legs[k].total \in CartTotals
               /\ new \in Seq(MandateRow)
               /\ Len(new) = Len(mandates) + Len(legs)
               /\ \A k \in 1 .. Len(new) :
                     new[k] = IF k <= Len(mandates) THEN mandates[k]
                              ELSE NewLeg(legs[k - Len(mandates)])
<1> DEFINE NewLeg(leg) == NewMandate(i, p, leg.merchant, LegKey(p, leg.merchant), leg.total)
           added == [k \in 1 .. Len(legs) |-> NewLeg(legs[k])]
<1>1. PICK n \in 1 .. MaxLegs :
         legs \in [1 .. n -> [merchant : Merchants, total : CartTotals, inPolicy : BOOLEAN]]
  BY DEF Legs
<1>2. Len(legs) = n /\ n \in Nat \ {0}
  BY <1>1
<1>3. \A k \in 1 .. n : legs[k] \in [merchant : Merchants, total : CartTotals, inPolicy : BOOLEAN]
  BY <1>1
<1>4. \A k \in 1 .. n : legs[k].merchant \in Merchants /\ legs[k].total \in CartTotals
  BY <1>3
<1>5. \A k \in 1 .. n : NewLeg(legs[k]) \in MandateRow
  BY <1>4, NewMandateType DEF LegKey
<1>6. added \in Seq(MandateRow) /\ Len(added) = n
  <2> HIDE DEF NewLeg
  <2>1. added \in [1 .. n -> MandateRow]
    BY <1>2, <1>5
  <2>2. QED
    BY <2>1, <1>2
<1>7. \A k \in 1 .. n : added[k] = NewLeg(legs[k])
  BY <1>2
<1>8. mandates \in Seq(MandateRow)
  BY DEF TypeOK
<1> HIDE DEF NewLeg, added
<1>9. Len(mandates) \in Nat
  BY <1>8, LenProperties
<1>10. /\ mandates \o added \in Seq(MandateRow)
       /\ Len(mandates \o added) = Len(mandates) + n
       /\ \A k \in 1 .. Len(mandates) + n : (mandates \o added)[k] =
             IF k <= Len(mandates) THEN mandates[k] ELSE added[k - Len(mandates)]
  BY <1>6, <1>8, ConcatProperties
<1>11. \A k \in 1 .. Len(mandates) + n : (mandates \o added)[k] =
             IF k <= Len(mandates) THEN mandates[k] ELSE NewLeg(legs[k - Len(mandates)])
  BY <1>7, <1>9, <1>10
<1>12. QED
  BY <1>2, <1>4, <1>10, <1>11 DEF NewLeg, added

-----------------------------------------------------------------------------
(***************************************************************************)
(* What each handler does to the mandate table, once and for all proofs.   *)
(***************************************************************************)
\* A step in which exactly row m changes, to `row`.
RowBecomes(m, row) ==
    /\ row \in MandateRow
    /\ mandates' \in Seq(MandateRow)
    /\ Len(mandates') = Len(mandates)
    /\ \A k \in Rows : mandates'[k] = IF k = m THEN row ELSE mandates[k]

RowWithStatus(m, status) == [mandates[m] EXCEPT !.status = status]
RowWithOutcome(m, status, captured) ==
    [mandates[m] EXCEPT !.status = status, !.captured = captured, !.reserved = 0]

\* Facts about every row of a well-typed table.
LEMMA RowFacts ==
    ASSUME TypeOK
    PROVE  /\ Len(mandates) \in Nat /\ Len(mandates) <= MaxMandates
           /\ DOMAIN mandates = Rows
           /\ \A m \in Rows :
                /\ m \in 1 .. MaxMandates
                /\ mandates[m] \in MandateRow
                /\ mandates[m].intent \in Intents
                /\ mandates[m].status \in MandateStatus
                /\ mandates[m].amount \in Nat \ {0} /\ mandates[m].amount \in CartTotals
                /\ mandates[m].reserved \in Nat
                /\ mandates[m].captured \in Nat
<1>1. mandates \in Seq(MandateRow) /\ Len(mandates) <= MaxMandates
  BY DEF TypeOK
<1>2. Len(mandates) \in Nat /\ DOMAIN mandates = 1 .. Len(mandates)
  BY <1>1, LenProperties
<1>3. \A m \in 1 .. Len(mandates) : mandates[m] \in MandateRow
  BY <1>1, ElementOfSeq
<1>4. \A m \in Rows : m \in 1 .. MaxMandates
  BY <1>1, <1>2, BoundsAssumption DEF Rows
<1>5. \A row \in MandateRow :
         /\ row.intent \in Intents /\ row.status \in MandateStatus
         /\ row.amount \in Nat \ {0} /\ row.amount \in CartTotals
         /\ row.reserved \in Nat /\ row.captured \in Nat
  BY CartTotalsAssumption DEF MandateRow
<1>6. QED
  BY <1>1, <1>2, <1>3, <1>4, <1>5 DEF Rows

\* Setting a status, in the six handlers that do only that to the table.
LEMMA StatusSteps ==
    ASSUME TypeOK, NEW m \in Rows
    PROVE  /\ BeginOrder(m) => RowBecomes(m, RowWithStatus(m, "ORDER_CREATING"))
           /\ FinishOrder(m) => RowBecomes(m, RowWithStatus(m, "ORDER_CREATED"))
           /\ AgentOrder(m) => RowBecomes(m, RowWithStatus(m, "ORDER_CREATED"))
           /\ ReconcileFound(m) => RowBecomes(m, RowWithStatus(m, "ORDER_CREATED"))
           /\ ReconcileNotFound(m) => RowBecomes(m, RowWithStatus(m, "RESERVED"))
           /\ ExecuteLeg(m) => RowBecomes(m, RowWithStatus(m, "ORDER_CREATED"))
<1>1. ASSUME NEW status \in MandateStatus, mandates' = SetStatus(m, status)
      PROVE  RowBecomes(m, RowWithStatus(m, status))
  <2>1. RowWithStatus(m, status) \in MandateRow
    BY RowFacts DEF RowWithStatus, MandateRow
  <2>2. QED
    BY <1>1, <2>1, StatusUpdate DEF RowBecomes, RowWithStatus
<1>2. {"RESERVED", "ORDER_CREATING", "ORDER_CREATED"} \subseteq MandateStatus
  BY DEF MandateStatus
<1>3. QED
  BY <1>1, <1>2
  DEF BeginOrder, FinishOrder, AgentOrder, ReconcileFound, ReconcileNotFound, ExecuteLeg

\* The status release_failed_leg() leaves.
ReleasedStatus(m) ==
    IF mandates[m].status \in HoldsBudget THEN "RELEASED" ELSE mandates[m].status

\* Recording an outcome, in the three handlers that do.
LEMMA OutcomeSteps ==
    ASSUME TypeOK, NEW m \in Rows
    PROVE  /\ \A e \in EventIds, amount \in CartTotals :
                CaptureWebhook(e, m, amount) =>
                   RowBecomes(m, RowWithOutcome(m, "PAYMENT_CAPTURED", amount))
           /\ \A e \in EventIds :
                FailWebhook(e, m) =>
                   RowBecomes(m, RowWithOutcome(m, "PAYMENT_FAILED", mandates[m].captured))
           /\ ReleaseLeg(m) =>
                   RowBecomes(m, RowWithOutcome(m, ReleasedStatus(m), mandates[m].captured))
<1>1. ASSUME NEW status \in MandateStatus, NEW captured \in Nat,
             mandates' = [mandates EXCEPT ![m] = RowWithOutcome(m, status, captured)]
      PROVE  RowBecomes(m, RowWithOutcome(m, status, captured))
  <2>1. RowWithOutcome(m, status, captured) \in MandateRow
    BY RowFacts DEF RowWithOutcome, MandateRow
  <2>2. mandates \in Seq(MandateRow)
    BY DEF TypeOK
  <2>3. QED
    BY <1>1, <2>1, <2>2, RowUpdate DEF RowBecomes, Rows
<1>2. mandates[m] \in MandateRow /\ mandates[m].captured \in Nat /\ DOMAIN mandates = Rows
  BY RowFacts
<1>3. ASSUME NEW e \in EventIds, NEW amount \in CartTotals, CaptureWebhook(e, m, amount)
      PROVE  RowBecomes(m, RowWithOutcome(m, "PAYMENT_CAPTURED", amount))
  <2>1. mandates' = [mandates EXCEPT ![m] = RowWithOutcome(m, "PAYMENT_CAPTURED", amount)]
    BY <1>2, <1>3 DEF CaptureWebhook, CapturedRow, RowWithOutcome
  <2>2. amount \in Nat
    BY CartTotalsAssumption
  <2>3. QED
    BY <1>1, <2>1, <2>2 DEF MandateStatus
<1>4. ASSUME NEW e \in EventIds, FailWebhook(e, m)
      PROVE  RowBecomes(m, RowWithOutcome(m, "PAYMENT_FAILED", mandates[m].captured))
  <2>1. [mandates[m] EXCEPT !.status = "PAYMENT_FAILED", !.reserved = 0]
          = RowWithOutcome(m, "PAYMENT_FAILED", mandates[m].captured)
    BY <1>2 DEF RowWithOutcome, MandateRow
  <2>2. mandates' = [mandates EXCEPT ![m] = RowWithOutcome(m, "PAYMENT_FAILED", mandates[m].captured)]
    BY <1>2, <1>4, <2>1 DEF FailWebhook, FailedRow
  <2>3. QED
    BY <1>1, <1>2, <2>2 DEF MandateStatus
<1>5. ASSUME ReleaseLeg(m)
      PROVE  RowBecomes(m, RowWithOutcome(m, ReleasedStatus(m), mandates[m].captured))
  <2>1. [mandates[m] EXCEPT !.status = ReleasedStatus(m), !.reserved = 0]
          = RowWithOutcome(m, ReleasedStatus(m), mandates[m].captured)
    BY <1>2 DEF RowWithOutcome, MandateRow
  <2>2. mandates' = [mandates EXCEPT ![m] =
                        RowWithOutcome(m, ReleasedStatus(m), mandates[m].captured)]
    BY <1>2, <1>5, <2>1 DEF ReleaseLeg, ReleasedRow, ReleasedStatus
  <2>3. ReleasedStatus(m) \in MandateStatus
    BY RowFacts DEF ReleasedStatus, MandateStatus
  <2>4. QED
    BY <1>1, <1>2, <2>2, <2>3
<1>6. QED
  BY <1>3, <1>4, <1>5

-----------------------------------------------------------------------------
\* Every commit of every handler leaves rows of the declared shape.
LEMMA TypeOKStep == TypeOK /\ [Next]_vars => TypeOK'
<1> SUFFICES ASSUME TypeOK, [Next]_vars PROVE TypeOK'
  OBVIOUS
<1> DEFINE AuditFacts ==
      ({"INTENT_ISSUED", "POLICY_REJECTED"} \X Intents) \cup
      ({"MANDATE_CREATED", "ORDER_CREATED", "PAYMENT_CAPTURED", "POLICY_REJECTED"}
          \X (1 .. MaxMandates))
<1>0. /\ \A m \in Rows : m \in 1 .. MaxMandates
      /\ Len(mandates) \in Nat
      /\ \A m \in Rows : \A row : RowBecomes(m, row) =>
            mandates' \in Seq(MandateRow) /\ Len(mandates') <= MaxMandates
  BY RowFacts DEF RowBecomes
<1>1. ASSUME NEW i \in Intents, RegisterIntent(i) PROVE TypeOK'
  BY <1>1 DEF RegisterIntent, FreshRow, IntentRow, TypeOK
<1>2. ASSUME NEW i \in Intents, NEW merchant \in Merchants, NEW key \in Keys,
             NEW total \in CartTotals, NEW ok \in BOOLEAN, NEW caller \in {"reserved", "agent"},
             AuthorizeMandate(i, merchant, key, total, ok, caller)
      PROVE  TypeOK'
  <2>1. Charged(Registered(i), i, total) \in IntentRow
    BY RegistryRows, ChargedRow, CartTotalsAssumption
  <2>2. NewMandate(i, NoPlan, merchant, key, total) \in MandateRow
    BY NewMandateType
  <2>3. Len(mandates) + 1 \in 1 .. MaxMandates
    BY <1>0, <1>2, BoundsAssumption DEF AuthorizeMandate
  <2>4. mandates' \in Seq(MandateRow) /\ Len(mandates') <= MaxMandates
    BY <1>2, <2>2, <2>3 DEF AuthorizeMandate, TypeOK
  <2>5. QED
    BY <1>2, <2>1, <2>3, <2>4 DEF AuthorizeMandate, TypeOK, HandlerPosition
<1>3. ASSUME NEW i \in Intents, NEW merchant \in Merchants, NEW key \in Keys,
             NEW total \in CartTotals, NEW ok \in BOOLEAN,
             AuthorizeMandateRejected(i, merchant, key, total, ok)
      PROVE  TypeOK'
  BY <1>3, RegistryRows DEF AuthorizeMandateRejected, TypeOK
<1>4. ASSUME NEW i \in Intents, NEW p \in Plans, NEW legs \in Legs,
             NEW total \in 1 .. SpendCap[i], AuthorizePlan(i, p, legs, total)
      PROVE  TypeOK'
  <2>1. Charged(Registered(i), i, total) \in IntentRow
    BY RegistryRows, ChargedRow, SpendCapAssumption
  <2>2. [intent |-> i, status |-> "CONFIRMED"] \in PlanRow
    BY DEF PlanRow, PlanStatus
  <2>3. mandates' \in Seq(MandateRow) /\ Len(mandates') <= MaxMandates
    BY <1>4, PlanAppend DEF AuthorizePlan
  <2>4. Len(legs) \in Nat /\ Len(mandates) + Len(legs) <= MaxMandates
    BY <1>4, PlanAppend DEF AuthorizePlan
  <2>5. (Len(mandates) + 1) .. (Len(mandates) + Len(legs)) \subseteq 1 .. MaxMandates
    BY <1>0, <2>4, BoundsAssumption
  <2>6. audit' \subseteq AuditFacts
    BY <1>4, <2>5 DEF AuthorizePlan, TypeOK
  <2>7. QED
    BY <1>4, <2>1, <2>2, <2>3, <2>6 DEF AuthorizePlan, TypeOK
<1>5. ASSUME NEW i \in Intents, NEW p \in Plans, NEW legs \in Legs,
             AuthorizePlanRejected(i, p, legs)
      PROVE  TypeOK'
  BY <1>5 DEF AuthorizePlanRejected, TypeOK
<1>6. ASSUME NEW m \in Rows, BeginOrder(m) PROVE TypeOK'
  BY <1>6, <1>0, StatusSteps DEF BeginOrder, TypeOK, HandlerPosition
<1>7. ASSUME NEW m \in Rows, CallGateway(m) PROVE TypeOK'
  BY <1>7, <1>0 DEF CallGateway, TypeOK, HandlerPosition
<1>8. ASSUME NEW m \in Rows, FinishOrder(m) PROVE TypeOK'
  <2>1. mandates' \in Seq(MandateRow) /\ Len(mandates') <= MaxMandates
    BY <1>8, <1>0, StatusSteps
  <2>2. audit' \subseteq AuditFacts
    BY <1>8, <1>0 DEF FinishOrder, TypeOK
  <2>3. QED
    BY <1>8, <2>1, <2>2 DEF FinishOrder, TypeOK, HandlerPosition
<1>9. ASSUME NEW m \in Rows, AgentOrder(m) PROVE TypeOK'
  BY <1>9, <1>0, StatusSteps DEF AgentOrder, TypeOK, HandlerPosition
<1>10. ASSUME NEW m \in Rows, HandlerFails(m) PROVE TypeOK'
  BY <1>10, <1>0 DEF HandlerFails, TypeOK, HandlerPosition
<1>11. CASE Crash
  BY <1>11 DEF Crash, TypeOK, HandlerPosition
<1>12. CASE StartupReconcile
  <2>1. \A m \in Rows : /\ mandates[m] \in MandateRow
                        /\ [mandates[m] EXCEPT !.status = "RESERVED"] \in MandateRow
    BY RowFacts DEF MandateRow, MandateStatus
  <2>2. mandates' \in [1 .. Len(mandates) -> MandateRow]
    BY <1>12, <2>1 DEF StartupReconcile, Rows
  <2>3. mandates' \in Seq(MandateRow) /\ Len(mandates') = Len(mandates)
    BY <1>0, <2>2
  <2>4. QED
    BY <1>12, <2>3 DEF StartupReconcile, TypeOK
<1>13. ASSUME NEW m \in Rows, ReconcileFound(m) PROVE TypeOK'
  BY <1>13, <1>0, StatusSteps DEF ReconcileFound, TypeOK
<1>14. ASSUME NEW m \in Rows, ReconcileNotFound(m) PROVE TypeOK'
  BY <1>14, <1>0, StatusSteps DEF ReconcileNotFound, TypeOK
<1>15. ASSUME NEW m \in Rows, ExecuteLeg(m) PROVE TypeOK'
  BY <1>15, <1>0, StatusSteps DEF ExecuteLeg, TypeOK
<1>16. ASSUME NEW m \in Rows, ReleaseLeg(m) PROVE TypeOK'
  <2>1. mandates' \in Seq(MandateRow) /\ Len(mandates') <= MaxMandates
    BY <1>16, <1>0, OutcomeSteps
  <2>2. plans' \in [Plans -> PlanRow]
    BY <1>16, LateSyncedType DEF ReleaseLeg
  <2>3. Refunded(registry[mandates[m].intent], mandates[m].reserved) \in IntentRow
    BY RowFacts, RegistryRows, RefundedRow
  <2>4. audit' \subseteq AuditFacts
    BY <1>16, <1>0 DEF ReleaseLeg, TypeOK
  <2>5. QED
    BY <1>16, <2>1, <2>2, <2>3, <2>4 DEF ReleaseLeg, TypeOK
<1>17. ASSUME NEW p \in Plans, SyncPlan(p) PROVE TypeOK'
  BY <1>17, LateSyncedType DEF SyncPlan, TypeOK
<1>18. ASSUME NEW e \in EventIds, NEW m \in Rows, NEW amount \in CartTotals,
              CaptureWebhook(e, m, amount)
       PROVE  TypeOK'
  <2>1. mandates' \in Seq(MandateRow) /\ Len(mandates') <= MaxMandates
    BY <1>18, <1>0, OutcomeSteps
  <2>2. plans' \in [Plans -> PlanRow]
    BY <1>18, SyncedType DEF CaptureWebhook
  <2>3. registry' \in [Intents -> IntentRow]
    <3> DEFINE i == mandates[m].intent
    <3>1. i \in Intents /\ amount \in Nat /\ registry[i] \in IntentRow
      BY RowFacts, RegistryRows, CartTotalsAssumption
    <3>2. registry[i].reserved >= amount
      BY <1>18 DEF CaptureWebhook, CaptureAdmitted
    <3>3. [registry[i] EXCEPT !.reserved = registry[i].reserved - amount,
                              !.captured = registry[i].captured + amount] \in IntentRow
      <4>1. registry[i].reserved - amount \in Nat /\ registry[i].captured + amount \in Nat
        BY <3>1, <3>2 DEF IntentRow
      <4>2. QED
        BY <3>1, <4>1 DEF IntentRow
    <3>4. registry \in [Intents -> IntentRow]
      BY DEF TypeOK
    <3>5. registry' = [registry EXCEPT ![i] =
              [registry[i] EXCEPT !.reserved = registry[i].reserved - amount,
                                  !.captured = registry[i].captured + amount]]
      BY <1>18, <3>1, <3>4 DEF CaptureWebhook
    <3>6. QED
      BY <3>1, <3>3, <3>4, <3>5
  <2>4. [id |-> e, type |-> "payment.captured", mandate |-> m] \in EventRow
    BY <1>0, BoundsAssumption DEF EventRow, EventType
  <2>5. events' \subseteq EventRow /\ receipts' \in [1 .. MaxMandates -> Nat]
        /\ audit' \subseteq AuditFacts
    BY <1>18, <1>0, <2>4 DEF CaptureWebhook, TypeOK
  <2>6. QED
    BY <1>18, <2>1, <2>2, <2>3, <2>5 DEF CaptureWebhook, TypeOK
<1>19. ASSUME NEW e \in EventIds, NEW m \in Rows, FailWebhook(e, m) PROVE TypeOK'
  <2>1. mandates' \in Seq(MandateRow) /\ Len(mandates') <= MaxMandates
    BY <1>19, <1>0, OutcomeSteps
  <2>2. plans' \in [Plans -> PlanRow]
    BY <1>19, SyncedType DEF FailWebhook
  <2>3. Refunded(registry[mandates[m].intent], mandates[m].reserved) \in IntentRow
    BY RowFacts, RegistryRows, RefundedRow
  <2>4. [id |-> e, type |-> "payment.failed", mandate |-> m] \in EventRow
    BY <1>0, BoundsAssumption DEF EventRow, EventType
  <2>5. QED
    BY <1>19, <2>1, <2>2, <2>3, <2>4 DEF FailWebhook, TypeOK
<1>20. ASSUME NEW e \in EventIds, OtherWebhook(e) PROVE TypeOK'
  BY <1>20, BoundsAssumption DEF OtherWebhook, EventRow, EventType, TypeOK
<1>21. ASSUME NEW i \in Intents, ExpireIntent(i) PROVE TypeOK'
  BY <1>21 DEF ExpireIntent, TypeOK
<1>22. CASE UNCHANGED vars
  BY <1>22 DEF vars, TypeOK
<1>23. QED
  BY <1>1, <1>2, <1>3, <1>4, <1>5, <1>6, <1>7, <1>8, <1>9, <1>10, <1>11, <1>12, <1>13, <1>14,
     <1>15, <1>16, <1>17, <1>18, <1>19, <1>20, <1>21, <1>22
  DEF Next, Authorization, OrderHandling, PlanExecution, Webhooks

\* The empty database has the declared shape.
LEMMA InitTypeOK == Init => TypeOK
<1> SUFFICES ASSUME Init PROVE TypeOK
  OBVIOUS
<1>1. registry \in [Intents -> IntentRow]
  BY DEF Init, NoRow, FreshRow, IntentRow
<1>2. mandates \in Seq(MandateRow) /\ Len(mandates) <= MaxMandates
  BY EmptySeq, BoundsAssumption DEF Init
<1>3. plans \in [Plans -> PlanRow]
  BY DEF Init, PlanRow, PlanStatus
<1>4. QED
  BY <1>1, <1>2, <1>3 DEF Init, TypeOK, HandlerPosition

\* Type correctness: every commit of every handler leaves rows of the declared
\* shape, with natural-number balances, and no more rows than the bound.
THEOREM TypeCorrect == Spec => []TypeOK
<1>1. QED
  BY InitTypeOK, TypeOKStep, PTL DEF Spec

-----------------------------------------------------------------------------
\* What each handler does to the row of an intent, in the terms the budget
\* properties need: nothing, or a registration, a charge within what is
\* available, a refund, or a capture of what is reserved.
LEMMA RegistrySteps ==
    ASSUME TypeOK, [Next]_vars, NEW i \in Intents
    PROVE  \/ registry'[i] = registry[i]
           \/ registry'[i] = Registered(i)
           \/ \E total \in Nat : /\ total <= Available(Registered(i), i)
                                 /\ registry'[i] = Charged(Registered(i), i, total)
           \/ \E paise \in Nat : registry'[i] = Refunded(registry[i], paise)
           \/ \E paise \in Nat \ {0} : /\ paise <= registry[i].reserved
                                       /\ registry'[i] = [registry[i] EXCEPT
                                             !.reserved = registry[i].reserved - paise,
                                             !.captured = registry[i].captured + paise]
<1> DEFINE Goal ==
       \/ registry'[i] = registry[i]
       \/ registry'[i] = Registered(i)
       \/ \E total \in Nat : /\ total <= Available(Registered(i), i)
                             /\ registry'[i] = Charged(Registered(i), i, total)
       \/ \E paise \in Nat : registry'[i] = Refunded(registry[i], paise)
       \/ \E paise \in Nat \ {0} : /\ paise <= registry[i].reserved
                                   /\ registry'[i] = [registry[i] EXCEPT
                                         !.reserved = registry[i].reserved - paise,
                                         !.captured = registry[i].captured + paise]
<1> SUFFICES Goal
  OBVIOUS
<1>0. registry \in [Intents -> IntentRow]
  BY DEF TypeOK
<1>1. ASSUME NEW j \in Intents, RegisterIntent(j) PROVE Goal
  <2>1. registry'[i] = IF i = j THEN FreshRow ELSE registry[i]
    BY <1>0, <1>1 DEF RegisterIntent
  <2>2. QED
    BY <1>1, <2>1 DEF RegisterIntent, Registered
<1>2. ASSUME NEW j \in Intents, NEW merchant, NEW key, NEW total \in CartTotals, NEW ok, NEW caller,
             AuthorizeMandate(j, merchant, key, total, ok, caller)
      PROVE  Goal
  <2>1. registry'[i] = IF i = j THEN Charged(Registered(j), j, total) ELSE registry[i]
    BY <1>0, <1>2 DEF AuthorizeMandate
  <2>2. total \in Nat /\ total <= Available(Registered(j), j)
    BY <1>2, CartTotalsAssumption DEF AuthorizeMandate, MandateAdmitted
  <2>3. QED
    BY <2>1, <2>2
<1>3. ASSUME NEW j \in Intents, NEW merchant, NEW key, NEW total, NEW ok,
             AuthorizeMandateRejected(j, merchant, key, total, ok)
      PROVE  Goal
  <2>1. registry'[i] = IF i = j THEN Registered(j) ELSE registry[i]
    BY <1>0, <1>3 DEF AuthorizeMandateRejected
  <2>2. QED
    BY <2>1
<1>4. ASSUME NEW j \in Intents, NEW p, NEW legs, NEW total \in 1 .. SpendCap[j],
             AuthorizePlan(j, p, legs, total)
      PROVE  Goal
  <2>1. registry'[i] = IF i = j THEN Charged(Registered(j), j, total) ELSE registry[i]
    BY <1>0, <1>4 DEF AuthorizePlan
  <2>2. total \in Nat /\ total <= Available(Registered(j), j)
    BY <1>4, SpendCapAssumption DEF AuthorizePlan
  <2>3. QED
    BY <2>1, <2>2
<1>5. ASSUME NEW m \in Rows, ReleaseLeg(m) PROVE Goal
  <2>1. registry'[i] = IF i = mandates[m].intent
                       THEN Refunded(registry[i], mandates[m].reserved) ELSE registry[i]
    BY <1>0, <1>5 DEF ReleaseLeg
  <2>2. QED
    BY <2>1, RowFacts
<1>6. ASSUME NEW e, NEW m \in Rows, FailWebhook(e, m) PROVE Goal
  <2>1. registry'[i] = IF i = mandates[m].intent
                       THEN Refunded(registry[i], mandates[m].reserved) ELSE registry[i]
    BY <1>0, <1>6 DEF FailWebhook
  <2>2. QED
    BY <2>1, RowFacts
<1>7. ASSUME NEW e, NEW m \in Rows, NEW amount \in CartTotals, CaptureWebhook(e, m, amount)
      PROVE  Goal
  <2>1. amount \in Nat \ {0} /\ registry[mandates[m].intent].reserved >= amount
    BY <1>7, CartTotalsAssumption DEF CaptureWebhook, CaptureAdmitted
  <2>2. registry'[i] = IF i = mandates[m].intent
                       THEN [registry[i] EXCEPT !.reserved = registry[i].reserved - amount,
                                                !.captured = registry[i].captured + amount]
                       ELSE registry[i]
    BY <1>0, <1>7 DEF CaptureWebhook
  <2>3. registry[i].reserved \in Nat
    BY <1>0 DEF IntentRow
  <2>4. QED
    BY <2>1, <2>2, <2>3
<1>8. CASE registry' = registry
  BY <1>8
<1>9. QED
  BY <1>1, <1>2, <1>3, <1>4, <1>5, <1>6, <1>7, <1>8
  DEF Next, Authorization, OrderHandling, PlanExecution, Webhooks, vars,
      AuthorizePlanRejected, BeginOrder, CallGateway, FinishOrder, AgentOrder, HandlerFails,
      Crash, StartupReconcile, ReconcileFound, ReconcileNotFound, ExecuteLeg, SyncPlan,
      OtherWebhook, ExpireIntent

\* No sequence of authorizations, outcomes and releases makes an intent hold
\* and spend more than the cap its user signed.
THEOREM SpendCapHolds == Spec => []SpendCapRespected
<1>1. Init => SpendCapRespected
  BY SpendCapAssumption DEF Init, SpendCapRespected, NoRow, FreshRow
<1>2. TypeOK /\ SpendCapRespected /\ [Next]_vars => SpendCapRespected'
  <2> SUFFICES ASSUME TypeOK, SpendCapRespected, [Next]_vars, NEW i \in Intents
               PROVE  registry'[i].reserved + registry'[i].captured <= SpendCap[i]
    BY DEF SpendCapRespected
  <2>1. /\ registry[i] \in IntentRow /\ Registered(i) \in IntentRow
        /\ SpendCap[i] \in Nat
        /\ registry[i].reserved \in Nat /\ registry[i].captured \in Nat
        /\ registry[i].reserved + registry[i].captured <= SpendCap[i]
    BY RegistryRows, SpendCapAssumption DEF SpendCapRespected, IntentRow
  <2>2. /\ Registered(i).reserved \in Nat /\ Registered(i).captured \in Nat
        /\ Registered(i).reserved + Registered(i).captured <= SpendCap[i]
    BY <2>1 DEF Registered, FreshRow
  <2>3. CASE registry'[i] = registry[i]
    BY <2>1, <2>3
  <2>4. CASE registry'[i] = Registered(i)
    BY <2>2, <2>4
  <2>5. ASSUME NEW total \in Nat, total <= Available(Registered(i), i),
               registry'[i] = Charged(Registered(i), i, total)
        PROVE  registry'[i].reserved + registry'[i].captured <= SpendCap[i]
    <3>1. /\ registry'[i].reserved = Registered(i).reserved + total
          /\ registry'[i].captured = Registered(i).captured
      BY <2>1, <2>5, ChargedRow
    <3>2. total <= SpendCap[i] - Registered(i).reserved - Registered(i).captured
      BY <2>5 DEF Available
    <3>3. QED
      BY <2>1, <2>2, <3>1, <3>2
  <2>6. ASSUME NEW paise \in Nat, registry'[i] = Refunded(registry[i], paise)
        PROVE  registry'[i].reserved + registry'[i].captured <= SpendCap[i]
    <3>1. /\ registry'[i].captured = registry[i].captured
          /\ registry'[i].reserved =
               IF registry[i].reserved >= paise THEN registry[i].reserved - paise ELSE 0
      BY <2>1, <2>6 DEF Refunded, IntentRow
    <3>2. QED
      BY <2>1, <3>1
  <2>7. ASSUME NEW paise \in Nat, paise <= registry[i].reserved,
               registry'[i] = [registry[i] EXCEPT !.reserved = registry[i].reserved - paise,
                                                  !.captured = registry[i].captured + paise]
        PROVE  registry'[i].reserved + registry'[i].captured <= SpendCap[i]
    <3>1. /\ registry'[i].reserved = registry[i].reserved - paise
          /\ registry'[i].captured = registry[i].captured + paise
      BY <2>1, <2>7 DEF IntentRow
    <3>2. QED
      BY <2>1, <3>1
  <2>8. QED
    BY <2>3, <2>4, <2>5, <2>6, <2>7, RegistrySteps
<1>3. QED
  BY <1>1, <1>2, TypeCorrect, PTL DEF Spec

-----------------------------------------------------------------------------
\* Every step of the rail leaves a row of the mandate table alone, adds rows in
\* status RESERVED, changes one status, or records one outcome.
StatusChange(m) ==
    \E status \in MandateStatus :
        /\ RowBecomes(m, RowWithStatus(m, status))
        /\ mandates[m].status \in HoldsBudget /\ status \in HoldsBudget
        /\ WithinTwoMoves(mandates[m].status, status)

Capture(m) ==
    /\ mandates[m].status \in AwaitsPayment
    /\ RowBecomes(m, RowWithOutcome(m, "PAYMENT_CAPTURED", mandates[m].amount))

Failure(m) ==
    /\ mandates[m].status \in AwaitsPayment
    /\ RowBecomes(m, RowWithOutcome(m, "PAYMENT_FAILED", mandates[m].captured))

Release(m) ==
    /\ mandates[m].status \notin Terminal
    /\ RowBecomes(m, RowWithOutcome(m, ReleasedStatus(m), mandates[m].captured))

Insertion ==
    /\ mandates' \in Seq(MandateRow)
    /\ Len(mandates') > Len(mandates)
    /\ \A m \in Rows : mandates'[m] = mandates[m]
    /\ \A m \in Rows' \ Rows :
          /\ mandates'[m].status = "RESERVED"
          /\ mandates'[m].reserved = mandates'[m].amount
          /\ mandates'[m].captured = 0

StartupReset ==
    /\ Len(mandates') = Len(mandates)
    /\ \A m \in Rows :
          mandates'[m] = IF mandates[m].status = "ORDER_CREATING"
                         THEN RowWithStatus(m, "RESERVED") ELSE mandates[m]

\* The steps that are no payment outcome.
Unpaid ==
    /\ UNCHANGED <<events, receipts>>
    /\ \/ mandates' = mandates
       \/ Insertion
       \/ StartupReset
       \/ \E m \in Rows : StatusChange(m) \/ Release(m)

\* Both authorizations add rows in status RESERVED.
LEMMA InsertionSteps ==
    ASSUME TypeOK
    PROVE  /\ \A i \in Intents, merchant \in Merchants, key \in Keys, total \in CartTotals :
              \A ok, caller :
                AuthorizeMandate(i, merchant, key, total, ok, caller) => Insertion
           /\ \A i \in Intents, p \in Plans, legs \in Legs : \A total :
                AuthorizePlan(i, p, legs, total) => Insertion
<1>0. mandates \in Seq(MandateRow) /\ Len(mandates) \in Nat
  BY RowFacts DEF TypeOK
<1>1. ASSUME NEW i \in Intents, NEW merchant \in Merchants, NEW key \in Keys,
             NEW total \in CartTotals, NEW ok, NEW caller,
             AuthorizeMandate(i, merchant, key, total, ok, caller)
      PROVE  Insertion
  <2> DEFINE new == NewMandate(i, NoPlan, merchant, key, total)
  <2>1. new \in MandateRow /\ mandates' = Append(mandates, new)
    BY <1>1, NewMandateType DEF AuthorizeMandate
  <2>2. new.status = "RESERVED" /\ new.reserved = new.amount /\ new.captured = 0
    BY DEF NewMandate
  <2> HIDE DEF new
  <2>3. /\ mandates' \in Seq(MandateRow) /\ Len(mandates') = Len(mandates) + 1
        /\ \A m \in Rows : mandates'[m] = mandates[m]
        /\ mandates'[Len(mandates) + 1] = new
    BY <1>0, <2>1 DEF Rows
  <2>4. \A m \in Rows' \ Rows : m = Len(mandates) + 1
    BY <1>0, <2>3 DEF Rows
  <2>5. QED
    BY <1>0, <2>2, <2>3, <2>4 DEF Insertion
<1>2. ASSUME NEW i \in Intents, NEW p \in Plans, NEW legs \in Legs, NEW total,
             AuthorizePlan(i, p, legs, total)
      PROVE  Insertion
  <2> DEFINE NewLeg(leg) == NewMandate(i, p, leg.merchant, LegKey(p, leg.merchant), leg.total)
  <2>1. \A leg : NewLeg(leg).status = "RESERVED" /\ NewLeg(leg).reserved = NewLeg(leg).amount
                   /\ NewLeg(leg).captured = 0
    BY DEF NewMandate
  <2>2. /\ Len(legs) \in Nat \ {0}
        /\ mandates' \in Seq(MandateRow)
        /\ Len(mandates') = Len(mandates) + Len(legs)
        /\ \A k \in 1 .. Len(mandates') :
              mandates'[k] = IF k <= Len(mandates) THEN mandates[k]
                             ELSE NewLeg(legs[k - Len(mandates)])
    BY <1>2, PlanAppend DEF AuthorizePlan
  <2> HIDE DEF NewLeg
  <2>3. \A m \in Rows : mandates'[m] = mandates[m]
    BY <1>0, <2>2 DEF Rows
  <2>4. \A m \in Rows' \ Rows : mandates'[m] = NewLeg(legs[m - Len(mandates)])
    BY <1>0, <2>2 DEF Rows
  <2>5. QED
    BY <1>0, <2>1, <2>2, <2>3, <2>4 DEF Insertion
<1>3. QED
  BY <1>1, <1>2

\* The two webhooks that settle a mandate record its outcome.
LEMMA WebhookSteps ==
    ASSUME TypeOK, NEW m \in Rows
    PROVE  /\ \A e \in EventIds, amount \in CartTotals : CaptureWebhook(e, m, amount) => Capture(m)
           /\ \A e \in EventIds : FailWebhook(e, m) => Failure(m)
<1>1. ASSUME NEW e \in EventIds, NEW amount \in CartTotals, CaptureWebhook(e, m, amount)
      PROVE  Capture(m)
  <2>1. amount = mandates[m].amount /\ mandates[m].status \in AwaitsPayment
    BY <1>1 DEF CaptureWebhook, CaptureAdmitted
  <2>2. QED
    BY <1>1, <2>1, OutcomeSteps DEF Capture
<1>2. ASSUME NEW e \in EventIds, FailWebhook(e, m) PROVE Failure(m)
  BY <1>2, OutcomeSteps, FailureFollowsOrder, RowFacts DEF FailWebhook, Failure
<1>3. QED
  BY <1>1, <1>2

\* A payment outcome is recorded by a webhook, together with its event.
LEMMA HandlerSteps ==
    ASSUME TypeOK, [Next]_vars
    PROVE  \/ Unpaid
           \/ \E e \in EventIds : OtherWebhook(e)
           \/ \E e \in EventIds, m \in Rows :
                 \/ \E amount \in CartTotals : CaptureWebhook(e, m, amount) /\ Capture(m)
                 \/ FailWebhook(e, m) /\ Failure(m)
<1> DEFINE Goal ==
           \/ mandates' = mandates
           \/ Insertion
           \/ StartupReset
           \/ \E m \in Rows : StatusChange(m) \/ Release(m)
<1>0. Len(mandates) \in Nat
  BY RowFacts
<1>3. ASSUME NEW m \in Rows,
             \/ BeginOrder(m) \/ FinishOrder(m) \/ AgentOrder(m) \/ ReconcileFound(m)
             \/ ReconcileNotFound(m) \/ ExecuteLeg(m)
      PROVE  Goal
  <2>1. mandates[m].status \in MandateStatus
    BY RowFacts
  <2>2. \A to \in {"ORDER_CREATING", "ORDER_CREATED", "RESERVED"} :
           TransitionLegal(mandates[m].status, to) =>
              mandates[m].status \in HoldsBudget /\ WithinTwoMoves(mandates[m].status, to)
    BY <2>1, HandlerMoves DEF TransitionLegal, CanTransition, AllowedTransitions, MandateStatus,
                             HoldsBudget, InFlight, AwaitsPayment
  <2>3. CASE BeginOrder(m)
    BY <2>2, <2>3, StatusSteps DEF BeginOrder, StatusChange, MandateStatus, HoldsBudget, InFlight
  <2>4. CASE FinishOrder(m)
    BY <2>2, <2>4, StatusSteps
    DEF FinishOrder, StatusChange, MandateStatus, HoldsBudget, InFlight, AwaitsPayment
  <2>5. CASE AgentOrder(m)
    <3>1. mandates[m].status \in HoldsBudget
          /\ WithinTwoMoves(mandates[m].status, "ORDER_CREATED")
      BY <2>1, <2>5
      DEF AgentOrder, WithinTwoMoves, TransitionLegal, CanTransition, AllowedTransitions,
          MandateStatus, HoldsBudget, InFlight
    <3>2. QED
      BY <2>5, <3>1, StatusSteps
      DEF StatusChange, MandateStatus, HoldsBudget, InFlight, AwaitsPayment
  <2>6. CASE ReconcileFound(m)
    BY <2>2, <2>6, StatusSteps
    DEF ReconcileFound, StatusChange, MandateStatus, HoldsBudget, InFlight, AwaitsPayment
  <2>7. CASE ReconcileNotFound(m)
    BY <2>2, <2>7, StatusSteps DEF ReconcileNotFound, StatusChange, MandateStatus, HoldsBudget
  <2>8. CASE ExecuteLeg(m)
    <3>1. mandates[m].status \in HoldsBudget
          /\ WithinTwoMoves(mandates[m].status, "ORDER_CREATED")
      BY <2>8
      DEF ExecuteLeg, WithinTwoMoves, TransitionLegal, CanTransition, AllowedTransitions,
          MandateStatus, HoldsBudget, InFlight
    <3>2. QED
      BY <2>8, <3>1, StatusSteps
      DEF StatusChange, MandateStatus, HoldsBudget, InFlight, AwaitsPayment
  <2>9. QED
    BY <1>3, <2>3, <2>4, <2>5, <2>6, <2>7, <2>8
<1>6. ASSUME NEW m \in Rows, ReleaseLeg(m) PROVE Goal
  BY <1>6, OutcomeSteps DEF ReleaseLeg, Release
<1>7. ASSUME StartupReconcile PROVE Goal
  BY <1>0, <1>7, RowFacts DEF StartupReconcile, StartupReset, RowWithStatus, Rows
<1>8. ASSUME mandates' = mandates PROVE Goal
  BY <1>8
<1>9. CASE UNCHANGED vars
  BY <1>9 DEF vars, Unpaid
<1>10. CASE Authorization
  <2>1. UNCHANGED <<events, receipts>>
    BY <1>10
    DEF Authorization, RegisterIntent, AuthorizeMandate, AuthorizeMandateRejected, AuthorizePlan,
        AuthorizePlanRejected
  <2>2. mandates' = mandates \/ Insertion
    BY <1>10, InsertionSteps
    DEF Authorization, RegisterIntent, AuthorizeMandateRejected, AuthorizePlanRejected
  <2>3. QED
    BY <2>1, <2>2 DEF Unpaid
<1>11. CASE OrderHandling
  BY <1>3, <1>7, <1>8, <1>11
  DEF OrderHandling, BeginOrder, CallGateway, FinishOrder, AgentOrder, HandlerFails, ReconcileFound,
      ReconcileNotFound, Crash, StartupReconcile, Unpaid
<1>12. CASE PlanExecution
  BY <1>3, <1>6, <1>8, <1>12 DEF PlanExecution, ExecuteLeg, ReleaseLeg, SyncPlan, Unpaid
<1>13. CASE Webhooks
  BY <1>13, WebhookSteps DEF Webhooks
<1>14. CASE \E i \in Intents : ExpireIntent(i)
  BY <1>14 DEF ExpireIntent, Unpaid
<1>15. QED
  BY <1>9, <1>10, <1>11, <1>12, <1>13, <1>14 DEF Next

\* What a step does to the table, whoever makes it.
LEMMA MandateSteps ==
    ASSUME TypeOK, [Next]_vars
    PROVE  \/ mandates' = mandates
           \/ Insertion
           \/ StartupReset
           \/ \E m \in Rows : StatusChange(m) \/ Capture(m) \/ Failure(m) \/ Release(m)
<1>1. QED
  BY HandlerSteps DEF Unpaid, OtherWebhook

-----------------------------------------------------------------------------
\* What a mandate holds follows from its status, whichever handler, restart or
\* recovery brought it there.
LEMMA AccountingInit == Init => MandateAccounting
  BY DEF Init, MandateAccounting, Rows

\* Every step keeps what the registry and the mandates agree on.
LEMMA AccountingStep == TypeOK /\ MandateAccounting /\ [Next]_vars => MandateAccounting'
<1> DEFINE Balanced(row) ==
        /\ row.status \in HoldsBudget => row.reserved = row.amount /\ row.captured = 0
        /\ row.status = "PAYMENT_CAPTURED" => row.reserved = 0 /\ row.captured = row.amount
        /\ row.status \in Unsuccessful => row.reserved = 0 /\ row.captured = 0
<1> SUFFICES ASSUME TypeOK, MandateAccounting, [Next]_vars
             PROVE  \A k \in Rows' : Balanced(mandates'[k])
  BY DEF MandateAccounting
<1>0. \A k \in Rows : Balanced(mandates[k]) /\ mandates[k] \in MandateRow
  BY RowFacts DEF MandateAccounting
<1>1. CASE mandates' = mandates
  BY <1>0, <1>1 DEF Rows
<1>2. CASE Insertion
  <2>1. \A k \in Rows' : k \in Rows \/ Balanced(mandates'[k])
    BY <1>2 DEF Insertion, HoldsBudget, InFlight, AwaitsPayment, Unsuccessful
  <2>2. QED
    BY <1>0, <1>2, <2>1 DEF Insertion
<1>3. CASE StartupReset
  <2>1. \A k \in Rows : Balanced(RowWithStatus(k, "RESERVED")) \/ mandates[k].status # "ORDER_CREATING"
    BY <1>0 DEF RowWithStatus, MandateRow, HoldsBudget, InFlight, AwaitsPayment, Unsuccessful
  <2>2. QED
    BY <1>0, <1>3, <2>1 DEF StartupReset, Rows
<1>4. ASSUME NEW m \in Rows, StatusChange(m) \/ Capture(m) \/ Failure(m) \/ Release(m)
      PROVE  \A k \in Rows' : Balanced(mandates'[k])
  <2>1. ASSUME NEW row, RowBecomes(m, row), Balanced(row)
        PROVE  \A k \in Rows' : Balanced(mandates'[k])
    BY <1>0, <2>1 DEF RowBecomes, Rows
  <2>2. CASE StatusChange(m)
    <3>1. PICK status : /\ RowBecomes(m, RowWithStatus(m, status))
                        /\ mandates[m].status \in HoldsBudget /\ status \in HoldsBudget
      BY <2>2 DEF StatusChange
    <3>2. /\ RowWithStatus(m, status).status = status
          /\ RowWithStatus(m, status).reserved = mandates[m].reserved
          /\ RowWithStatus(m, status).captured = mandates[m].captured
          /\ RowWithStatus(m, status).amount = mandates[m].amount
      BY <1>0 DEF RowWithStatus, MandateRow
    <3>3. Balanced(RowWithStatus(m, status))
      BY <1>0, <3>1, <3>2 DEF HoldsBudget, InFlight, AwaitsPayment, Unsuccessful
    <3>4. QED
      BY <2>1, <3>1, <3>3
  <2>3. CASE Capture(m)
    <3>1. Balanced(RowWithOutcome(m, "PAYMENT_CAPTURED", mandates[m].amount))
      BY <1>0 DEF RowWithOutcome, MandateRow, HoldsBudget, InFlight, AwaitsPayment, Unsuccessful
    <3>2. QED
      BY <2>1, <2>3, <3>1 DEF Capture
  <2>4. CASE Failure(m)
    <3>1. mandates[m].captured = 0
      BY <1>0, <2>4 DEF Failure, HoldsBudget, InFlight
    <3>2. Balanced(RowWithOutcome(m, "PAYMENT_FAILED", mandates[m].captured))
      BY <1>0, <3>1
      DEF RowWithOutcome, MandateRow, HoldsBudget, InFlight, AwaitsPayment, Unsuccessful
    <3>3. QED
      BY <2>1, <2>4, <3>2 DEF Failure
  <2>5. CASE Release(m)
    <3>1. /\ mandates[m].captured = 0
          /\ ReleasedStatus(m) \in Unsuccessful
      BY <1>0, <2>5, TerminalStatuses, RowFacts
      DEF Release, ReleasedStatus, HoldsBudget, InFlight, AwaitsPayment, Unsuccessful, MandateStatus
    <3>2. Balanced(RowWithOutcome(m, ReleasedStatus(m), mandates[m].captured))
      BY <1>0, <3>1
      DEF RowWithOutcome, MandateRow, HoldsBudget, InFlight, AwaitsPayment, Unsuccessful
    <3>3. QED
      BY <2>1, <2>5, <3>2 DEF Release
  <2>6. QED
    BY <1>4, <2>2, <2>3, <2>4, <2>5
<1>5. QED
  BY <1>1, <1>2, <1>3, <1>4, MandateSteps

\* What a mandate holds follows from its status, whichever handler, restart or
\* recovery brought it there.
THEOREM AccountingHolds == Spec => []MandateAccounting
<1>1. QED
  BY AccountingInit, AccountingStep, TypeCorrect, PTL DEF Spec

\* An intent that is not registered has no balance.
AbsentRowsAreEmpty == \A i \in Intents : registry[i].status = "ABSENT" => registry[i] = NoRow

\* A row that was never inserted holds nothing, throughout.
LEMMA AbsentRows == Spec => []AbsentRowsAreEmpty
<1>1. Init => AbsentRowsAreEmpty
  BY DEF Init, AbsentRowsAreEmpty
<1>2. TypeOK /\ AbsentRowsAreEmpty /\ [Next]_vars => AbsentRowsAreEmpty'
  <2> SUFFICES ASSUME TypeOK, AbsentRowsAreEmpty, [Next]_vars, NEW i \in Intents,
                      registry'[i].status = "ABSENT"
               PROVE  registry'[i] = NoRow
    BY DEF AbsentRowsAreEmpty
  <2>1. /\ registry[i] \in IntentRow /\ Registered(i) \in IntentRow
        /\ registry[i].status = "ABSENT" => registry[i] = NoRow
        /\ NoRow.reserved = 0
        /\ Registered(i).status # "ABSENT"
    BY RegistryRows DEF AbsentRowsAreEmpty, NoRow, FreshRow, Registered
  <2>2. registry'[i] # Registered(i)
    BY <2>1
  <2>3. \A total \in Nat : registry'[i] # Charged(Registered(i), i, total)
    BY <2>1, ChargedRow
  <2>4. ASSUME NEW paise \in Nat, registry'[i] = Refunded(registry[i], paise)
        PROVE  registry'[i] = NoRow
    <3>1. registry[i] = NoRow
      BY <2>1, <2>4 DEF Refunded, IntentRow
    <3>2. QED
      <4>1. NoRow = [status |-> "ABSENT", reserved |-> 0, captured |-> 0, consumed |-> 0]
        BY DEF NoRow, FreshRow
      <4>2. registry'[i] = [registry[i] EXCEPT !.reserved = 0]
        BY <2>4, <3>1, <4>1 DEF Refunded
      <4>3. QED
        BY <3>1, <4>1, <4>2
  <2>5. ASSUME NEW paise \in Nat \ {0}, paise <= registry[i].reserved,
               registry'[i] = [registry[i] EXCEPT !.reserved = registry[i].reserved - paise,
                                                  !.captured = registry[i].captured + paise]
        PROVE  registry'[i] = NoRow
    <3>1. registry[i] = NoRow
      BY <2>1, <2>5 DEF IntentRow
    <3>2. QED
      BY <2>1, <2>5, <3>1
  <2>6. QED
    BY <2>1, <2>2, <2>3, <2>4, <2>5, RegistrySteps
<1>3. QED
  BY <1>1, <1>2, TypeCorrect, PTL DEF Spec

\* A commit moves a mandate at most two moves along the table, never out of a
\* final status, keeps what was authorized, and never takes captured money back.
THEOREM OutcomesFinal == Spec => OutcomesAreFinal
<1> DEFINE Kept(m) ==
        /\ m \in Rows'
        /\ WithinTwoMoves(mandates[m].status, mandates'[m].status)
        /\ Contract(mandates[m])' = Contract(mandates[m])
        /\ mandates'[m].captured >= mandates[m].captured
<1>1. TypeOK /\ MandateAccounting /\ [Next]_vars => \A m \in Rows : Kept(m)
  <2> SUFFICES ASSUME TypeOK, MandateAccounting, [Next]_vars PROVE \A m \in Rows : Kept(m)
    OBVIOUS
  <2>0. /\ Len(mandates) \in Nat
        /\ \A m \in Rows : /\ mandates[m] \in MandateRow
                           /\ mandates[m].status \in MandateStatus
                           /\ mandates[m].captured \in Nat /\ mandates[m].amount \in Nat
                           /\ WithinTwoMoves(mandates[m].status, mandates[m].status)
    BY RowFacts, HandlerMoves
  <2>1. \A m \in Rows : m \in Rows' /\ mandates'[m] = mandates[m] => Kept(m)
    BY <2>0 DEF Contract
  <2>2. CASE mandates' = mandates
    BY <2>1, <2>2 DEF Rows
  <2>3. CASE Insertion
    <3>1. Len(mandates') \in Nat
      BY <2>3, LenProperties DEF Insertion
    <3>2. QED
      BY <2>0, <2>1, <2>3, <3>1 DEF Insertion, Rows
  <2>4. CASE StartupReset
    <3>1. \A m \in Rows : mandates[m].status = "ORDER_CREATING" /\ m \in Rows'
                             /\ mandates'[m] = RowWithStatus(m, "RESERVED") => Kept(m)
      BY <2>0, HandlerMoves DEF RowWithStatus, Contract, MandateRow
    <3>2. QED
      BY <2>1, <2>4, <3>1 DEF StartupReset, Rows
  <2>5. ASSUME NEW k \in Rows, StatusChange(k) \/ Capture(k) \/ Failure(k) \/ Release(k)
        PROVE  \A m \in Rows : Kept(m)
    <3>1. ASSUME NEW row, RowBecomes(k, row),
                 WithinTwoMoves(mandates[k].status, row.status),
                 Contract(row) = Contract(mandates[k]),
                 row.captured >= mandates[k].captured
          PROVE  \A m \in Rows : Kept(m)
      BY <2>1, <3>1 DEF RowBecomes, Rows, Contract
    <3>2. CASE StatusChange(k)
      <4>1. PICK status : /\ RowBecomes(k, RowWithStatus(k, status))
                          /\ WithinTwoMoves(mandates[k].status, status)
        BY <3>2 DEF StatusChange
      <4>2. /\ RowWithStatus(k, status).status = status
            /\ Contract(RowWithStatus(k, status)) = Contract(mandates[k])
            /\ RowWithStatus(k, status).captured = mandates[k].captured
        BY <2>0 DEF RowWithStatus, MandateRow, Contract
      <4>3. QED
        BY <2>0, <3>1, <4>1, <4>2
    <3>3. \A status, captured :
             LET row == RowWithOutcome(k, status, captured) IN
             row.status = status /\ Contract(row) = Contract(mandates[k])
               /\ row.captured = captured
      BY <2>0 DEF RowWithOutcome, MandateRow, Contract
    <3>4. CASE Capture(k)
      <4>1. mandates[k].captured = 0
        BY <3>4 DEF Capture, MandateAccounting, HoldsBudget, InFlight
      <4>2. WithinTwoMoves(mandates[k].status, "PAYMENT_CAPTURED")
        BY <3>4, HandlerMoves DEF Capture
      <4>3. QED
        BY <2>0, <3>1, <3>3, <3>4, <4>1, <4>2 DEF Capture
    <3>5. CASE Failure(k)
      <4>1. WithinTwoMoves(mandates[k].status, "PAYMENT_FAILED")
        BY <3>5 DEF Failure, AwaitsPayment, WithinTwoMoves, TransitionLegal, CanTransition,
                    AllowedTransitions, MandateStatus
      <4>2. QED
        BY <2>0, <3>1, <3>3, <3>5, <4>1 DEF Failure
    <3>6. CASE Release(k)
      <4>1. WithinTwoMoves(mandates[k].status, ReleasedStatus(k))
        BY <2>0, HandlerMoves DEF ReleasedStatus
      <4>2. QED
        BY <2>0, <3>1, <3>3, <3>6, <4>1 DEF Release
    <3>7. QED
      BY <2>5, <3>2, <3>4, <3>5, <3>6
  <2>6. QED
    BY <2>2, <2>3, <2>4, <2>5, MandateSteps
<1>2. TypeOK /\ AbsentRowsAreEmpty /\ [Next]_vars =>
         \A i \in Intents : registry'[i].captured >= registry[i].captured
  <2> SUFFICES ASSUME TypeOK, AbsentRowsAreEmpty, [Next]_vars, NEW i \in Intents
               PROVE  registry'[i].captured >= registry[i].captured
    OBVIOUS
  <2>1. registry[i] \in IntentRow /\ Registered(i) \in IntentRow
        /\ registry[i].captured \in Nat
    BY RegistryRows DEF IntentRow
  <2>2. Registered(i).captured = registry[i].captured
    BY <2>1 DEF Registered, FreshRow, AbsentRowsAreEmpty, NoRow
  <2>3. \A total \in Nat : Charged(Registered(i), i, total).captured = registry[i].captured
    BY <2>1, <2>2, ChargedRow
  <2>4. \A paise \in Nat : Refunded(registry[i], paise).captured = registry[i].captured
    BY <2>1 DEF Refunded, IntentRow
  <2>5. \A paise \in Nat \ {0} :
           [registry[i] EXCEPT !.reserved = registry[i].reserved - paise,
                               !.captured = registry[i].captured + paise].captured
             >= registry[i].captured
    BY <2>1 DEF IntentRow
  <2>6. registry'[i].captured = registry[i].captured => registry'[i].captured >= registry[i].captured
    BY <2>1
  <2>7. QED
    <3>1. CASE registry'[i] = registry[i] \/ registry'[i] = Registered(i)
      BY <2>2, <2>6, <3>1
    <3>2. ASSUME NEW total \in Nat, registry'[i] = Charged(Registered(i), i, total)
          PROVE  registry'[i].captured >= registry[i].captured
      BY <2>3, <2>6, <3>2
    <3>3. ASSUME NEW paise \in Nat, registry'[i] = Refunded(registry[i], paise)
          PROVE  registry'[i].captured >= registry[i].captured
      BY <2>4, <2>6, <3>3
    <3>4. ASSUME NEW paise \in Nat \ {0},
                 registry'[i] = [registry[i] EXCEPT !.reserved = registry[i].reserved - paise,
                                                    !.captured = registry[i].captured + paise]
          PROVE  registry'[i].captured >= registry[i].captured
      BY <2>5, <3>4
    <3>5. QED
      BY <3>1, <3>2, <3>3, <3>4, RegistrySteps
<1>3. QED
  BY <1>1, <1>2, TypeCorrect, AccountingHolds, AbsentRows, PTL DEF Spec, OutcomesAreFinal

-----------------------------------------------------------------------------
\* What a step that adds no row leaves alone.
ContractsKept ==
    /\ Len(mandates') = Len(mandates)
    /\ \A m \in Rows :
          /\ mandates'[m].intent = mandates[m].intent
          /\ mandates'[m].plan = mandates[m].plan
          /\ mandates'[m].merchant = mandates[m].merchant
          /\ mandates'[m].key = mandates[m].key
          /\ mandates'[m].amount = mandates[m].amount
    /\ \A p \in Plans : plans'[p].intent = plans[p].intent

\* Writing one plan's status leaves everything else of the plans alone.
LEMMA StatusWritten ==
    ASSUME TypeOK, NEW p, NEW status, plans' = WithStatus(p, status)
    PROVE  \A q \in Plans : /\ plans'[q].intent = plans[q].intent
                            /\ plans'[q].status = IF q = p THEN status ELSE plans[q].status
                            /\ q # p => plans'[q] = plans[q]
<1>1. \A q \in Plans : plans[q] \in PlanRow
  BY DEF TypeOK
<1>2. \A q \in Plans : plans'[q] = IF q = p THEN [plans[q] EXCEPT !.status = status] ELSE plans[q]
  BY DEF WithStatus
<1>3. QED
  BY <1>1, <1>2 DEF PlanRow

\* A synchronisation writes one plan's status or leaves the plans alone.
LEMMA SyncedPlans ==
    ASSUME TypeOK, NEW rows, NEW p, plans' \in Synced(rows, p)
    PROVE  \/ plans' = plans
           \/ \E status \in SeenStatus(rows, p) :
              \A q \in Plans : /\ plans'[q].intent = plans[q].intent
                               /\ plans'[q].status = IF q = p THEN status ELSE plans[q].status
                               /\ q # p => plans'[q] = plans[q]
<1>1. plans' = plans \/ \E status \in SeenStatus(rows, p) : plans' = WithStatus(p, status)
  BY DEF Synced, Stored
<1>2. QED
  BY <1>1, StatusWritten

\* So does one that comes late.
LEMMA LateSyncedPlans ==
    ASSUME TypeOK, NEW rows, NEW p, NEW changed, plans' \in LateSynced(rows, p, changed)
    PROVE  \/ plans' = plans
           \/ \E seen \in LoadedEarlier(rows, p, changed) :
              \A q \in Plans : /\ plans'[q].intent = plans[q].intent
                               /\ plans'[q].status = IF q = p THEN DerivedStatus(seen, p)
                                                     ELSE plans[q].status
                               /\ q # p => plans'[q] = plans[q]
<1>1. \/ plans' = plans
      \/ \E seen \in LoadedEarlier(rows, p, changed) : plans' = WithStatus(p, DerivedStatus(seen, p))
  BY DEF LateSynced, Stored
<1>2. QED
  BY <1>1, StatusWritten

\* Only the two authorizations add rows; every other step keeps the contracts.
LEMMA ContractSteps ==
    ASSUME TypeOK, [Next]_vars
    PROVE  \/ ContractsKept
           \/ \E i \in Intents, merchant \in Merchants, key \in Keys, total \in CartTotals,
                 ok \in BOOLEAN, caller \in {"reserved", "agent"} :
                   AuthorizeMandate(i, merchant, key, total, ok, caller)
           \/ \E i \in Intents, p \in Plans, legs \in Legs : \E total \in 1 .. SpendCap[i] :
                   AuthorizePlan(i, p, legs, total)
<1> DEFINE PlansKept == \A p \in Plans : plans'[p].intent = plans[p].intent
           RowsKept ==
               /\ Len(mandates') = Len(mandates)
               /\ \A m \in Rows :
                     /\ mandates'[m].intent = mandates[m].intent
                     /\ mandates'[m].plan = mandates[m].plan
                     /\ mandates'[m].merchant = mandates[m].merchant
                     /\ mandates'[m].key = mandates[m].key
                     /\ mandates'[m].amount = mandates[m].amount
<1>1. ASSUME mandates' = mandates PROVE RowsKept
  BY <1>1
<1>2. ASSUME plans' = plans PROVE PlansKept
  BY <1>2
<1>3. ASSUME NEW rows, NEW p, NEW changed,
             plans' \in Synced(rows, p) \/ plans' \in LateSynced(rows, p, changed)
      PROVE  PlansKept
  BY <1>3, SyncedPlans, LateSyncedPlans
<1>4. ASSUME NEW m \in Rows, NEW status, RowBecomes(m, RowWithStatus(m, status)) PROVE RowsKept
  <2>1. /\ RowWithStatus(m, status).intent = mandates[m].intent
        /\ RowWithStatus(m, status).plan = mandates[m].plan
        /\ RowWithStatus(m, status).merchant = mandates[m].merchant
        /\ RowWithStatus(m, status).key = mandates[m].key
        /\ RowWithStatus(m, status).amount = mandates[m].amount
    BY RowFacts DEF RowWithStatus, MandateRow
  <2>2. QED
    BY <1>4, <2>1 DEF RowBecomes
<1>5. ASSUME NEW m \in Rows, NEW status, NEW captured,
             RowBecomes(m, RowWithOutcome(m, status, captured))
      PROVE  RowsKept
  <2> DEFINE row == RowWithOutcome(m, status, captured)
  <2>1. /\ row.intent = mandates[m].intent
        /\ row.plan = mandates[m].plan
        /\ row.merchant = mandates[m].merchant
        /\ row.key = mandates[m].key
        /\ row.amount = mandates[m].amount
    BY RowFacts DEF RowWithOutcome, MandateRow
  <2> HIDE DEF row
  <2>2. QED
    BY <1>5, <2>1 DEF RowBecomes, row
<1>6. ASSUME StartupReconcile PROVE RowsKept
  <2>1. Len(mandates') = Len(mandates)
    BY <1>6, RowFacts DEF StartupReconcile, Rows
  <2>2. \A m \in Rows : /\ mandates[m] \in MandateRow
                        /\ mandates'[m] = IF mandates[m].status = "ORDER_CREATING"
                                          THEN [mandates[m] EXCEPT !.status = "RESERVED"]
                                          ELSE mandates[m]
    BY <1>6, RowFacts DEF StartupReconcile
  <2>3. QED
    BY <2>1, <2>2 DEF MandateRow
<1>7. CASE UNCHANGED vars
  BY <1>1, <1>2, <1>7 DEF vars, ContractsKept
<1>8. CASE Authorization
  <2>1. ASSUME \/ \E i \in Intents : RegisterIntent(i)
               \/ \E i \in Intents : \E merchant, key, total, ok :
                     AuthorizeMandateRejected(i, merchant, key, total, ok)
               \/ \E i \in Intents : \E p, legs : AuthorizePlanRejected(i, p, legs)
        PROVE  ContractsKept
    <3>1. mandates' = mandates /\ plans' = plans
      BY <2>1 DEF RegisterIntent, AuthorizeMandateRejected, AuthorizePlanRejected
    <3>2. QED
      BY <1>1, <1>2, <3>1 DEF ContractsKept
  <2>2. QED
    BY <1>8, <2>1 DEF Authorization
<1>9. CASE OrderHandling
  <2>1. plans' = plans
    BY <1>9
    DEF OrderHandling, BeginOrder, CallGateway, FinishOrder, AgentOrder, HandlerFails, Crash,
        StartupReconcile, ReconcileFound, ReconcileNotFound
  <2>2. \/ mandates' = mandates
        \/ StartupReconcile
        \/ \E m \in Rows : \E status : RowBecomes(m, RowWithStatus(m, status))
    BY <1>9, StatusSteps DEF OrderHandling, CallGateway, HandlerFails, Crash
  <2> HIDE DEF PlansKept, RowsKept
  <2>3. RowsKept /\ PlansKept
    BY <1>1, <1>2, <1>4, <1>6, <2>1, <2>2
  <2>4. QED
    BY <2>3 DEF ContractsKept, RowsKept, PlansKept
<1>10. CASE PlanExecution
  <2>1. plans' = plans \/ \E rows, p, changed : plans' \in LateSynced(rows, p, changed)
    BY <1>10 DEF PlanExecution, ExecuteLeg, ReleaseLeg, SyncPlan
  <2>2. \/ mandates' = mandates
        \/ \E m \in Rows : \E status : RowBecomes(m, RowWithStatus(m, status))
        \/ \E m \in Rows : \E status, captured : RowBecomes(m, RowWithOutcome(m, status, captured))
    BY <1>10, StatusSteps, OutcomeSteps DEF PlanExecution, SyncPlan
  <2> HIDE DEF PlansKept, RowsKept
  <2>3. RowsKept /\ PlansKept
    BY <1>1, <1>2, <1>3, <1>4, <1>5, <2>1, <2>2
  <2>4. QED
    BY <2>3 DEF ContractsKept, RowsKept, PlansKept
<1>11. CASE Webhooks
  <2>1. plans' = plans \/ \E rows, p : plans' \in Synced(rows, p)
    BY <1>11 DEF Webhooks, CaptureWebhook, FailWebhook, OtherWebhook
  <2>2. \/ mandates' = mandates
        \/ \E m \in Rows : \E status, captured : RowBecomes(m, RowWithOutcome(m, status, captured))
    BY <1>11, OutcomeSteps DEF Webhooks, OtherWebhook
  <2> HIDE DEF PlansKept, RowsKept
  <2>3. RowsKept /\ PlansKept
    BY <1>1, <1>2, <1>3, <1>5, <2>1, <2>2
  <2>4. QED
    BY <2>3 DEF ContractsKept, RowsKept, PlansKept
<1>12. CASE \E i \in Intents : ExpireIntent(i)
  <2>1. mandates' = mandates /\ plans' = plans
    BY <1>12 DEF ExpireIntent
  <2>2. QED
    BY <1>1, <1>2, <2>1 DEF ContractsKept
<1>13. QED
  BY <1>7, <1>8, <1>9, <1>10, <1>11, <1>12 DEF Next

\* The row a standalone authorization adds.
LEMMA MandateAdded ==
    ASSUME TypeOK, NEW i \in Intents, NEW merchant \in Merchants, NEW key \in Keys,
           NEW total \in CartTotals, NEW ok, NEW caller,
           AuthorizeMandate(i, merchant, key, total, ok, caller)
    PROVE  LET new == Len(mandates) + 1 IN
           /\ Len(mandates') = new
           /\ new \in 1 .. MaxMandates /\ new \notin Rows /\ Rows' = Rows \cup {new}
           /\ \A m \in Rows : mandates'[m] = mandates[m]
           /\ mandates'[new] = NewMandate(i, NoPlan, merchant, key, total)
<1>1. mandates \in Seq(MandateRow) /\ Len(mandates) \in Nat
  BY RowFacts DEF TypeOK
<1>2. mandates' = Append(mandates, NewMandate(i, NoPlan, merchant, key, total))
  BY DEF AuthorizeMandate
<1>3. NewMandate(i, NoPlan, merchant, key, total) \in MandateRow
  BY NewMandateType
<1>4. Len(mandates) < MaxMandates
  BY DEF AuthorizeMandate
<1>5. QED
  BY <1>1, <1>2, <1>3, <1>4, BoundsAssumption DEF Rows

\* The rows a plan's authorization adds.
LEMMA PlanAdded ==
    ASSUME TypeOK, NEW i \in Intents, NEW p \in Plans, NEW legs \in Legs, NEW total,
           AuthorizePlan(i, p, legs, total)
    PROVE  LET Leg(m) == legs[m - Len(mandates)] IN
           /\ Len(legs) \in Nat \ {0}
           /\ Rows \subseteq Rows' /\ Len(mandates') = Len(mandates) + Len(legs)
           /\ \A m \in Rows : mandates'[m] = mandates[m]
           /\ \A m \in Rows' \ Rows :
                 /\ m \in Len(mandates) + 1 .. Len(mandates')
                 /\ m - Len(mandates) \in 1 .. Len(legs)
                 /\ m \in 1 .. MaxMandates
                 /\ mandates'[m] = NewMandate(i, p, Leg(m).merchant, LegKey(p, Leg(m).merchant),
                                              Leg(m).total)
<1> DEFINE NewLeg(leg) == NewMandate(i, p, leg.merchant, LegKey(p, leg.merchant), leg.total)
<1>1. Len(mandates) \in Nat
  BY RowFacts
<1>2. /\ Len(legs) \in Nat \ {0}
      /\ Len(mandates') = Len(mandates) + Len(legs)
      /\ \A k \in 1 .. Len(mandates') :
            mandates'[k] = IF k <= Len(mandates) THEN mandates[k]
                           ELSE NewLeg(legs[k - Len(mandates)])
  BY PlanAppend DEF AuthorizePlan
<1>3. Len(mandates) + Len(legs) <= MaxMandates
  BY DEF AuthorizePlan
<1> HIDE DEF NewLeg
<1>4. \A m \in Rows' \ Rows : /\ m \in Len(mandates) + 1 .. Len(mandates')
                              /\ m - Len(mandates) \in 1 .. Len(legs)
                              /\ m \in 1 .. MaxMandates
                              /\ mandates'[m] = NewLeg(legs[m - Len(mandates)])
  BY <1>1, <1>2, <1>3, BoundsAssumption DEF Rows
<1>5. Rows \subseteq Rows' /\ \A m \in Rows : mandates'[m] = mandates[m]
  BY <1>1, <1>2 DEF Rows
<1>6. QED
  BY <1>2, <1>4, <1>5 DEF NewLeg

\* An intent has one plan at most; its legs belong to it and go to different
\* merchants the user allowed; no two mandates of an intent share an idempotency key.
LEMMA CoherenceStep == TypeOK /\ PlansAreCoherent /\ [Next]_vars => PlansAreCoherent'
<1> SUFFICES ASSUME TypeOK, PlansAreCoherent, [Next]_vars PROVE PlansAreCoherent'
  OBVIOUS
<1>0. /\ Len(mandates) \in Nat
      /\ \A m \in Rows : /\ mandates[m].intent \in Intents
                         /\ mandates[m].plan \in Plans \cup {NoPlan}
  BY RowFacts DEF MandateRow
<1>1. CASE ContractsKept
  <2>1. Rows' = Rows
    BY <1>1 DEF ContractsKept, Rows
  <2>2. \A p, q \in Plans : plans'[p].intent = plans'[q].intent /\ plans'[p].intent # NoIntent => p = q
    BY <1>1 DEF ContractsKept, PlansAreCoherent
  <2>3. \A m \in Rows :
          /\ mandates'[m].merchant \in AllowedMerchants[mandates'[m].intent]
          /\ mandates'[m].plan # NoPlan => plans'[mandates'[m].plan].intent = mandates'[m].intent
    BY <1>0, <1>1 DEF ContractsKept, PlansAreCoherent
  <2>4. \A m, n \in Rows :
          m # n /\ mandates'[m].intent = mandates'[n].intent =>
              /\ mandates'[m].key # mandates'[n].key
              /\ mandates'[m].plan = NoPlan \/ mandates'[m].plan # mandates'[n].plan
                   \/ mandates'[m].merchant # mandates'[n].merchant
    BY <1>1 DEF ContractsKept, PlansAreCoherent
  <2>5. QED
    BY <2>1, <2>2, <2>3, <2>4 DEF PlansAreCoherent
<1>2. ASSUME NEW i \in Intents, NEW merchant \in Merchants, NEW key \in Keys,
             NEW total \in CartTotals, NEW ok \in BOOLEAN, NEW caller \in {"reserved", "agent"},
             AuthorizeMandate(i, merchant, key, total, ok, caller)
      PROVE  PlansAreCoherent'
  <2> DEFINE new == Len(mandates) + 1
  <2>1. /\ Rows' = Rows \cup {new} /\ new \notin Rows
        /\ \A m \in Rows : mandates'[m] = mandates[m]
        /\ mandates'[new].intent = i /\ mandates'[new].plan = NoPlan
        /\ mandates'[new].merchant = merchant /\ mandates'[new].key = key
    <3>1. /\ Rows' = Rows \cup {new} /\ new \notin Rows
          /\ \A m \in Rows : mandates'[m] = mandates[m]
          /\ mandates'[new] = NewMandate(i, NoPlan, merchant, key, total)
      BY <1>2, MandateAdded
    <3> HIDE DEF new
    <3>2. QED
      BY <3>1 DEF NewMandate
  <2> HIDE DEF new
  <2>2. /\ plans' = plans
        /\ merchant \in AllowedMerchants[i]
        /\ \A m \in Rows : mandates[m].intent = i => mandates[m].key # key
    BY <1>2 DEF AuthorizeMandate, MandateAdmitted, KeyUsed
  <2>3. \A m \in Rows' :
          /\ mandates'[m].merchant \in AllowedMerchants[mandates'[m].intent]
          /\ mandates'[m].plan # NoPlan => plans'[mandates'[m].plan].intent = mandates'[m].intent
    BY <2>1, <2>2 DEF PlansAreCoherent
  <2>4. \A m, n \in Rows' :
          m # n /\ mandates'[m].intent = mandates'[n].intent =>
              /\ mandates'[m].key # mandates'[n].key
              /\ mandates'[m].plan = NoPlan \/ mandates'[m].plan # mandates'[n].plan
                   \/ mandates'[m].merchant # mandates'[n].merchant
    <3>1. SUFFICES ASSUME NEW m \in Rows', NEW n \in Rows', m # n,
                          mandates'[m].intent = mandates'[n].intent
                   PROVE  /\ mandates'[m].key # mandates'[n].key
                          /\ mandates'[m].plan = NoPlan \/ mandates'[m].plan # mandates'[n].plan
                               \/ mandates'[m].merchant # mandates'[n].merchant
      OBVIOUS
    <3>2. CASE m \in Rows /\ n \in Rows
      BY <2>1, <3>1, <3>2 DEF PlansAreCoherent
    <3>3. CASE m = new /\ n \in Rows
      BY <2>1, <2>2, <3>1, <3>3
    <3>4. CASE m \in Rows /\ n = new
      BY <2>1, <2>2, <3>1, <3>4
    <3>5. QED
      BY <2>1, <3>1, <3>2, <3>3, <3>4
  <2>5. QED
    BY <2>2, <2>3, <2>4 DEF PlansAreCoherent
<1>3. ASSUME NEW i \in Intents, NEW p \in Plans, NEW legs \in Legs, NEW total,
             AuthorizePlan(i, p, legs, total)
      PROVE  PlansAreCoherent'
  <2> DEFINE Leg(m) == legs[m - Len(mandates)]
  <2>1. /\ Rows \subseteq Rows'
        /\ \A m \in Rows : mandates'[m] = mandates[m]
        /\ \A m \in Rows' \ Rows :
              /\ m \in Len(mandates) + 1 .. Len(mandates')
              /\ m - Len(mandates) \in 1 .. Len(legs)
              /\ mandates'[m].intent = i
              /\ mandates'[m].plan = p
              /\ mandates'[m].merchant = Leg(m).merchant
              /\ mandates'[m].key = LegKey(p, Leg(m).merchant)
    <3>1. /\ Rows \subseteq Rows'
          /\ \A m \in Rows : mandates'[m] = mandates[m]
          /\ \A m \in Rows' \ Rows :
                /\ m \in Len(mandates) + 1 .. Len(mandates')
                /\ m - Len(mandates) \in 1 .. Len(legs)
                /\ mandates'[m] = NewMandate(i, p, Leg(m).merchant, LegKey(p, Leg(m).merchant),
                                             Leg(m).total)
      BY <1>3, PlanAdded
    <3>2. \A leg :
             LET new == NewMandate(i, p, leg.merchant, LegKey(p, leg.merchant), leg.total) IN
             /\ new.intent = i /\ new.plan = p
             /\ new.merchant = leg.merchant /\ new.key = LegKey(p, leg.merchant)
      BY DEF NewMandate
    <3> HIDE DEF Leg
    <3>3. QED
      BY <3>1, <3>2
  <2>2. /\ plans[p].intent = NoIntent
        /\ \A q \in Plans : plans[q].intent # i
        /\ \A k \in 1 .. Len(legs) :
              /\ legs[k].merchant \in AllowedMerchants[i]
              /\ \A l \in 1 .. k - 1 : legs[l].merchant # legs[k].merchant
              /\ \A m \in Rows : mandates[m].intent = i => mandates[m].key # LegKey(p, legs[k].merchant)
    BY <1>3 DEF AuthorizePlan, PlanAdmitted, PlanExistsFor, KeyUsed
  <2>3. \A q \in Plans : plans'[q].intent = IF q = p THEN i ELSE plans[q].intent
    <3>1. plans \in [Plans -> PlanRow]
      BY DEF TypeOK
    <3>2. plans' = [plans EXCEPT ![p] = [intent |-> i, status |-> "CONFIRMED"]]
      BY <1>3 DEF AuthorizePlan
    <3>3. QED
      BY <3>1, <3>2
  <2>4. \A m \in Rows : mandates[m].plan # p
    BY <1>0, <2>2, NoPlanAssumption, NoIntentAssumption DEF PlansAreCoherent
  <2>5. \A m, n \in Rows' \ Rows : m # n => Leg(m).merchant # Leg(n).merchant
    <3>1. \A k, l \in 1 .. Len(legs) : k # l => legs[k].merchant # legs[l].merchant
      BY <1>3, PlanAdded, <2>2
    <3>2. \A m, n \in Rows' \ Rows : m # n => m - Len(mandates) # n - Len(mandates)
      BY <1>0, <2>1
    <3>3. QED
      BY <2>1, <3>1, <3>2
  <2>6. \A q, r \in Plans : plans'[q].intent = plans'[r].intent /\ plans'[q].intent # NoIntent => q = r
    BY <2>2, <2>3 DEF PlansAreCoherent
  <2> HIDE DEF Leg
  <2>7. \A m \in Rows' \ Rows : /\ Leg(m).merchant \in AllowedMerchants[i]
                                /\ \A n \in Rows : mandates[n].intent = i =>
                                      mandates[n].key # LegKey(p, Leg(m).merchant)
    BY <2>1, <2>2 DEF Leg
  <2>8. \A m \in Rows' :
          /\ mandates'[m].merchant \in AllowedMerchants[mandates'[m].intent]
          /\ mandates'[m].plan # NoPlan => plans'[mandates'[m].plan].intent = mandates'[m].intent
    BY <1>0, <2>1, <2>3, <2>4, <2>7 DEF PlansAreCoherent
  <2>9. \A a, b : LegKey(p, a) = LegKey(p, b) => a = b
    BY DEF LegKey
  <2>10. \A m, n \in Rows' :
          m # n /\ mandates'[m].intent = mandates'[n].intent =>
              /\ mandates'[m].key # mandates'[n].key
              /\ mandates'[m].plan = NoPlan \/ mandates'[m].plan # mandates'[n].plan
                   \/ mandates'[m].merchant # mandates'[n].merchant
    <3>1. SUFFICES ASSUME NEW m \in Rows', NEW n \in Rows', m # n,
                          mandates'[m].intent = mandates'[n].intent
                   PROVE  /\ mandates'[m].key # mandates'[n].key
                          /\ mandates'[m].plan = NoPlan \/ mandates'[m].plan # mandates'[n].plan
                               \/ mandates'[m].merchant # mandates'[n].merchant
      OBVIOUS
    <3>2. CASE m \in Rows /\ n \in Rows
      BY <2>1, <3>1, <3>2 DEF PlansAreCoherent
    <3>3. CASE m \notin Rows /\ n \in Rows
      BY <2>1, <2>4, <2>7, <3>1, <3>3
    <3>4. CASE m \in Rows /\ n \notin Rows
      BY <2>1, <2>4, <2>7, <3>1, <3>4
    <3>5. CASE m \notin Rows /\ n \notin Rows
      BY <2>1, <2>5, <2>9, <3>1, <3>5
    <3>6. QED
      BY <3>2, <3>3, <3>4, <3>5
  <2>11. QED
    BY <2>6, <2>8, <2>10 DEF PlansAreCoherent
<1>4. QED
  BY <1>1, <1>2, <1>3, ContractSteps

\* An intent has one plan at most; its legs belong to it and go to different
\* merchants the user allowed; no two mandates of an intent share an idempotency key.
THEOREM CoherenceHolds == Spec => []PlansAreCoherent
<1>1. Init => PlansAreCoherent
  BY DEF Init, PlansAreCoherent, Rows
<1>2. QED
  BY <1>1, CoherenceStep, TypeCorrect, PTL DEF Spec

-----------------------------------------------------------------------------
\* What a step that charges nobody leaves of an intent's allowance.
AllowanceKept(i) ==
    \/ registry'[i].status = registry[i].status /\ registry'[i].consumed = registry[i].consumed
    \/ registry'[i] = Registered(i)

\* Only the two authorizations charge an intent.
LEMMA ChargeSteps ==
    ASSUME TypeOK, [Next]_vars
    PROVE  \/ \A i \in Intents : AllowanceKept(i)
           \/ \E i \in Intents, merchant \in Merchants, key \in Keys, total \in CartTotals,
                 ok \in BOOLEAN, caller \in {"reserved", "agent"} :
                   AuthorizeMandate(i, merchant, key, total, ok, caller)
           \/ \E i \in Intents, p \in Plans, legs \in Legs : \E total \in 1 .. SpendCap[i] :
                   AuthorizePlan(i, p, legs, total)
<1> DEFINE Goal == \A i \in Intents : AllowanceKept(i)
<1>0. registry \in [Intents -> IntentRow]
  BY DEF TypeOK
<1>1. ASSUME registry' = registry PROVE Goal
  BY <1>1 DEF AllowanceKept
<1>2. ASSUME NEW j \in Intents, registry' = [registry EXCEPT ![j] = Registered(j)] PROVE Goal
  BY <1>0, <1>2 DEF AllowanceKept
<1>3. ASSUME NEW j \in Intents, RegisterIntent(j) PROVE Goal
  BY <1>0, <1>3 DEF RegisterIntent, Registered, AllowanceKept
<1>4. ASSUME NEW j \in Intents, NEW paise \in Nat,
             registry' = [registry EXCEPT ![j] = Refunded(registry[j], paise)]
      PROVE  Goal
  BY <1>0, <1>4, RefundedRow DEF AllowanceKept
<1>5. ASSUME NEW j \in Intents, NEW reserved, NEW captured,
             registry' = [registry EXCEPT ![j] = [registry[j] EXCEPT !.reserved = reserved,
                                                                     !.captured = captured]]
      PROVE  Goal
  <2>1. [registry[j] EXCEPT !.reserved = reserved, !.captured = captured].status
           = registry[j].status
    BY <1>0 DEF IntentRow
  <2>2. [registry[j] EXCEPT !.reserved = reserved, !.captured = captured].consumed
           = registry[j].consumed
    BY <1>0 DEF IntentRow
  <2>3. QED
    BY <1>0, <1>5, <2>1, <2>2 DEF AllowanceKept
<1>6. ASSUME NEW m \in Rows, NEW e, NEW amount \in CartTotals, CaptureWebhook(e, m, amount)
      PROVE  Goal
  <2>1. mandates[m].intent \in Intents
    BY RowFacts
  <2>2. registry' = [registry EXCEPT ![mandates[m].intent] =
                        [registry[mandates[m].intent] EXCEPT
                            !.reserved = registry[mandates[m].intent].reserved - amount,
                            !.captured = registry[mandates[m].intent].captured + amount]]
    BY <1>0, <1>6, <2>1 DEF CaptureWebhook
  <2> HIDE DEF Goal
  <2>3. QED
    BY <1>5, <2>1, <2>2
<1>7. ASSUME NEW m \in Rows, NEW e, FailWebhook(e, m) PROVE Goal
  BY <1>4, <1>7, RowFacts DEF FailWebhook
<1>8. ASSUME NEW m \in Rows, ReleaseLeg(m) PROVE Goal
  BY <1>4, <1>8, RowFacts DEF ReleaseLeg
<1> HIDE DEF Goal
<1>9. CASE Authorization
  BY <1>2, <1>3, <1>1, <1>9
  DEF Authorization, AuthorizeMandateRejected, AuthorizePlanRejected, Goal
<1>10. CASE OrderHandling
  BY <1>1, <1>10
  DEF OrderHandling, BeginOrder, CallGateway, FinishOrder, AgentOrder, HandlerFails, Crash,
      StartupReconcile, ReconcileFound, ReconcileNotFound, Goal
<1>11. CASE PlanExecution
  BY <1>1, <1>8, <1>11 DEF PlanExecution, ExecuteLeg, SyncPlan, Goal
<1>12. CASE Webhooks
  BY <1>1, <1>6, <1>7, <1>12 DEF Webhooks, OtherWebhook, Goal
<1>13. CASE \/ \E i \in Intents : ExpireIntent(i)
            \/ UNCHANGED vars
  BY <1>1, <1>13 DEF ExpireIntent, vars, Goal
<1>14. QED
  BY <1>9, <1>10, <1>11, <1>12, <1>13 DEF Next, Goal

Standalone(i) == {m \in Rows : mandates[m].intent = i /\ mandates[m].plan = NoPlan}

\* transactions_consumed counts the standalone mandates and the plan, and an
\* intent is exhausted when the count reaches its maximum.
LEMMA AllowanceStep ==
    TypeOK /\ AbsentRowsAreEmpty /\ TransactionAllowance /\ [Next]_vars => TransactionAllowance'
<1> DEFINE Used(i) == Cardinality(Standalone(i)) + IF PlanExistsFor(i) THEN 1 ELSE 0
           Allowed(row, used, i) ==
              /\ row.consumed = used
              /\ row.consumed <= MaxTransactions[i]
              /\ row.status = "EXHAUSTED" <=> row.consumed = MaxTransactions[i]
<1> SUFFICES ASSUME TypeOK, AbsentRowsAreEmpty, TransactionAllowance, [Next]_vars,
                    NEW i \in Intents
             PROVE  Allowed(registry'[i], Used(i)', i)
  BY DEF TransactionAllowance, Standalone
<1>1. /\ Allowed(registry[i], Used(i), i)
      /\ registry[i] \in IntentRow /\ registry[i].consumed \in Nat
      /\ MaxTransactions[i] \in Nat \ {0}
  BY RegistryRows, MaxTransactionsAssumption DEF TransactionAllowance, Standalone, IntentRow
<1>2. /\ Registered(i) \in IntentRow
      /\ Registered(i).consumed = registry[i].consumed
      /\ Registered(i).status = "EXHAUSTED" <=> registry[i].status = "EXHAUSTED"
  BY RegistryRows DEF Registered, FreshRow, AbsentRowsAreEmpty, NoRow
<1>3. registry \in [Intents -> IntentRow]
  BY DEF TypeOK
<1>4. Len(mandates) \in Nat /\ IsFiniteSet(Standalone(i)) /\ Cardinality(Standalone(i)) \in Nat
  <2>1. IsFiniteSet(Rows) /\ Len(mandates) \in Nat
    BY RowFacts, FS_Interval DEF Rows
  <2>2. QED
    BY <2>1, FS_Subset, FS_CardinalityType DEF Standalone
<1>5. ASSUME AllowanceKept(i), Used(i)' = Used(i) PROVE Allowed(registry'[i], Used(i)', i)
  BY <1>1, <1>2, <1>5 DEF AllowanceKept
<1>6. ASSUME NEW total \in Nat, registry'[i] = Charged(Registered(i), i, total),
             Registered(i).status = "ACTIVE", Registered(i).consumed < MaxTransactions[i],
             Used(i)' = Used(i) + 1
      PROVE  Allowed(registry'[i], Used(i)', i)
  <2>1. /\ registry'[i].consumed = registry[i].consumed + 1
        /\ registry'[i].status = IF registry[i].consumed + 1 >= MaxTransactions[i]
                                 THEN "EXHAUSTED" ELSE "ACTIVE"
    BY <1>2, <1>6, ChargedRow
  <2> HIDE DEF Used
  <2>2. QED
    BY <1>1, <1>2, <1>6, <2>1
<1>7. CASE ContractsKept /\ \A j \in Intents : AllowanceKept(j)
  <2>1. Standalone(i)' = Standalone(i)
    BY <1>7 DEF ContractsKept, Standalone, Rows
  <2>2. PlanExistsFor(i)' = PlanExistsFor(i)
    BY <1>7 DEF ContractsKept, PlanExistsFor
  <2>3. QED
    BY <1>5, <1>7, <2>1, <2>2
<1>8. ASSUME NEW j \in Intents, NEW merchant \in Merchants, NEW key \in Keys,
             NEW total \in CartTotals, NEW ok \in BOOLEAN, NEW caller \in {"reserved", "agent"},
             AuthorizeMandate(j, merchant, key, total, ok, caller)
      PROVE  Allowed(registry'[i], Used(i)', i)
  <2>1. /\ Rows' = Rows \cup {Len(mandates) + 1} /\ Len(mandates) + 1 \notin Rows
        /\ \A m \in Rows : mandates'[m] = mandates[m]
        /\ mandates'[Len(mandates) + 1] = NewMandate(j, NoPlan, merchant, key, total)
    BY <1>8, MandateAdded
  <2>2. /\ mandates'[Len(mandates) + 1].intent = j
        /\ mandates'[Len(mandates) + 1].plan = NoPlan
    BY <2>1 DEF NewMandate
  <2>3. Standalone(i)' = IF i = j THEN Standalone(i) \cup {Len(mandates) + 1} ELSE Standalone(i)
    BY <2>1, <2>2 DEF Standalone
  <2>4. Len(mandates) + 1 \notin Standalone(i)
    BY <2>1 DEF Standalone
  <2>5. PlanExistsFor(i)' = PlanExistsFor(i)
    BY <1>8 DEF AuthorizeMandate, PlanExistsFor
  <2>6. registry'[i] = IF i = j THEN Charged(Registered(i), i, total) ELSE registry[i]
    BY <1>3, <1>8 DEF AuthorizeMandate
  <2>7. CASE i = j
    <3>1. Cardinality(Standalone(i)') = Cardinality(Standalone(i)) + 1
      BY <1>4, <2>3, <2>4, <2>7, FS_AddElement
    <3>2. Used(i)' = Used(i) + 1
      BY <1>4, <2>5, <3>1
    <3>3. Registered(i).status = "ACTIVE" /\ Registered(i).consumed < MaxTransactions[i]
      BY <1>8, <2>7 DEF AuthorizeMandate, MandateAdmitted
    <3>4. total \in Nat
      BY CartTotalsAssumption
    <3>5. QED
      BY <1>6, <2>6, <2>7, <3>2, <3>3, <3>4
  <2>8. CASE i # j
    BY <1>1, <2>3, <2>5, <2>6, <2>8
  <2>9. QED
    BY <2>7, <2>8
<1>9. ASSUME NEW j \in Intents, NEW p \in Plans, NEW legs \in Legs, NEW total \in 1 .. SpendCap[j],
             AuthorizePlan(j, p, legs, total)
      PROVE  Allowed(registry'[i], Used(i)', i)
  <2>1. /\ Rows \subseteq Rows'
        /\ \A m \in Rows : mandates'[m] = mandates[m]
        /\ \A m \in Rows' \ Rows : mandates'[m].plan = p
    <3>1. \A leg : NewMandate(j, p, leg.merchant, LegKey(p, leg.merchant), leg.total).plan = p
      BY DEF NewMandate
    <3>2. QED
      BY <1>9, <3>1, PlanAdded
  <2>2. Standalone(i)' = Standalone(i)
    BY <2>1, NoPlanAssumption DEF Standalone
  <2>3. registry'[i] = IF i = j THEN Charged(Registered(i), i, total) ELSE registry[i]
    BY <1>3, <1>9 DEF AuthorizePlan
  <2>4. \A q \in Plans : plans'[q].intent = IF q = p THEN j ELSE plans[q].intent
    BY <1>9 DEF AuthorizePlan, TypeOK
  <2>5. plans[p].intent = NoIntent /\ ~PlanExistsFor(j)
    BY <1>9 DEF AuthorizePlan, PlanAdmitted
  <2>6. PlanExistsFor(i)' = (PlanExistsFor(i) \/ i = j)
    BY <2>4, <2>5, NoIntentAssumption DEF PlanExistsFor
  <2>7. CASE i = j
    <3>1. Used(i)' = Used(i) + 1
      <4>1. ~PlanExistsFor(i) /\ PlanExistsFor(i)'
        BY <2>5, <2>6, <2>7
      <4>2. Used(i) = Cardinality(Standalone(i)) /\ Used(i)' = Cardinality(Standalone(i)) + 1
        BY <1>4, <2>2, <4>1
      <4>3. QED
        BY <4>2
    <3>2. Registered(i).status = "ACTIVE" /\ Registered(i).consumed < MaxTransactions[i]
      BY <1>9, <2>7 DEF AuthorizePlan, MayRequestPlan, PlanAdmitted
    <3>3. total \in Nat
      BY SpendCapAssumption
    <3>4. QED
      BY <1>6, <2>3, <2>7, <3>1, <3>2, <3>3
  <2>8. CASE i # j
    BY <1>1, <2>2, <2>3, <2>6, <2>8
  <2>9. QED
    BY <2>7, <2>8
<1>10. QED
  BY <1>7, <1>8, <1>9, ContractSteps, ChargeSteps

\* transactions_consumed counts the standalone mandates of the intent and its
\* plan as one more, and EXHAUSTED is set exactly when the maximum is reached.
THEOREM AllowanceHolds == Spec => []TransactionAllowance
<1>1. Init => TransactionAllowance
  <2> SUFFICES ASSUME Init, NEW i \in Intents
               PROVE  /\ NoRow.consumed = Cardinality(Standalone(i))
                                            + IF PlanExistsFor(i) THEN 1 ELSE 0
                      /\ NoRow.consumed <= MaxTransactions[i]
                      /\ NoRow.status = "EXHAUSTED" <=> NoRow.consumed = MaxTransactions[i]
    BY DEF Init, TransactionAllowance, Standalone
  <2>1. Standalone(i) = {}
    BY DEF Init, Standalone, Rows
  <2>2. Cardinality(Standalone(i)) = 0
    BY <2>1, FS_EmptySet
  <2>3. ~PlanExistsFor(i)
    BY NoIntentAssumption DEF Init, PlanExistsFor
  <2>4. QED
    BY <2>2, <2>3, MaxTransactionsAssumption DEF NoRow, FreshRow
<1>2. QED
  BY <1>1, AllowanceStep, TypeCorrect, AbsentRows, PTL DEF Spec

-----------------------------------------------------------------------------
\* The requests that create an order step by step are those of standalone
\* mandates: a leg's order is created in one commit.
HandledAreStandalone ==
    /\ \A m \in 1 .. MaxMandates :
          handler[m] # "none" => m \in Rows /\ mandates[m].plan = NoPlan
    /\ \A m \in Rows : mandates[m].plan # NoPlan => mandates[m].status # "ORDER_CREATING"

\* Only the authorize endpoint moves a mandate to ORDER_CREATING.
LEMMA CreatingSteps ==
    ASSUME TypeOK, [Next]_vars, NEW m \in Rows, mandates'[m].status = "ORDER_CREATING"
    PROVE  mandates[m].status = "ORDER_CREATING" \/ handler[m] = "reserved"
<1>0. mandates[m] \in MandateRow
  BY RowFacts
<1>1. ASSUME NEW k \in Rows, NEW status \in {"ORDER_CREATED", "RESERVED"},
             RowBecomes(k, RowWithStatus(k, status))
      PROVE  mandates[m].status = "ORDER_CREATING"
  <2>1. mandates'[m] = IF m = k THEN RowWithStatus(k, status) ELSE mandates[m]
    BY <1>1 DEF RowBecomes
  <2>2. m = k => RowWithStatus(k, status).status = status
    BY <1>0 DEF RowWithStatus, MandateRow
  <2>3. QED
    BY <2>1, <2>2
<1>2. ASSUME NEW k \in Rows, Capture(k) \/ Failure(k) \/ Release(k)
      PROVE  mandates[m].status = "ORDER_CREATING"
  <2>1. ASSUME NEW status, NEW captured, status # "ORDER_CREATING",
               RowBecomes(k, RowWithOutcome(k, status, captured))
        PROVE  mandates[m].status = "ORDER_CREATING"
    <3>1. mandates'[m] = IF m = k THEN RowWithOutcome(k, status, captured) ELSE mandates[m]
      BY <2>1 DEF RowBecomes
    <3>2. m = k => RowWithOutcome(k, status, captured).status = status
      BY <1>0 DEF RowWithOutcome, MandateRow
    <3>3. QED
      BY <2>1, <3>1, <3>2
  <2>2. ReleasedStatus(k) # "ORDER_CREATING"
    BY DEF ReleasedStatus, HoldsBudget, InFlight
  <2>3. QED
    BY <1>2, <2>1, <2>2 DEF Capture, Failure, Release
<1>3. ASSUME NEW k \in Rows, BeginOrder(k) PROVE mandates[m].status = "ORDER_CREATING" \/ handler[m] = "reserved"
  <2>1. mandates'[m] = IF m = k THEN RowWithStatus(k, "ORDER_CREATING") ELSE mandates[m]
    BY <1>3, StatusSteps DEF RowBecomes
  <2>2. QED
    BY <1>3, <2>1 DEF BeginOrder
<1>4. ASSUME mandates' = mandates PROVE mandates[m].status = "ORDER_CREATING"
  BY <1>4
<1>5. ASSUME Insertion PROVE mandates[m].status = "ORDER_CREATING"
  BY <1>5 DEF Insertion
<1>6. ASSUME StartupReconcile PROVE mandates[m].status = "ORDER_CREATING"
  <2>1. mandates'[m] = IF mandates[m].status = "ORDER_CREATING"
                       THEN [mandates[m] EXCEPT !.status = "RESERVED"] ELSE mandates[m]
    BY <1>6 DEF StartupReconcile
  <2>2. QED
    BY <2>1
<1>7. \/ mandates' = mandates
      \/ Insertion
      \/ StartupReconcile
      \/ \E k \in Rows : BeginOrder(k) \/ Capture(k) \/ Failure(k) \/ Release(k)
      \/ \E k \in Rows : \E status \in {"ORDER_CREATED", "RESERVED"} :
            RowBecomes(k, RowWithStatus(k, status))
  <2>1. CASE OrderHandling
    BY <2>1, StatusSteps DEF OrderHandling, CallGateway, HandlerFails, Crash
  <2>2. CASE PlanExecution
    BY <2>2, StatusSteps, OutcomeSteps DEF PlanExecution, ReleaseLeg, Release, SyncPlan
  <2>3. CASE Webhooks
    BY <2>3, WebhookSteps DEF Webhooks, OtherWebhook
  <2>4. CASE Authorization
    BY <2>4, InsertionSteps
    DEF Authorization, RegisterIntent, AuthorizeMandateRejected, AuthorizePlanRejected
  <2>5. CASE (\E i \in Intents : ExpireIntent(i)) \/ UNCHANGED vars
    BY <2>5 DEF ExpireIntent, vars
  <2>6. QED
    BY <2>1, <2>2, <2>3, <2>4, <2>5 DEF Next
<1>8. QED
  BY <1>1, <1>2, <1>3, <1>4, <1>5, <1>6, <1>7

\* A new row is RESERVED, and an old one keeps its plan.
LEMMA PlansOfRows ==
    ASSUME TypeOK, [Next]_vars
    PROVE  /\ Rows \subseteq Rows'
           /\ \A m \in Rows : mandates'[m].plan = mandates[m].plan
           /\ \A m \in Rows' \ Rows : mandates'[m].status = "RESERVED"
<1>1. CASE ContractsKept
  BY <1>1 DEF ContractsKept, Rows
<1>2. CASE Insertion
  <2>1. Len(mandates) \in Nat /\ Len(mandates') \in Nat
    BY <1>2, RowFacts, LenProperties DEF Insertion
  <2>2. QED
    BY <1>2, <2>1 DEF Insertion, Rows
<1>3. ContractsKept \/ Insertion
  BY ContractSteps, InsertionSteps
<1>4. QED
  BY <1>1, <1>2, <1>3

\* A step leaves only standalone mandates to the authorize endpoint.
LEMMA HandledStep == TypeOK /\ HandledAreStandalone /\ [Next]_vars => HandledAreStandalone'
<1> SUFFICES ASSUME TypeOK, HandledAreStandalone, [Next]_vars PROVE HandledAreStandalone'
  OBVIOUS
<1>1. handler \in [1 .. MaxMandates -> HandlerPosition]
  BY DEF TypeOK
<1>2. /\ Rows \subseteq Rows'
      /\ \A m \in Rows : m \in 1 .. MaxMandates /\ mandates'[m].plan = mandates[m].plan
      /\ \A m \in Rows' \ Rows : mandates'[m].status = "RESERVED"
  BY PlansOfRows, RowFacts
<1>3. \A m \in Rows' : mandates'[m].plan # NoPlan => mandates'[m].status # "ORDER_CREATING"
  BY <1>2, CreatingSteps DEF HandledAreStandalone
<1>4. ASSUME \A m \in 1 .. MaxMandates : handler'[m] # "none" => handler[m] # "none"
      PROVE  HandledAreStandalone'
  BY <1>2, <1>3, <1>4 DEF HandledAreStandalone
<1>5. CASE Authorization
  <2>1. ASSUME NEW i \in Intents, NEW merchant \in Merchants, NEW key \in Keys,
               NEW total \in CartTotals, NEW ok, NEW caller,
               AuthorizeMandate(i, merchant, key, total, ok, caller)
        PROVE  HandledAreStandalone'
    <3> DEFINE new == Len(mandates) + 1
    <3>1. /\ new \in Rows' /\ new \in 1 .. MaxMandates
          /\ mandates'[new] = NewMandate(i, NoPlan, merchant, key, total)
      BY <2>1, MandateAdded
    <3>2. handler' = [handler EXCEPT ![new] = caller]
      BY <2>1 DEF AuthorizeMandate
    <3> HIDE DEF new
    <3>3. mandates'[new].plan = NoPlan
      BY <3>1 DEF NewMandate
    <3>4. \A m \in 1 .. MaxMandates : handler'[m] # "none" => handler[m] # "none" \/ m = new
      BY <1>1, <3>2
    <3>5. QED
      BY <1>2, <1>3, <3>1, <3>3, <3>4 DEF HandledAreStandalone
  <2>2. ASSUME handler' = handler PROVE HandledAreStandalone'
    BY <1>4, <2>2
  <2>3. QED
    BY <1>5, <2>1, <2>2
    DEF Authorization, RegisterIntent, AuthorizeMandateRejected, AuthorizePlan, AuthorizePlanRejected
<1>6. CASE OrderHandling
  <2>1. \A m \in 1 .. MaxMandates : handler'[m] # "none" => handler[m] # "none"
    BY <1>1, <1>6
    DEF OrderHandling, BeginOrder, CallGateway, FinishOrder, AgentOrder, HandlerFails, Crash,
        StartupReconcile, ReconcileFound, ReconcileNotFound
  <2>2. QED
    BY <1>4, <2>1
<1>7. CASE \/ PlanExecution \/ Webhooks \/ (\E i \in Intents : ExpireIntent(i)) \/ UNCHANGED vars
  <2>1. handler' = handler
    BY <1>7
    DEF PlanExecution, ExecuteLeg, ReleaseLeg, SyncPlan, Webhooks, CaptureWebhook, FailWebhook,
        OtherWebhook, ExpireIntent, vars
  <2>2. QED
    BY <1>4, <2>1
<1>8. QED
  BY <1>5, <1>6, <1>7 DEF Next

\* No request creates an order step by step for a leg of a plan.
LEMMA Handled == Spec => []HandledAreStandalone
<1>1. Init => HandledAreStandalone
  BY DEF Init, HandledAreStandalone, Rows
<1>2. QED
  BY <1>1, HandledStep, TypeCorrect, PTL DEF Spec

-----------------------------------------------------------------------------
\* Receipts and recorded outcomes are of mandates that exist.
EventsAreOfRows ==
    /\ IsFiniteSet(events)
    /\ \A m \in (1 .. MaxMandates) \ Rows : receipts[m] = 0
    /\ \A event \in events : event.type # "other" => event.mandate \in Rows

CapturesOf(m) == {event \in events : event.type = "payment.captured" /\ event.mandate = m}

\* Without a webhook no mandate becomes captured or stops being unsuccessful.
LEMMA UnpaidStatuses ==
    ASSUME TypeOK, Unpaid
    PROVE  /\ Rows \subseteq Rows'
           /\ \A m \in Rows :
                 /\ mandates'[m].status = "PAYMENT_CAPTURED" <=> mandates[m].status = "PAYMENT_CAPTURED"
                 /\ mandates[m].status \in Unsuccessful => mandates'[m].status \in Unsuccessful
           /\ \A m \in Rows' \ Rows : mandates'[m].status = "RESERVED"
<1>0. Len(mandates) \in Nat /\ \A m \in Rows : mandates[m] \in MandateRow
  BY RowFacts
<1>1. CASE mandates' = mandates
  BY <1>1 DEF Rows
<1>2. CASE Insertion
  <2>1. Len(mandates') \in Nat
    BY <1>2, LenProperties DEF Insertion
  <2>2. QED
    BY <1>0, <1>2, <2>1 DEF Insertion, Rows
<1>3. CASE StartupReset
  <2>1. \A m \in Rows : RowWithStatus(m, "RESERVED").status = "RESERVED"
    BY <1>0 DEF RowWithStatus, MandateRow
  <2>2. QED
    BY <1>3, <2>1 DEF StartupReset, Rows, Unsuccessful
<1>4. ASSUME NEW k \in Rows, StatusChange(k)
      PROVE  /\ Rows' = Rows
             /\ \A m \in Rows :
                   /\ mandates'[m].status = "PAYMENT_CAPTURED" <=> mandates[m].status = "PAYMENT_CAPTURED"
                   /\ mandates[m].status \in Unsuccessful => mandates'[m].status \in Unsuccessful
  <2>1. PICK status : /\ RowBecomes(k, RowWithStatus(k, status))
                      /\ mandates[k].status \in HoldsBudget /\ status \in HoldsBudget
    BY <1>4 DEF StatusChange
  <2>2. RowWithStatus(k, status).status = status
    BY <1>0 DEF RowWithStatus, MandateRow
  <2>3. QED
    BY <2>1, <2>2 DEF RowBecomes, Rows, HoldsBudget, InFlight, AwaitsPayment, Unsuccessful
<1>5. ASSUME NEW k \in Rows, Release(k)
      PROVE  /\ Rows' = Rows
             /\ \A m \in Rows :
                   /\ mandates'[m].status = "PAYMENT_CAPTURED" <=> mandates[m].status = "PAYMENT_CAPTURED"
                   /\ mandates[m].status \in Unsuccessful => mandates'[m].status \in Unsuccessful
  <2>1. /\ RowBecomes(k, RowWithOutcome(k, ReleasedStatus(k), mandates[k].captured))
        /\ mandates[k].status \notin {"PAYMENT_CAPTURED", "RELEASED"}
    BY <1>5, TerminalStatuses DEF Release
  <2>2. RowWithOutcome(k, ReleasedStatus(k), mandates[k].captured).status = ReleasedStatus(k)
    BY <1>0 DEF RowWithOutcome, MandateRow
  <2>3. ReleasedStatus(k) \in Unsuccessful
    BY <2>1, RowFacts DEF ReleasedStatus, MandateStatus, HoldsBudget, InFlight, AwaitsPayment,
                          Unsuccessful
  <2>4. QED
    BY <2>1, <2>2, <2>3 DEF RowBecomes, Rows, Unsuccessful
<1>6. QED
  BY <1>1, <1>2, <1>3, <1>4, <1>5 DEF Unpaid

\* A captured mandate has one receipt and one capture event.
LEMMA ReceiptStep ==
    TypeOK /\ EventsAreOfRows /\ OneReceiptPerCapture /\ [Next]_vars
      => EventsAreOfRows' /\ OneReceiptPerCapture'
<1> DEFINE Times(status) == IF status = "PAYMENT_CAPTURED" THEN 1 ELSE 0
           Counted(m) == /\ receipts[m] = Times(mandates[m].status)
                         /\ Cardinality(CapturesOf(m)) = Times(mandates[m].status)
           FailedOk == \A event \in events :
                          event.type = "payment.failed" => mandates[event.mandate].status \in Unsuccessful
<1> SUFFICES ASSUME TypeOK, EventsAreOfRows, OneReceiptPerCapture, [Next]_vars
             PROVE  EventsAreOfRows' /\ (\A m \in Rows' : Counted(m)') /\ FailedOk'
  BY DEF OneReceiptPerCapture, CapturesOf
<1>0. /\ \A m \in Rows : Counted(m)
      /\ FailedOk
      /\ \A m \in Rows : mandates[m] \in MandateRow /\ m \in 1 .. MaxMandates
      /\ receipts \in [1 .. MaxMandates -> Nat]
  BY RowFacts DEF OneReceiptPerCapture, CapturesOf, TypeOK
<1>1. \A m \in Rows : IsFiniteSet(CapturesOf(m))
  BY FS_Subset DEF EventsAreOfRows, CapturesOf
<1>2. CASE Unpaid
  <2>1. UNCHANGED <<events, receipts>>
    BY <1>2 DEF Unpaid
  <2>2. /\ Rows \subseteq Rows'
        /\ \A m \in Rows : Times(mandates'[m].status) = Times(mandates[m].status)
        /\ \A m \in Rows : mandates[m].status \in Unsuccessful => mandates'[m].status \in Unsuccessful
        /\ \A m \in Rows' \ Rows : m \in 1 .. MaxMandates /\ Times(mandates'[m].status) = 0
    <3>1. \A m \in Rows' \ Rows : m \in 1 .. MaxMandates
      <4>1. Len(mandates') \in Nat /\ Len(mandates') <= MaxMandates
        <5>1. TypeOK'
          BY TypeOKStep
        <5>2. QED
          BY <5>1, LenProperties DEF TypeOK
      <4>2. QED
        BY <4>1, BoundsAssumption DEF Rows
    <3>2. QED
      BY <1>2, <3>1, UnpaidStatuses
  <2>3. \A m \in Rows : Counted(m)'
    BY <1>0, <2>1, <2>2 DEF CapturesOf
  <2>4. \A m \in Rows' \ Rows : Counted(m)'
    <3>1. \A m \in Rows' \ Rows : CapturesOf(m)' = {}
      BY <2>1, <2>2 DEF EventsAreOfRows, CapturesOf
    <3>2. QED
      BY <2>1, <2>2, <3>1, FS_EmptySet DEF EventsAreOfRows
  <2>5. FailedOk'
    BY <1>0, <2>1, <2>2 DEF EventsAreOfRows
  <2>6. EventsAreOfRows'
    BY <2>1, <2>2 DEF EventsAreOfRows
  <2>7. QED
    BY <2>3, <2>4, <2>5, <2>6
<1>3. ASSUME NEW e \in EventIds, OtherWebhook(e)
      PROVE  EventsAreOfRows' /\ (\A m \in Rows' : Counted(m)') /\ FailedOk'
  <2>1. /\ mandates' = mandates /\ receipts' = receipts /\ Rows' = Rows
        /\ events' = events \cup {[id |-> e, type |-> "other", mandate |-> 0]}
    BY <1>3 DEF OtherWebhook, Rows
  <2>2. \A m \in Rows : CapturesOf(m)' = CapturesOf(m)
    BY <2>1 DEF CapturesOf
  <2>3. EventsAreOfRows'
    BY <2>1, FS_AddElement DEF EventsAreOfRows
  <2>4. QED
    BY <1>0, <2>1, <2>2, <2>3
<1>4. ASSUME NEW e \in EventIds, NEW k \in Rows, NEW amount \in CartTotals,
             CaptureWebhook(e, k, amount), Capture(k)
      PROVE  EventsAreOfRows' /\ (\A m \in Rows' : Counted(m)') /\ FailedOk'
  <2> DEFINE new == [id |-> e, type |-> "payment.captured", mandate |-> k]
  <2>1. /\ events' = events \cup {new}
        /\ receipts' = [receipts EXCEPT ![k] = receipts[k] + 1]
    BY <1>0, <1>4 DEF CaptureWebhook
  <2>2. /\ Rows' = Rows
        /\ mandates[k].status \in AwaitsPayment
        /\ mandates'[k].status = "PAYMENT_CAPTURED"
        /\ \A m \in Rows : m # k => mandates'[m] = mandates[m]
    BY <1>0, <1>4 DEF Capture, RowBecomes, RowWithOutcome, MandateRow, Rows
  <2>3. receipts[k] = 0 /\ CapturesOf(k) = {}
    <3>1. receipts[k] = 0 /\ Cardinality(CapturesOf(k)) = 0
      BY <1>0, <2>2 DEF AwaitsPayment
    <3>2. QED
      BY <1>1, <3>1, FS_EmptySet
  <2>4. Counted(k)'
    <3>1. CapturesOf(k)' = {new}
      BY <2>1, <2>3 DEF CapturesOf
    <3>2. Cardinality(CapturesOf(k)') = 1
      BY <3>1, FS_Singleton
    <3>3. QED
      BY <1>0, <2>1, <2>2, <2>3, <3>2
  <2>5. \A m \in Rows : m # k => Counted(m)'
    <3>1. \A m \in Rows : m # k => CapturesOf(m)' = CapturesOf(m)
      BY <2>1 DEF CapturesOf
    <3>2. QED
      BY <1>0, <2>1, <2>2, <3>1
  <2>6. FailedOk'
    BY <1>0, <2>1, <2>2 DEF EventsAreOfRows, AwaitsPayment, Unsuccessful
  <2>7. EventsAreOfRows'
    <3>1. IsFiniteSet(events')
      BY <2>1, FS_AddElement DEF EventsAreOfRows
    <3>2. \A m \in (1 .. MaxMandates) \ Rows : receipts'[m] = 0
      BY <1>0, <2>1 DEF EventsAreOfRows
    <3>3. \A event \in events' : event.type # "other" => event.mandate \in Rows
      BY <2>1 DEF EventsAreOfRows
    <3>4. QED
      BY <2>2, <3>1, <3>2, <3>3 DEF EventsAreOfRows
  <2>8. QED
    BY <2>2, <2>4, <2>5, <2>6, <2>7
<1>5. ASSUME NEW e \in EventIds, NEW k \in Rows, FailWebhook(e, k), Failure(k)
      PROVE  EventsAreOfRows' /\ (\A m \in Rows' : Counted(m)') /\ FailedOk'
  <2> DEFINE new == [id |-> e, type |-> "payment.failed", mandate |-> k]
  <2>1. events' = events \cup {new} /\ receipts' = receipts
    BY <1>5 DEF FailWebhook
  <2>2. /\ Rows' = Rows
        /\ mandates[k].status \in AwaitsPayment
        /\ mandates'[k].status = "PAYMENT_FAILED"
        /\ \A m \in Rows : m # k => mandates'[m] = mandates[m]
    BY <1>0, <1>5 DEF Failure, RowBecomes, RowWithOutcome, MandateRow, Rows
  <2>3. \A m \in Rows : CapturesOf(m)' = CapturesOf(m)
    BY <2>1 DEF CapturesOf
  <2>4. \A m \in Rows : Times(mandates'[m].status) = Times(mandates[m].status)
    BY <2>2 DEF AwaitsPayment
  <2>5. FailedOk'
    BY <1>0, <2>1, <2>2 DEF EventsAreOfRows, Unsuccessful
  <2>6. EventsAreOfRows'
    <3>1. IsFiniteSet(events')
      BY <2>1, FS_AddElement DEF EventsAreOfRows
    <3>2. \A event \in events' : event.type # "other" => event.mandate \in Rows
      BY <2>1 DEF EventsAreOfRows
    <3>3. QED
      BY <2>1, <2>2, <3>1, <3>2 DEF EventsAreOfRows
  <2>7. QED
    BY <1>0, <2>1, <2>2, <2>3, <2>4, <2>5, <2>6
<1>6. QED
  BY <1>2, <1>3, <1>4, <1>5, HandlerSteps

\* However often and in whatever order the gateway reports, a captured mandate
\* has one receipt and one capture event, and no other mandate has any.
THEOREM OneReceipt == Spec => []OneReceiptPerCapture
<1>1. Init => EventsAreOfRows /\ OneReceiptPerCapture
  BY FS_EmptySet DEF Init, EventsAreOfRows, OneReceiptPerCapture, Rows
<1>2. QED
  BY <1>1, ReceiptStep, TypeCorrect, PTL DEF Spec

-----------------------------------------------------------------------------
\* The ledger knows of no capture of a mandate that does not exist.
CapturesAreOfRows == \A m \in 1 .. MaxMandates : <<"PAYMENT_CAPTURED", m>> \in audit => m \in Rows

\* The entries of the ledger are never withdrawn, and each handler writes its own.
LEMMA AuditSteps ==
    ASSUME TypeOK, [Next]_vars
    PROVE  /\ audit \subseteq audit'
           /\ \/ Authorization
              \/ /\ \A i : <<"INTENT_ISSUED", i>> \in audit' <=> <<"INTENT_ISSUED", i>> \in audit
                 /\ \A m : <<"MANDATE_CREATED", m>> \in audit' <=> <<"MANDATE_CREATED", m>> \in audit
           /\ \/ Webhooks
              \/ \A m : <<"PAYMENT_CAPTURED", m>> \in audit' <=> <<"PAYMENT_CAPTURED", m>> \in audit
<1>1. CASE Authorization
  <2>1. audit \subseteq audit'
    BY <1>1
    DEF Authorization, RegisterIntent, AuthorizeMandate, AuthorizeMandateRejected, AuthorizePlan,
        AuthorizePlanRejected
  <2>2. \A m : <<"PAYMENT_CAPTURED", m>> \in audit' <=> <<"PAYMENT_CAPTURED", m>> \in audit
    BY <1>1
    DEF Authorization, RegisterIntent, AuthorizeMandate, AuthorizeMandateRejected, AuthorizePlan,
        AuthorizePlanRejected
  <2>3. QED
    BY <1>1, <2>1, <2>2
<1>2. CASE OrderHandling
  <2>1. audit' = audit \/ \E k : audit' = audit \cup {<<"ORDER_CREATED", k>>}
    BY <1>2
    DEF OrderHandling, BeginOrder, CallGateway, FinishOrder, AgentOrder, HandlerFails, Crash,
        StartupReconcile, ReconcileFound, ReconcileNotFound
  <2>2. QED
    BY <2>1
<1>3. CASE PlanExecution
  <2>1. \/ audit' = audit
        \/ \E k : audit' = audit \cup {<<"ORDER_CREATED", k>>}
        \/ \E k : audit' = audit \cup {<<"POLICY_REJECTED", k>>}
    BY <1>3 DEF PlanExecution, ExecuteLeg, ReleaseLeg, SyncPlan
  <2>2. QED
    BY <2>1
<1>4. CASE Webhooks
  <2>1. audit' = audit \/ \E k : audit' = audit \cup {<<"PAYMENT_CAPTURED", k>>}
    BY <1>4 DEF Webhooks, CaptureWebhook, FailWebhook, OtherWebhook
  <2>2. QED
    BY <1>4, <2>1
<1>5. CASE (\E i \in Intents : ExpireIntent(i)) \/ UNCHANGED vars
  BY <1>5 DEF ExpireIntent, vars
<1>6. QED
  BY <1>1, <1>2, <1>3, <1>4, <1>5 DEF Next

\* An order of a leg, and a release, are in the ledger when they are in the table.
LEMMA AuditedSteps ==
    ASSUME TypeOK, [Next]_vars, NEW m \in Rows
    PROVE  /\ mandates'[m].status = "ORDER_CREATED" =>
                 \/ mandates[m].status = "ORDER_CREATED"
                 \/ handler[m] = "agent"
                 \/ <<"ORDER_CREATED", m>> \in audit'
           /\ mandates'[m].status = "RELEASED" =>
                 mandates[m].status = "RELEASED" \/ <<"POLICY_REJECTED", m>> \in audit'
<1> DEFINE Goal ==
           /\ mandates'[m].status = "ORDER_CREATED" =>
                 \/ mandates[m].status = "ORDER_CREATED"
                 \/ handler[m] = "agent"
                 \/ <<"ORDER_CREATED", m>> \in audit'
           /\ mandates'[m].status = "RELEASED" =>
                 mandates[m].status = "RELEASED" \/ <<"POLICY_REJECTED", m>> \in audit'
<1>0. mandates[m] \in MandateRow
  BY RowFacts
<1>1. ASSUME NEW k \in Rows, NEW status, RowBecomes(k, RowWithStatus(k, status))
      PROVE  mandates'[m].status = IF m = k THEN status ELSE mandates[m].status
  BY <1>0, <1>1 DEF RowBecomes, RowWithStatus, MandateRow
<1>2. ASSUME NEW k \in Rows, NEW status, NEW captured,
             RowBecomes(k, RowWithOutcome(k, status, captured))
      PROVE  mandates'[m].status = IF m = k THEN status ELSE mandates[m].status
  <2>1. m = k => RowWithOutcome(k, status, captured).status = status
    BY <1>0 DEF RowWithOutcome, MandateRow
  <2>2. QED
    BY <1>2, <2>1 DEF RowBecomes
<1>3. ASSUME mandates'[m].status \in {mandates[m].status, "RESERVED", "ORDER_CREATING",
                                     "PAYMENT_CAPTURED", "PAYMENT_FAILED"}
      PROVE  Goal
  BY <1>3
<1>4. CASE Authorization
  <2>1. mandates'[m] = mandates[m]
    BY <1>4, InsertionSteps
    DEF Authorization, RegisterIntent, AuthorizeMandateRejected, AuthorizePlanRejected, Insertion
  <2>2. QED
    BY <1>3, <2>1
<1>5. ASSUME NEW k \in Rows, BeginOrder(k) \/ ReconcileNotFound(k) PROVE Goal
  BY <1>1, <1>3, <1>5, StatusSteps
<1>6. ASSUME NEW k \in Rows, FinishOrder(k) \/ AgentOrder(k) \/ ReconcileFound(k) \/ ExecuteLeg(k)
      PROVE  Goal
  <2>1. mandates'[m].status = IF m = k THEN "ORDER_CREATED" ELSE mandates[m].status
    BY <1>1, <1>6, StatusSteps
  <2>2. handler[k] = "agent" \/ <<"ORDER_CREATED", k>> \in audit'
    BY <1>6 DEF FinishOrder, AgentOrder, ReconcileFound, ExecuteLeg
  <2>3. QED
    BY <2>1, <2>2
<1>7. ASSUME StartupReconcile PROVE Goal
  <2>1. mandates'[m] = IF mandates[m].status = "ORDER_CREATING"
                       THEN [mandates[m] EXCEPT !.status = "RESERVED"] ELSE mandates[m]
    BY <1>7 DEF StartupReconcile
  <2>2. mandates'[m].status = IF mandates[m].status = "ORDER_CREATING" THEN "RESERVED"
                              ELSE mandates[m].status
    BY <1>0, <2>1 DEF MandateRow
  <2>3. QED
    BY <1>3, <2>2
<1>8. ASSUME NEW k \in Rows, ReleaseLeg(k) PROVE Goal
  <2>1. mandates'[m].status = IF m = k THEN ReleasedStatus(k) ELSE mandates[m].status
    BY <1>2, <1>8, OutcomeSteps
  <2>2. <<"POLICY_REJECTED", k>> \in audit'
    BY <1>8 DEF ReleaseLeg
  <2>3. ReleasedStatus(k) # "ORDER_CREATED"
    BY DEF ReleasedStatus, HoldsBudget, InFlight, AwaitsPayment
  <2>4. QED
    BY <2>1, <2>2, <2>3
<1>9. ASSUME NEW k \in Rows, NEW e \in EventIds,
             FailWebhook(e, k) \/ \E amount \in CartTotals : CaptureWebhook(e, k, amount)
      PROVE  Goal
  BY <1>2, <1>3, <1>9, OutcomeSteps
<1>10. ASSUME mandates' = mandates PROVE Goal
  BY <1>3, <1>10
<1>11. CASE OrderHandling
  BY <1>5, <1>6, <1>7, <1>10, <1>11 DEF OrderHandling, CallGateway, HandlerFails, Crash
<1>12. CASE PlanExecution
  BY <1>6, <1>8, <1>10, <1>12 DEF PlanExecution, SyncPlan
<1>13. CASE Webhooks
  BY <1>9, <1>10, <1>13 DEF Webhooks, OtherWebhook
<1>14. CASE (\E i \in Intents : ExpireIntent(i)) \/ UNCHANGED vars
  BY <1>10, <1>14 DEF ExpireIntent, vars
<1>15. QED
  BY <1>4, <1>11, <1>12, <1>13, <1>14 DEF Next

\* Outside authorization no intent becomes registered.
LEMMA RegisteredSteps ==
    ASSUME TypeOK, [Next]_vars, ~Authorization, NEW i \in Intents
    PROVE  registry'[i].status = registry[i].status
<1>0. registry \in [Intents -> IntentRow]
  BY DEF TypeOK
<1>1. ASSUME NEW j \in Intents, NEW paise \in Nat,
             registry' = [registry EXCEPT ![j] = Refunded(registry[j], paise)]
      PROVE  registry'[i].status = registry[i].status
  BY <1>0, <1>1, RefundedRow
<1>2. ASSUME NEW m \in Rows, ReleaseLeg(m) \/ \E e : FailWebhook(e, m)
      PROVE  registry'[i].status = registry[i].status
  BY <1>1, <1>2, RowFacts DEF FailWebhook, ReleaseLeg
<1>3. ASSUME NEW m \in Rows, NEW e, NEW amount \in CartTotals, CaptureWebhook(e, m, amount)
      PROVE  registry'[i].status = registry[i].status
  <2>1. registry'[i] = registry[i] \/
          registry'[i] = [registry[i] EXCEPT !.reserved = registry[i].reserved - amount,
                                             !.captured = registry[i].captured + amount]
    BY <1>0, <1>3 DEF CaptureWebhook
  <2>2. QED
    BY <1>0, <2>1 DEF IntentRow
<1>4. ASSUME registry' = registry PROVE registry'[i].status = registry[i].status
  BY <1>4
<1>5. \/ registry' = registry
      \/ \E m \in Rows : ReleaseLeg(m) \/ \E e : FailWebhook(e, m)
      \/ \E m \in Rows : \E e : \E amount \in CartTotals : CaptureWebhook(e, m, amount)
  BY DEF Next, OrderHandling, PlanExecution, Webhooks, vars, BeginOrder, CallGateway, FinishOrder,
         AgentOrder, HandlerFails, Crash, StartupReconcile, ReconcileFound, ReconcileNotFound,
         ExecuteLeg, SyncPlan, OtherWebhook, ExpireIntent
<1>6. QED
  BY <1>2, <1>3, <1>4, <1>5

\* The ledger tells what the tables tell, after every commit.
LEMMA AuditStep ==
    TypeOK /\ TypeOK' /\ HandledAreStandalone /\ CapturesAreOfRows /\ AuditExplainsTables /\ [Next]_vars
      => CapturesAreOfRows' /\ AuditExplainsTables'
<1> DEFINE Registration == \A i \in Intents : registry[i].status # "ABSENT" <=> <<"INTENT_ISSUED", i>> \in audit
           Creation == \A m \in 1 .. MaxMandates : m \in Rows <=> <<"MANDATE_CREATED", m>> \in audit
           Settled(m) == mandates[m].status = "PAYMENT_CAPTURED" <=> <<"PAYMENT_CAPTURED", m>> \in audit
           Told(m) ==
              /\ mandates[m].status = "RELEASED" => <<"POLICY_REJECTED", m>> \in audit
              /\ mandates[m].status = "ORDER_CREATED" /\ mandates[m].plan # NoPlan
                    => <<"ORDER_CREATED", m>> \in audit
<1> SUFFICES ASSUME TypeOK, TypeOK', HandledAreStandalone, CapturesAreOfRows, AuditExplainsTables,
                    [Next]_vars
             PROVE  /\ CapturesAreOfRows' /\ Registration' /\ Creation'
                    /\ \A m \in Rows' : Settled(m)' /\ Told(m)'
  BY DEF AuditExplainsTables
<1>0. /\ Registration /\ Creation
      /\ \A m \in Rows : Settled(m) /\ Told(m)
      /\ Len(mandates) \in Nat
      /\ \A m \in Rows : mandates[m] \in MandateRow /\ m \in 1 .. MaxMandates
      /\ registry \in [Intents -> IntentRow]
  BY RowFacts DEF AuditExplainsTables, TypeOK
<1>1. /\ Rows \subseteq Rows'
      /\ \A m \in Rows' : m \in 1 .. MaxMandates
      /\ \A m \in Rows : mandates'[m].plan = mandates[m].plan
      /\ \A m \in Rows' \ Rows : mandates'[m].status = "RESERVED"
  <2>1. Len(mandates') \in Nat /\ Len(mandates') <= MaxMandates
    BY LenProperties DEF TypeOK
  <2>2. \A m \in Rows' : m \in 1 .. MaxMandates
    BY <2>1, BoundsAssumption DEF Rows
  <2>3. QED
    BY <2>2, PlansOfRows
<1>2. Registration' /\ Creation'
  <2>1. CASE ~Authorization
    <3>1. Rows' = Rows
      <4>1. ContractsKept
        BY <2>1, ContractSteps DEF Authorization
      <4>2. QED
        BY <4>1 DEF ContractsKept, Rows
    <3>2. \A i \in Intents : registry'[i].status = registry[i].status
      BY <2>1, RegisteredSteps
    <3>3. /\ \A i : <<"INTENT_ISSUED", i>> \in audit' <=> <<"INTENT_ISSUED", i>> \in audit
          /\ \A m : <<"MANDATE_CREATED", m>> \in audit' <=> <<"MANDATE_CREATED", m>> \in audit
      BY <2>1, AuditSteps
    <3>4. QED
      BY <1>0, <3>1, <3>2, <3>3
  <2>2. ASSUME NEW i \in Intents, NEW row, row.status # "ABSENT",
               registry' = [registry EXCEPT ![i] = row],
               \A j : <<"INTENT_ISSUED", j>> \in audit' <=> <<"INTENT_ISSUED", j>> \in audit \/ j = i
        PROVE  Registration'
    BY <1>0, <2>2
  <2>3. \A i \in Intents, total \in Nat :
          /\ Registered(i).status # "ABSENT" /\ FreshRow.status # "ABSENT"
          /\ Charged(Registered(i), i, total).status # "ABSENT"
    <3>1. \A i \in Intents : Registered(i).status # "ABSENT" /\ FreshRow.status # "ABSENT"
      BY DEF Registered, FreshRow
    <3>2. QED
      BY <3>1, RegistryRows, ChargedRow
  <2>4. ASSUME NEW i \in Intents, RegisterIntent(i) PROVE Registration' /\ Creation'
    <3>1. /\ registry' = [registry EXCEPT ![i] = FreshRow] /\ mandates' = mandates
          /\ audit' = audit \cup {<<"INTENT_ISSUED", i>>}
      BY <2>4 DEF RegisterIntent
    <3>2. \A j : <<"INTENT_ISSUED", j>> \in audit' <=> <<"INTENT_ISSUED", j>> \in audit \/ j = i
      BY <3>1
    <3>3. \A m : <<"MANDATE_CREATED", m>> \in audit' <=> <<"MANDATE_CREATED", m>> \in audit
      BY <3>1
    <3>4. QED
      BY <1>0, <2>2, <2>3, <3>1, <3>2, <3>3 DEF Rows
  <2>5. ASSUME NEW i \in Intents, NEW merchant \in Merchants, NEW key \in Keys,
               NEW total \in CartTotals, NEW ok \in BOOLEAN,
               AuthorizeMandateRejected(i, merchant, key, total, ok)
        PROVE  Registration' /\ Creation'
    <3>1. /\ registry' = [registry EXCEPT ![i] = Registered(i)] /\ mandates' = mandates
          /\ audit' = audit \cup {<<"INTENT_ISSUED", i>>, <<"POLICY_REJECTED", i>>}
      BY <2>5 DEF AuthorizeMandateRejected
    <3>2. \A j : <<"INTENT_ISSUED", j>> \in audit' <=> <<"INTENT_ISSUED", j>> \in audit \/ j = i
      BY <3>1
    <3>3. \A m : <<"MANDATE_CREATED", m>> \in audit' <=> <<"MANDATE_CREATED", m>> \in audit
      BY <3>1
    <3>4. QED
      BY <1>0, <2>2, <2>3, <3>1, <3>2, <3>3 DEF Rows
  <2>6. ASSUME NEW i \in Intents, NEW p \in Plans, NEW legs \in Legs, AuthorizePlanRejected(i, p, legs)
        PROVE  Registration' /\ Creation'
    <3>1. /\ registry' = registry /\ mandates' = mandates
          /\ audit' = audit \cup {<<"POLICY_REJECTED", i>>}
      BY <2>6 DEF AuthorizePlanRejected
    <3>2. /\ \A j : <<"INTENT_ISSUED", j>> \in audit' <=> <<"INTENT_ISSUED", j>> \in audit
          /\ \A m : <<"MANDATE_CREATED", m>> \in audit' <=> <<"MANDATE_CREATED", m>> \in audit
      BY <3>1
    <3>3. QED
      BY <1>0, <3>1, <3>2 DEF Rows
  <2>7. ASSUME NEW i \in Intents, NEW merchant \in Merchants, NEW key \in Keys,
               NEW total \in CartTotals, NEW ok \in BOOLEAN, NEW caller \in {"reserved", "agent"},
               AuthorizeMandate(i, merchant, key, total, ok, caller)
        PROVE  Registration' /\ Creation'
    <3>1. /\ registry' = [registry EXCEPT ![i] = Charged(Registered(i), i, total)]
          /\ audit' = audit \cup {<<"INTENT_ISSUED", i>>, <<"MANDATE_CREATED", Len(mandates) + 1>>}
          /\ total \in Nat
      BY <2>7, CartTotalsAssumption DEF AuthorizeMandate
    <3>2. \A j : <<"INTENT_ISSUED", j>> \in audit' <=> <<"INTENT_ISSUED", j>> \in audit \/ j = i
      BY <3>1
    <3>3. \A m : <<"MANDATE_CREATED", m>> \in audit' <=>
                    <<"MANDATE_CREATED", m>> \in audit \/ m = Len(mandates) + 1
      BY <3>1
    <3>4. Rows' = Rows \cup {Len(mandates) + 1}
      BY <2>7, MandateAdded
    <3>5. QED
      BY <1>0, <2>2, <2>3, <3>1, <3>2, <3>3, <3>4
  <2>8. ASSUME NEW i \in Intents, NEW p \in Plans, NEW legs \in Legs,
               NEW total \in 1 .. SpendCap[i], AuthorizePlan(i, p, legs, total)
        PROVE  Registration' /\ Creation'
    <3>1. /\ registry' = [registry EXCEPT ![i] = Charged(Registered(i), i, total)]
          /\ audit' = audit \cup {<<"INTENT_ISSUED", i>>} \cup
                {<<"MANDATE_CREATED", m>> : m \in Len(mandates) + 1 .. Len(mandates) + Len(legs)}
          /\ total \in Nat
      BY <2>8, SpendCapAssumption DEF AuthorizePlan
    <3>2. \A j : <<"INTENT_ISSUED", j>> \in audit' <=> <<"INTENT_ISSUED", j>> \in audit \/ j = i
      BY <3>1
    <3>3. \A m : <<"MANDATE_CREATED", m>> \in audit' <=>
                    \/ <<"MANDATE_CREATED", m>> \in audit
                    \/ m \in Len(mandates) + 1 .. Len(mandates) + Len(legs)
      BY <3>1
    <3>4. Rows' = Rows \cup (Len(mandates) + 1 .. Len(mandates) + Len(legs))
      <4>1. Len(mandates') = Len(mandates) + Len(legs) /\ Len(legs) \in Nat
        BY <2>8, PlanAdded
      <4>2. QED
        BY <1>0, <4>1 DEF Rows
    <3>5. QED
      BY <1>0, <2>2, <2>3, <3>1, <3>2, <3>3, <3>4
  <2>9. QED
    BY <2>1, <2>4, <2>5, <2>6, <2>7, <2>8 DEF Authorization
<1>3. \A m \in Rows' : Told(m)'
  <2>1. audit \subseteq audit'
    BY AuditSteps
  <2>2. ASSUME NEW m \in Rows PROVE Told(m)'
    <3>1. handler[m] = "agent" => mandates[m].plan = NoPlan
      BY <1>0 DEF HandledAreStandalone
    <3>2. QED
      BY <1>0, <1>1, <2>1, <3>1, AuditedSteps
  <2>3. QED
    BY <1>1, <2>2
<1>4. CapturesAreOfRows' /\ \A m \in Rows' : Settled(m)'
  <2>1. ASSUME UNCHANGED <<mandates, audit>> PROVE CapturesAreOfRows' /\ \A m \in Rows' : Settled(m)'
    BY <1>0, <2>1 DEF CapturesAreOfRows, Rows
  <2>2. CASE ~Webhooks
    <3>1. \A m : <<"PAYMENT_CAPTURED", m>> \in audit' <=> <<"PAYMENT_CAPTURED", m>> \in audit
      BY <2>2, AuditSteps
    <3>2. Unpaid
      BY <2>2, HandlerSteps DEF Webhooks
    <3>3. \A m \in Rows : mandates'[m].status = "PAYMENT_CAPTURED" <=> mandates[m].status = "PAYMENT_CAPTURED"
      BY <3>2, UnpaidStatuses
    <3>4. QED
      BY <1>0, <1>1, <3>1, <3>3 DEF CapturesAreOfRows
  <2>3. ASSUME NEW e \in EventIds, NEW k \in Rows, NEW amount \in CartTotals,
               CaptureWebhook(e, k, amount)
        PROVE  CapturesAreOfRows' /\ \A m \in Rows' : Settled(m)'
    <3>1. audit' = audit \cup {<<"PAYMENT_CAPTURED", k>>}
      BY <2>3 DEF CaptureWebhook
    <3>2. Capture(k)
      BY <2>3, WebhookSteps
    <3>3. /\ Rows' = Rows
          /\ mandates'[k].status = "PAYMENT_CAPTURED"
          /\ \A m \in Rows : m # k => mandates'[m] = mandates[m]
      BY <1>0, <3>2 DEF Capture, RowBecomes, RowWithOutcome, MandateRow, Rows
    <3>4. QED
      BY <1>0, <3>1, <3>3 DEF CapturesAreOfRows
  <2>4. ASSUME NEW e \in EventIds, NEW k \in Rows, FailWebhook(e, k)
        PROVE  CapturesAreOfRows' /\ \A m \in Rows' : Settled(m)'
    <3>1. audit' = audit
      BY <2>4 DEF FailWebhook
    <3>2. Failure(k)
      BY <2>4, WebhookSteps
    <3>3. /\ Rows' = Rows
          /\ mandates[k].status \in AwaitsPayment /\ mandates'[k].status = "PAYMENT_FAILED"
          /\ \A m \in Rows : m # k => mandates'[m] = mandates[m]
      BY <1>0, <3>2 DEF Failure, RowBecomes, RowWithOutcome, MandateRow, Rows
    <3>4. QED
      BY <1>0, <3>1, <3>3 DEF CapturesAreOfRows, AwaitsPayment
  <2>5. QED
    BY <2>1, <2>2, <2>3, <2>4 DEF Webhooks, OtherWebhook
<1>5. QED
  BY <1>2, <1>3, <1>4

\* Registered intents, created mandates and captures are in the ledger exactly when
\* they are in the tables; no leg is released or ordered without its entry.
THEOREM AuditExplains == Spec => []AuditExplainsTables
<1>1. Init => CapturesAreOfRows /\ AuditExplainsTables
  BY DEF Init, CapturesAreOfRows, AuditExplainsTables, Rows, NoRow, FreshRow
<1>2. QED
  BY <1>1, AuditStep, TypeCorrect, Handled, PTL DEF Spec

-----------------------------------------------------------------------------
PlanLegs(rows, p) == {m \in DOMAIN rows : rows[m].plan = p}

\* What PlanStatusNeverAhead says of one plan, of given tables and a given ledger.
NeverAhead(status, rows, ledger, p) ==
    LET legs == PlanLegs(rows, p) IN
    /\ status = "COMPLETE" => \A m \in legs : rows[m].status = "PAYMENT_CAPTURED"
    /\ status = "PARTIAL_COMPLETE" => \E m \in legs : rows[m].status = "PAYMENT_CAPTURED"
    /\ status = "FAILED" => \A m \in legs : rows[m].status \in Unsuccessful
    /\ status = "IN_PROGRESS" => \E m \in legs : <<"ORDER_CREATED", m>> \in ledger

\* A leg on its way has had its order entered in the ledger.
FlightsAreKnown ==
    \A m \in Rows :
        mandates[m].plan # NoPlan /\ mandates[m].status \in InFlight => <<"ORDER_CREATED", m>> \in audit

\* Only an order, or the request that makes it, puts a mandate on its way.
LEMMA FlightSteps ==
    ASSUME TypeOK, [Next]_vars, NEW m \in Rows, mandates'[m].status \in InFlight
    PROVE  \/ mandates[m].status \in InFlight
           \/ handler[m] # "none"
           \/ <<"ORDER_CREATED", m>> \in audit'
<1> DEFINE Goal == \/ mandates[m].status \in InFlight
                   \/ handler[m] # "none"
                   \/ <<"ORDER_CREATED", m>> \in audit'
<1>0. mandates[m] \in MandateRow
  BY RowFacts
<1>1. ASSUME NEW k \in Rows, NEW status, RowBecomes(k, RowWithStatus(k, status))
      PROVE  mandates'[m].status = IF m = k THEN status ELSE mandates[m].status
  BY <1>0, <1>1 DEF RowBecomes, RowWithStatus, MandateRow
<1>2. ASSUME NEW k \in Rows, NEW status, NEW captured,
             RowBecomes(k, RowWithOutcome(k, status, captured))
      PROVE  mandates'[m].status = IF m = k THEN status ELSE mandates[m].status
  <2>1. m = k => RowWithOutcome(k, status, captured).status = status
    BY <1>0 DEF RowWithOutcome, MandateRow
  <2>2. QED
    BY <1>2, <2>1 DEF RowBecomes
<1>3. ASSUME mandates'[m].status \in {mandates[m].status} \cup (MandateStatus \ InFlight) PROVE Goal
  BY <1>3
<1>4. CASE Authorization
  <2>1. mandates'[m] = mandates[m]
    BY <1>4, InsertionSteps
    DEF Authorization, RegisterIntent, AuthorizeMandateRejected, AuthorizePlanRejected, Insertion
  <2>2. QED
    BY <1>3, <2>1
<1>5. ASSUME NEW k \in Rows, ReconcileNotFound(k) PROVE Goal
  <2>1. mandates'[m].status = IF m = k THEN "RESERVED" ELSE mandates[m].status
    BY <1>1, <1>5, StatusSteps
  <2>2. QED
    BY <1>3, <2>1 DEF MandateStatus, InFlight, AwaitsPayment
<1>6. ASSUME NEW k \in Rows,
             BeginOrder(k) \/ FinishOrder(k) \/ AgentOrder(k) \/ ReconcileFound(k) \/ ExecuteLeg(k)
      PROVE  Goal
  <2>1. \E status : mandates'[m].status = IF m = k THEN status ELSE mandates[m].status
    BY <1>1, <1>6, StatusSteps
  <2>2. handler[k] # "none" \/ <<"ORDER_CREATED", k>> \in audit'
    BY <1>6 DEF BeginOrder, FinishOrder, AgentOrder, ReconcileFound, ExecuteLeg
  <2>3. QED
    BY <1>3, <2>1, <2>2
<1>7. ASSUME StartupReconcile PROVE Goal
  <2>1. mandates'[m] = IF mandates[m].status = "ORDER_CREATING"
                       THEN [mandates[m] EXCEPT !.status = "RESERVED"] ELSE mandates[m]
    BY <1>7 DEF StartupReconcile
  <2>2. QED
    BY <2>1 DEF InFlight
<1>8. ASSUME NEW k \in Rows,
             \/ ReleaseLeg(k)
             \/ \E e \in EventIds : FailWebhook(e, k) \/ \E amount \in CartTotals : CaptureWebhook(e, k, amount)
      PROVE  Goal
  <2>1. \E status \in {ReleasedStatus(k), "PAYMENT_FAILED", "PAYMENT_CAPTURED"} :
           mandates'[m].status = IF m = k THEN status ELSE mandates[m].status
    BY <1>2, <1>8, OutcomeSteps
  <2>2. ReleasedStatus(k) \in MandateStatus \ InFlight
    BY RowFacts DEF ReleasedStatus, MandateStatus, HoldsBudget, InFlight, AwaitsPayment
  <2>3. {"PAYMENT_FAILED", "PAYMENT_CAPTURED"} \subseteq MandateStatus \ InFlight
    BY DEF MandateStatus, InFlight, AwaitsPayment
  <2> HIDE DEF Goal
  <2>4. QED
    BY <1>3, <2>1, <2>2, <2>3
<1>9. ASSUME mandates' = mandates PROVE Goal
  BY <1>3, <1>9
<1>10. CASE OrderHandling
  BY <1>5, <1>6, <1>7, <1>9, <1>10 DEF OrderHandling, CallGateway, HandlerFails, Crash
<1>11. CASE PlanExecution
  BY <1>6, <1>8, <1>9, <1>11 DEF PlanExecution, SyncPlan
<1>12. CASE Webhooks
  BY <1>8, <1>9, <1>12 DEF Webhooks, OtherWebhook
<1>13. CASE (\E i \in Intents : ExpireIntent(i)) \/ UNCHANGED vars
  BY <1>9, <1>13 DEF ExpireIntent, vars
<1>14. QED
  BY <1>4, <1>10, <1>11, <1>12, <1>13 DEF Next

\* No leg is ever on its way without its entry.
LEMMA FlightsKnown == Spec => []FlightsAreKnown
<1>1. Init => FlightsAreKnown
  BY DEF Init, FlightsAreKnown, Rows
<1>2. TypeOK /\ HandledAreStandalone /\ FlightsAreKnown /\ [Next]_vars => FlightsAreKnown'
  <2> SUFFICES ASSUME TypeOK, HandledAreStandalone, FlightsAreKnown, [Next]_vars, NEW m \in Rows',
                      mandates'[m].plan # NoPlan, mandates'[m].status \in InFlight
               PROVE  <<"ORDER_CREATED", m>> \in audit'
    BY DEF FlightsAreKnown
  <2>1. m \in Rows /\ mandates'[m].plan = mandates[m].plan
    BY PlansOfRows DEF InFlight, AwaitsPayment
  <2>2. handler[m] = "none"
    BY <2>1, RowFacts DEF HandledAreStandalone
  <2>3. QED
    BY <2>1, <2>2, FlightSteps, AuditSteps DEF FlightsAreKnown
<1>3. QED
  BY <1>1, <1>2, TypeCorrect, Handled, PTL DEF Spec

\* The status derived from legs that are seen each as it was before claims nothing
\* that has not happened.
LEMMA DerivedNeverAhead ==
    ASSUME NEW rows, NEW seen, NEW ledger, NEW p,
           PlanLegs(seen, p) = PlanLegs(rows, p),
           \A m \in PlanLegs(rows, p) :
              /\ seen[m].status = "PAYMENT_CAPTURED" => rows[m].status = "PAYMENT_CAPTURED"
              /\ seen[m].status \in Unsuccessful => rows[m].status \in Unsuccessful
              /\ seen[m].status \in InFlight => <<"ORDER_CREATED", m>> \in ledger
    PROVE  NeverAhead(DerivedStatus(seen, p), rows, ledger, p)
<1> DEFINE legs == PlanLegs(seen, p)
           captured == {m \in legs : seen[m].status = "PAYMENT_CAPTURED"}
           failed == {m \in legs : seen[m].status \in Unsuccessful}
           moving == \E m \in legs : seen[m].status \in InFlight
           status == DerivedStatus(seen, p)
<1>1. status = CASE captured = legs -> "COMPLETE"
                 [] captured # legs /\ captured # {} -> "PARTIAL_COMPLETE"
                 [] captured = {} /\ failed = legs -> "FAILED"
                 [] captured = {} /\ failed # legs /\ moving -> "IN_PROGRESS"
                 [] OTHER -> "CONFIRMED"
  BY DEF DerivedStatus, PlanLegs
<1> HIDE DEF status
<1>5. /\ status = "COMPLETE" => captured = legs
      /\ status = "PARTIAL_COMPLETE" => captured # {}
      /\ status = "FAILED" => failed = legs
      /\ status = "IN_PROGRESS" => moving
  <2> HIDE DEF captured, failed, moving, legs
  <2>1. QED
    BY <1>1
<1>6. /\ status = "COMPLETE" => \A m \in legs : rows[m].status = "PAYMENT_CAPTURED"
      /\ status = "PARTIAL_COMPLETE" => \E m \in legs : rows[m].status = "PAYMENT_CAPTURED"
      /\ status = "FAILED" => \A m \in legs : rows[m].status \in Unsuccessful
      /\ status = "IN_PROGRESS" => \E m \in legs : <<"ORDER_CREATED", m>> \in ledger
  BY <1>5
<1>7. QED
  BY <1>6 DEF NeverAhead, status

\* Outcomes are final and the ledger only grows: what was no claim ahead stays none.
LEMMA NeverAheadStays ==
    ASSUME NEW rows, NEW new, NEW ledger, NEW grown, NEW p, NEW status,
           PlanLegs(new, p) = PlanLegs(rows, p), ledger \subseteq grown,
           \A m \in PlanLegs(rows, p) :
              /\ rows[m].status = "PAYMENT_CAPTURED" => new[m].status = "PAYMENT_CAPTURED"
              /\ rows[m].status \in Unsuccessful => new[m].status \in Unsuccessful,
           NeverAhead(status, rows, ledger, p)
    PROVE  NeverAhead(status, new, grown, p)
BY DEF NeverAhead

\* The objects a session loaded before: the same rows, with statuses they have had.
LEMMA LoadedRows ==
    ASSUME NEW rows, NEW p, NEW changed, NEW seen \in LoadedEarlier(rows, p, changed),
           \A m \in DOMAIN rows : rows[m] \in MandateRow
    PROVE  /\ PlanLegs(seen, p) = PlanLegs(rows, p)
           /\ \A m \in PlanLegs(rows, p) :
                 IF m \in changed THEN seen[m].status = rows[m].status
                 ELSE seen[m].status \in HadStatus(m)
<1> DEFINE others == {m \in DOMAIN rows : rows[m].plan = p} \ changed
           Loaded(had) == [m \in DOMAIN rows |-> IF m \in others
                                                 THEN [rows[m] EXCEPT !.status = had[m]]
                                                 ELSE rows[m]]
<1>1. PICK had : /\ \A m \in others : had[m] \in HadStatus(m)
                 /\ seen = Loaded(had)
  BY DEF LoadedEarlier
<1>2. /\ DOMAIN seen = DOMAIN rows
      /\ \A m \in DOMAIN rows : seen[m] = IF m \in others
                                         THEN [rows[m] EXCEPT !.status = had[m]] ELSE rows[m]
  BY <1>1
<1>3. \A m \in DOMAIN rows : /\ seen[m].plan = rows[m].plan
                             /\ seen[m].status = IF m \in others THEN had[m] ELSE rows[m].status
  BY <1>2 DEF MandateRow
<1>4. QED
  BY <1>1, <1>2, <1>3 DEF PlanLegs

\* A step leaves a plan's status, sets CONFIRMED, or derives it from its legs as they
\* are now or were before.
LEMMA PlanStatusSteps ==
    ASSUME TypeOK, TypeOK', PlansAreCoherent, [Next]_vars, NEW p \in Plans
    PROVE  \/ plans'[p].status = "CONFIRMED"
           \/ plans'[p] = plans[p] /\ (plans[p].intent # NoIntent => PlanLegs(mandates', p) = PlanLegs(mandates, p))
           \/ \E seen : /\ plans'[p].status = DerivedStatus(seen, p)
                        /\ PlanLegs(seen, p) = PlanLegs(mandates', p)
                        /\ \A m \in PlanLegs(mandates', p) :
                              seen[m].status = mandates'[m].status \/ seen[m].status \in HadStatus(m)
                        /\ plans'[p].intent = plans[p].intent
                        /\ PlanLegs(mandates', p) = PlanLegs(mandates, p)
<1> DEFINE Left == plans'[p] = plans[p] /\ (plans[p].intent # NoIntent => PlanLegs(mandates', p) = PlanLegs(mandates, p))
           Derived == \E seen : /\ plans'[p].status = DerivedStatus(seen, p)
                                /\ PlanLegs(seen, p) = PlanLegs(mandates', p)
                                /\ \A m \in PlanLegs(mandates', p) :
                                      seen[m].status = mandates'[m].status \/ seen[m].status \in HadStatus(m)
                                /\ plans'[p].intent = plans[p].intent
                                /\ PlanLegs(mandates', p) = PlanLegs(mandates, p)
           Goal == plans'[p].status = "CONFIRMED" \/ Left \/ Derived
<1>0. /\ DOMAIN mandates = Rows /\ DOMAIN mandates' = Rows'
      /\ \A m \in Rows : mandates[m] \in MandateRow
      /\ \A m \in Rows' : mandates'[m] \in MandateRow
      /\ p # NoPlan
  <2>1. DOMAIN mandates = Rows /\ DOMAIN mandates' = Rows'
    BY LenProperties DEF TypeOK, Rows
  <2>2. \A m \in Rows' : mandates'[m] \in MandateRow
    BY <2>1, ElementOfSeq, LenProperties DEF TypeOK, Rows
  <2>3. QED
    BY <2>1, <2>2, RowFacts, NoPlanAssumption
<1>1. ASSUME Rows' = Rows PROVE PlanLegs(mandates', p) = PlanLegs(mandates, p)
  BY <1>0, <1>1, PlansOfRows DEF PlanLegs
<1>2. ASSUME Rows' = Rows, plans' = plans PROVE Goal
  BY <1>1, <1>2
<1>3. ASSUME NEW rows, NEW q, rows = mandates', plans' \in Synced(rows, q), Rows' = Rows PROVE Goal
  <2>0. CASE plans' = plans
    BY <1>1, <1>3, <2>0
  <2> SUFFICES ASSUME plans' # plans PROVE Goal
    BY <2>0
  <2>1. PICK status \in SeenStatus(rows, q) :
           /\ plans'[p].intent = plans[p].intent
           /\ plans'[p].status = IF p = q THEN status ELSE plans[p].status
           /\ p # q => plans'[p] = plans[p]
    BY <1>3, SyncedPlans
  <2>2. CASE p # q
    BY <1>1, <1>3, <2>1, <2>2
  <2>3. CASE p = q
    <3>1. status = "CONFIRMED" \/ status = DerivedStatus(mandates', p)
      BY <1>3, <2>1, <2>3 DEF SeenStatus
    <3>2. status = DerivedStatus(mandates', p) => Derived
      BY <1>1, <1>3, <2>1, <2>3
    <3>3. QED
      BY <2>1, <2>3, <3>1, <3>2
  <2>4. QED
    BY <2>2, <2>3
<1>4. ASSUME NEW rows, NEW q, NEW changed, rows = mandates',
             plans' \in LateSynced(rows, q, changed), Rows' = Rows
      PROVE  Goal
  <2>0. CASE plans' = plans
    BY <1>1, <1>4, <2>0
  <2> SUFFICES ASSUME plans' # plans PROVE Goal
    BY <2>0
  <2>1. PICK seen \in LoadedEarlier(rows, q, changed) :
           /\ plans'[p].intent = plans[p].intent
           /\ plans'[p].status = IF p = q THEN DerivedStatus(seen, q) ELSE plans[p].status
           /\ p # q => plans'[p] = plans[p]
    BY <1>4, LateSyncedPlans
  <2>2. CASE p # q
    BY <1>1, <1>4, <2>1, <2>2
  <2>3. CASE p = q
    <3>1. \A m \in DOMAIN rows : rows[m] \in MandateRow
      BY <1>0, <1>4
    <3>2. /\ PlanLegs(seen, p) = PlanLegs(mandates', p)
          /\ \A m \in PlanLegs(mandates', p) :
                seen[m].status = mandates'[m].status \/ seen[m].status \in HadStatus(m)
      BY <1>4, <2>3, <3>1, LoadedRows
    <3>3. Derived
      BY <1>1, <1>4, <2>1, <2>3, <3>2
    <3>4. QED
      BY <3>3
  <2>4. QED
    BY <2>2, <2>3
<1> SUFFICES Goal
  OBVIOUS
<1> HIDE DEF Goal
<1>5. CASE Authorization
  <2>1. ASSUME NEW i \in Intents, NEW merchant \in Merchants, NEW key \in Keys,
               NEW total \in CartTotals, NEW ok, NEW caller,
               AuthorizeMandate(i, merchant, key, total, ok, caller)
        PROVE  Goal
    <3>1. /\ Rows' = Rows \cup {Len(mandates) + 1}
          /\ \A m \in Rows : mandates'[m] = mandates[m]
          /\ mandates'[Len(mandates) + 1] = NewMandate(i, NoPlan, merchant, key, total)
      BY <2>1, MandateAdded
    <3>2. mandates'[Len(mandates) + 1].plan # p
      BY <1>0, <3>1 DEF NewMandate
    <3>3. PlanLegs(mandates', p) = PlanLegs(mandates, p)
      BY <1>0, <3>1, <3>2 DEF PlanLegs
    <3>4. plans' = plans
      BY <2>1 DEF AuthorizeMandate
    <3>5. QED
      BY <3>3, <3>4 DEF Goal
  <2>2. ASSUME NEW i \in Intents, NEW q \in Plans, NEW legs \in Legs, NEW total,
               AuthorizePlan(i, q, legs, total)
        PROVE  Goal
    <3>1. /\ Rows \subseteq Rows'
          /\ \A m \in Rows : mandates'[m] = mandates[m]
          /\ \A m \in Rows' \ Rows : mandates'[m].plan = q
      <4>1. \A leg : NewMandate(i, q, leg.merchant, LegKey(q, leg.merchant), leg.total).plan = q
        BY DEF NewMandate
      <4>2. QED
        BY <2>2, <4>1, PlanAdded
    <3>2. plans' = [plans EXCEPT ![q] = [intent |-> i, status |-> "CONFIRMED"]]
      BY <2>2 DEF AuthorizePlan
    <3>3. CASE p = q
      BY <3>2, <3>3 DEF TypeOK, Goal
    <3>4. CASE p # q
      <4>1. plans'[p] = plans[p]
        BY <3>2, <3>4 DEF TypeOK
      <4>2. PlanLegs(mandates', p) = PlanLegs(mandates, p)
        BY <1>0, <3>1, <3>4 DEF PlanLegs
      <4>3. QED
        BY <4>1, <4>2 DEF Goal
    <3>5. QED
      BY <3>3, <3>4
  <2>3. QED
    BY <1>2, <1>5, <2>1, <2>2
    DEF Authorization, RegisterIntent, AuthorizeMandateRejected, AuthorizePlanRejected, Rows
<1>6. CASE OrderHandling
  <2>1. plans' = plans
    BY <1>6
    DEF OrderHandling, BeginOrder, CallGateway, FinishOrder, AgentOrder, HandlerFails, Crash,
        StartupReconcile, ReconcileFound, ReconcileNotFound
  <2>2. \/ mandates' = mandates
        \/ StartupReconcile
        \/ \E m \in Rows : \E status : RowBecomes(m, RowWithStatus(m, status))
    BY <1>6, StatusSteps DEF OrderHandling, CallGateway, HandlerFails, Crash
  <2>3. Rows' = Rows
    BY <2>2, RowFacts DEF RowBecomes, StartupReconcile, Rows
  <2>4. QED
    BY <1>2, <2>1, <2>3
<1>7. ASSUME NEW m \in Rows, ExecuteLeg(m) PROVE Goal
  <2>1. RowBecomes(m, RowWithStatus(m, "ORDER_CREATED")) /\ plans' = plans
    BY <1>7, StatusSteps DEF ExecuteLeg
  <2>2. QED
    BY <1>2, <2>1 DEF RowBecomes, Rows
<1>8. ASSUME NEW m \in Rows, ReleaseLeg(m) PROVE Goal
  <2>1. RowBecomes(m, RowWithOutcome(m, ReleasedStatus(m), mandates[m].captured))
    BY <1>8, OutcomeSteps
  <2>2. plans' \in LateSynced(mandates', mandates[m].plan, {m})
    BY <1>8 DEF ReleaseLeg
  <2>3. QED
    BY <1>4, <2>1, <2>2 DEF RowBecomes, Rows
<1>9. ASSUME NEW q \in Plans, SyncPlan(q) PROVE Goal
  <2>1. mandates' = mandates /\ plans' \in LateSynced(mandates', q, {})
    BY <1>9 DEF SyncPlan
  <2>2. QED
    BY <1>4, <2>1 DEF Rows
<1>10. ASSUME NEW m \in Rows, NEW e \in EventIds,
              FailWebhook(e, m) \/ \E amount \in CartTotals : CaptureWebhook(e, m, amount)
       PROVE  Goal
  <2>1. \E row : RowBecomes(m, row)
    BY <1>10, OutcomeSteps
  <2>2. plans' \in Synced(mandates', mandates[m].plan)
    BY <1>10 DEF CaptureWebhook, FailWebhook
  <2>3. QED
    BY <1>3, <2>1, <2>2 DEF RowBecomes, Rows
<1>11. CASE PlanExecution
  BY <1>7, <1>8, <1>9, <1>11 DEF PlanExecution
<1>12. CASE Webhooks
  BY <1>2, <1>10, <1>12 DEF Webhooks, OtherWebhook, Rows
<1>13. CASE (\E i \in Intents : ExpireIntent(i)) \/ UNCHANGED vars
  BY <1>2, <1>13 DEF ExpireIntent, vars, Rows
<1>14. QED
  BY <1>5, <1>6, <1>11, <1>12, <1>13 DEF Next

\* Captured mandates stay captured, and those that ended unpaid stay so.
LEMMA OutcomesStay ==
    ASSUME TypeOK, [Next]_vars, NEW m \in Rows
    PROVE  /\ mandates[m].status = "PAYMENT_CAPTURED" => mandates'[m].status = "PAYMENT_CAPTURED"
           /\ mandates[m].status \in Unsuccessful => mandates'[m].status \in Unsuccessful
<1>0. mandates[m] \in MandateRow
  BY RowFacts
<1>1. CASE Unpaid
  BY <1>1, UnpaidStatuses
<1>2. ASSUME NEW e \in EventIds, OtherWebhook(e) PROVE mandates' = mandates
  BY <1>2 DEF OtherWebhook
<1>3. ASSUME NEW k \in Rows, Capture(k) \/ Failure(k)
      PROVE  IF k = m THEN mandates[m].status \in AwaitsPayment ELSE mandates'[m] = mandates[m]
  BY <1>3 DEF Capture, Failure, RowBecomes
<1>4. QED
  BY <1>1, <1>2, <1>3, HandlerSteps DEF AwaitsPayment, Unsuccessful

\* No step stores a claim ahead of the legs, and none makes a stored one false.
LEMMA NeverAheadStep ==
    ASSUME TypeOK, TypeOK', PlansAreCoherent, FlightsAreKnown, FlightsAreKnown',
           PlanStatusNeverAhead, [Next]_vars
    PROVE  PlanStatusNeverAhead'
<1> SUFFICES ASSUME NEW p \in Plans, plans'[p].intent # NoIntent
             PROVE  NeverAhead(plans'[p].status, mandates', audit', p)
  <2>1. DOMAIN mandates' = Rows'
    BY LenProperties DEF TypeOK, Rows
  <2>2. QED
    BY <2>1 DEF PlanStatusNeverAhead, NeverAhead, PlanLegs
<1>0. /\ DOMAIN mandates = Rows /\ DOMAIN mandates' = Rows'
      /\ plans[p].intent # NoIntent => NeverAhead(plans[p].status, mandates, audit, p)
      /\ p # NoPlan
  <2>1. DOMAIN mandates = Rows /\ DOMAIN mandates' = Rows'
    BY LenProperties DEF TypeOK, Rows
  <2>2. plans[p].intent # NoIntent => NeverAhead(plans[p].status, mandates, audit, p)
    BY <2>1 DEF PlanStatusNeverAhead, NeverAhead, PlanLegs
  <2>3. QED
    BY <2>1, <2>2, NoPlanAssumption
<1>1. audit \subseteq audit'
  BY AuditSteps
<1>2. CASE plans'[p].status = "CONFIRMED"
  BY <1>2 DEF NeverAhead
<1>3. CASE plans'[p] = plans[p] /\ PlanLegs(mandates', p) = PlanLegs(mandates, p)
  <2>1. \A m \in PlanLegs(mandates, p) : m \in Rows
    BY <1>0 DEF PlanLegs
  <2>2. QED
    BY <1>0, <1>1, <1>3, <2>1, OutcomesStay, NeverAheadStays
<1>4. ASSUME NEW seen, plans'[p].status = DerivedStatus(seen, p),
             PlanLegs(seen, p) = PlanLegs(mandates', p),
             PlanLegs(mandates', p) = PlanLegs(mandates, p),
             \A m \in PlanLegs(mandates', p) :
                seen[m].status = mandates'[m].status \/ seen[m].status \in HadStatus(m)
      PROVE  NeverAhead(plans'[p].status, mandates', audit', p)
  <2>1. ASSUME NEW m \in PlanLegs(mandates', p)
        PROVE  /\ m \in Rows /\ m \in Rows' /\ mandates'[m].plan # NoPlan
    BY <1>0, <1>4, <2>1 DEF PlanLegs
  <2>2. ASSUME NEW m \in PlanLegs(mandates', p)
        PROVE  /\ seen[m].status = "PAYMENT_CAPTURED" => mandates'[m].status = "PAYMENT_CAPTURED"
               /\ seen[m].status \in Unsuccessful => mandates'[m].status \in Unsuccessful
               /\ seen[m].status \in InFlight => <<"ORDER_CREATED", m>> \in audit'
    <3>1. m \in Rows /\ m \in Rows' /\ mandates'[m].plan # NoPlan /\ mandates[m].plan # NoPlan
      BY <1>0, <1>4, <2>1, <2>2 DEF PlanLegs
    <3>2. CASE seen[m].status = mandates'[m].status
      BY <3>1, <3>2 DEF FlightsAreKnown
    <3>3. CASE seen[m].status = mandates[m].status
      BY <1>1, <3>1, <3>3, OutcomesStay DEF FlightsAreKnown
    <3>4. CASE seen[m].status = "RESERVED"
      BY <3>4 DEF Unsuccessful, InFlight, AwaitsPayment
    <3>5. CASE seen[m].status = "ORDER_CREATED" /\ <<"ORDER_CREATED", m>> \in audit
      BY <1>1, <3>5 DEF Unsuccessful
    <3>6. QED
      BY <1>4, <3>2, <3>3, <3>4, <3>5 DEF HadStatus
  <2>3. QED
    BY <1>4, <2>2, DerivedNeverAhead
<1>5. QED
  BY <1>0, <1>2, <1>3, <1>4, PlanStatusSteps

\* However releases, webhooks, orders and late synchronisations interleave, and
\* whatever older status one of them writes over a newer one, a stored plan status
\* never claims what has not happened.
THEOREM StatusNeverAhead == Spec => []PlanStatusNeverAhead
<1>1. Init => PlanStatusNeverAhead
  BY DEF Init, PlanStatusNeverAhead
<1>2. QED
  BY <1>1, NeverAheadStep, TypeCorrect, CoherenceHolds, FlightsKnown, PTL DEF Spec

=============================================================================
