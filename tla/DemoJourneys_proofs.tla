-------------------------- MODULE DemoJourneys_proofs --------------------------
(***************************************************************************)
(* Theorems about the agent endpoints (AgentRequests) and the demo         *)
(* journeys beside them (DemoJourneys): both are clients of PaymentRail,   *)
(* duplicates of a request come from deliveries that overlap, and a        *)
(* journey that answers has taken its mark back.                           *)
(***************************************************************************)
EXTENDS DemoJourneys, PaymentRail_proofs

RequestDelivery ==
    [at : {"deliberating", "authorizing", "ordering", "done"}, request : Keys, began : Nat]
JourneyDelivery ==
    [at : {"planning", "executing", "capturing", "syncing", "answered", "done"},
     scenario : {"partial_failure", "all_success"}, leg : 1 .. 2, marked : BOOLEAN]

DeliveriesTypeOK == delivery \in [Intents -> {Unsent} \cup RequestDelivery \cup JourneyDelivery]

\* The rows that were there when a delivery arrived are older than the one it adds.
\* After the look-up, every row with its key is one that was added since.
DeliveriesInv ==
    /\ \A i \in Intents : delivery[i].at \in {"deliberating", "authorizing"} =>
          delivery[i].began <= Len(mandates)
    /\ \A i \in Intents : delivery[i].at = "authorizing" =>
          \A m \in Rows : mandates[m].key = delivery[i].request /\ mandates[m].key \in Requests
                             => delivery[i].began < m
    /\ \A m \in Rows : mandates[m].key \in Requests =>
          /\ delivery[mandates[m].intent] \in RequestDelivery
          /\ delivery[mandates[m].intent].at \in {"ordering", "done"}
    /\ DuplicatesOverlap

RequestsInv == TypeOK /\ DeliveriesTypeOK /\ DeliveriesInv

\* The three shapes of a delivery tell themselves apart.
LEMMA DeliveryShapes ==
    ASSUME NEW d \in {Unsent} \cup RequestDelivery \cup JourneyDelivery
    PROVE  /\ d.at = "none" <=> d = Unsent
           /\ d.at \in {"deliberating", "authorizing", "ordering"} => d \in RequestDelivery
           /\ d.at \in {"planning", "executing", "capturing", "syncing", "answered"}
                 => d \in JourneyDelivery
           /\ d \in RequestDelivery => d # Unsent /\ d \notin JourneyDelivery
           /\ d \in JourneyDelivery => d # Unsent
           /\ "marked" \in DOMAIN d <=> d \in JourneyDelivery
<1>1. \A r \in RequestDelivery : DOMAIN r = {"at", "request", "began"}
  BY DEF RequestDelivery
<1>2. \A j \in JourneyDelivery : DOMAIN j = {"at", "scenario", "leg", "marked"}
  BY DEF JourneyDelivery
<1>3. DOMAIN Unsent = {"at"} /\ Unsent.at = "none"
  BY DEF Unsent
<1>4. CASE d = Unsent
  BY <1>1, <1>2, <1>3, <1>4
<1>5. CASE d \in RequestDelivery
  <2>1. d.at \in {"deliberating", "authorizing", "ordering", "done"}
    BY <1>5 DEF RequestDelivery
  <2>2. d # Unsent /\ d \notin JourneyDelivery /\ "marked" \notin DOMAIN d
    BY <1>1, <1>2, <1>3, <1>5
  <2>3. QED
    BY <1>5, <2>1, <2>2
<1>6. CASE d \in JourneyDelivery
  <2>1. d.at \in {"planning", "executing", "capturing", "syncing", "answered", "done"}
    BY <1>6 DEF JourneyDelivery
  <2>2. d # Unsent /\ d \notin RequestDelivery /\ "marked" \in DOMAIN d
    BY <1>1, <1>2, <1>3, <1>6
  <2>3. QED
    BY <1>6, <2>1, <2>2
<1>7. QED
  BY <1>4, <1>5, <1>6

\* Moving on keeps what else is known of a delivery.
LEMMA Moved ==
    /\ \A d \in RequestDelivery, at \in {"deliberating", "authorizing", "ordering", "done"} :
          LET e == [d EXCEPT !.at = at] IN
          e \in RequestDelivery /\ e.at = at /\ e.request = d.request /\ e.began = d.began
    /\ \A d \in JourneyDelivery,
          at \in {"planning", "executing", "capturing", "syncing", "answered", "done"} :
          LET e == [d EXCEPT !.at = at] IN
          /\ e \in JourneyDelivery /\ e.at = at /\ e.scenario = d.scenario
          /\ e.leg = d.leg /\ e.marked = d.marked
BY DEF RequestDelivery, JourneyDelivery

-----------------------------------------------------------------------------
\* Every step of the agent endpoints is a step of the rail, or leaves it alone.
LEMMA RequestsStepIsRailStep ==
    ASSUME TypeOK, DeliveriesTypeOK, NextRequests
    PROVE  [Next]_vars
<1>1. ASSUME NEW i \in Intents, AuthorizeDelivered(i) PROVE Authorization
  <2>1. delivery[i] \in {Unsent} \cup RequestDelivery \cup JourneyDelivery
    BY DEF DeliveriesTypeOK
  <2>2. delivery[i] \in RequestDelivery
    BY <1>1, <2>1, DeliveryShapes DEF AuthorizeDelivered
  <2>3. delivery[i].request \in Keys
    BY <2>2 DEF RequestDelivery
  <2>4. AllowedMerchants[i] \subseteq Merchants
    BY AllowedMerchantsAssumption
  <2>5. PICK merchant \in AllowedMerchants[i], total \in CartTotals, ok \in BOOLEAN :
           \/ AuthorizeMandate(i, merchant, delivery[i].request, total, ok, "agent")
           \/ AuthorizeMandateRejected(i, merchant, delivery[i].request, total, ok)
    BY <1>1 DEF AuthorizeDelivered
  <2>6. merchant \in Merchants
    BY <2>4, <2>5
  <2>7. QED
    BY <2>3, <2>5, <2>6 DEF Authorization
<1>2. ASSUME NEW i \in Intents, Deliver(i) PROVE [Next]_vars
  <2>1. ASSUME NEW request, Receive(i, request) \/ ReceiveApproval(i, request) PROVE Authorization
    BY <2>1 DEF Receive, ReceiveApproval, Authorization
  <2>2. ASSUME NothingToBuy(i) \/ LookUp(i) \/ CredentialExpired(i) PROVE UNCHANGED vars
    BY <2>2 DEF NothingToBuy, LookUp, CredentialExpired
  <2>3. ASSUME OrderDelivered(i) PROVE OrderHandling
    BY <2>3 DEF OrderDelivered, OrderHandling
  <2>4. QED
    BY <1>1, <1>2, <2>1, <2>2, <2>3 DEF Deliver, Next
<1>3. ASSUME NEW i \in Intents, ClientAuthorizes(i) PROVE Authorization
  BY <1>3 DEF ClientAuthorizes, Authorization
<1>4. ASSUME NEW m \in Rows, mandates[m].plan # NoPlan, ClientExecutes(m) PROVE PlanExecution
  <2>1. mandates[m].plan \in Plans
    BY <1>4, RowFacts DEF MandateRow
  <2>2. QED
    BY <1>4, <2>1 DEF ClientExecutes, PlanExecution
<1>5. CASE RestOfTheRail
  BY <1>3, <1>4, <1>5 DEF RestOfTheRail, Webhooks, Next
<1>6. CASE ProcessStops
  BY <1>6 DEF ProcessStops, OrderHandling, Next
<1>7. QED
  BY <1>2, <1>5, <1>6 DEF NextRequests

-----------------------------------------------------------------------------
\* A step that adds no mandate with the key of a request.
NoRequestAdded ==
    /\ Rows \subseteq Rows' /\ Len(mandates') \in Nat /\ Len(mandates) <= Len(mandates')
    /\ \A m \in Rows : /\ mandates'[m].key = mandates[m].key
                       /\ mandates'[m].intent = mandates[m].intent
    /\ \A m \in Rows' \ Rows : mandates'[m].key \notin Requests

\* What may happen to the delivery of intent i in such a step.
CalmDelivery(i) ==
    \/ delivery'[i] = delivery[i]
    \/ delivery[i] \notin RequestDelivery /\ delivery'[i] \in JourneyDelivery
    \/ /\ delivery[i] = Unsent
       /\ delivery'[i] \in RequestDelivery /\ delivery'[i].began = Len(mandates)
       /\ \/ delivery'[i].at = "deliberating"
          \/ delivery'[i].at = "authorizing" /\ delivery'[i].request \notin Requests
    \/ /\ delivery[i] \in RequestDelivery /\ delivery'[i] \in RequestDelivery
       /\ delivery'[i].request = delivery[i].request /\ delivery'[i].began = delivery[i].began
       /\ \/ delivery'[i].at = "done"
          \/ delivery[i].at = "deliberating" /\ delivery'[i].at = "authorizing" /\ ~Recorded(i)

\* Such a step adds no duplicate, and keeps what tells them from overlaps.
LEMMA CalmStep ==
    ASSUME RequestsInv, TypeOK', NoRequestAdded, \A i \in Intents : CalmDelivery(i)
    PROVE  DeliveriesInv'
<1>0. /\ Len(mandates) \in Nat /\ Rows = 1 .. Len(mandates) /\ Rows' = 1 .. Len(mandates')
      /\ \A m \in Rows : mandates[m].intent \in Intents
      /\ \A i \in Intents : delivery[i] \in {Unsent} \cup RequestDelivery \cup JourneyDelivery
      /\ \A d \in RequestDelivery : d.began \in Nat
      /\ \A d \in JourneyDelivery : d.at \notin {"deliberating", "authorizing", "ordering"}
      /\ \A d \in JourneyDelivery : d \notin RequestDelivery
      /\ Unsent \notin RequestDelivery /\ Unsent.at = "none"
  <2>1. \A d \in JourneyDelivery : d \notin RequestDelivery
    BY DeliveryShapes
  <2>2. Unsent \notin RequestDelivery /\ Unsent.at = "none"
    BY DeliveryShapes DEF Unsent
  <2>3. QED
    BY <2>1, <2>2, RowFacts DEF RequestsInv, DeliveriesTypeOK, RequestDelivery, JourneyDelivery, Rows
<1>1. ASSUME NEW m \in Rows, mandates[m].key \in Requests
      PROVE  LET i == mandates[m].intent IN
             /\ delivery'[i] \in RequestDelivery
             /\ delivery'[i].at \in {"ordering", "done"}
             /\ delivery'[i].began = delivery[i].began
  <2>1. /\ delivery[mandates[m].intent] \in RequestDelivery
        /\ delivery[mandates[m].intent].at \in {"ordering", "done"}
        /\ mandates[m].intent \in Intents
    BY <1>0, <1>1 DEF RequestsInv, DeliveriesInv
  <2>2. CalmDelivery(mandates[m].intent)
    BY <2>1
  <2>3. QED
    BY <1>0, <2>1, <2>2 DEF CalmDelivery
<1>2. \A i \in Intents : delivery'[i].at \in {"deliberating", "authorizing"} =>
         delivery'[i].began <= Len(mandates')
  <2> SUFFICES ASSUME NEW i \in Intents, delivery'[i].at \in {"deliberating", "authorizing"}
               PROVE  delivery'[i].began <= Len(mandates')
    OBVIOUS
  <2>1. delivery'[i].began <= Len(mandates)
    <3>1. CASE delivery'[i] = delivery[i]
      BY <3>1 DEF RequestsInv, DeliveriesInv
    <3>2. CASE delivery[i].at = "deliberating" /\ delivery'[i].began = delivery[i].began
      BY <3>2 DEF RequestsInv, DeliveriesInv
    <3>3. CASE delivery'[i].began = Len(mandates)
      BY <1>0, <3>3
    <3>4. QED
      BY <1>0, <3>1, <3>2, <3>3 DEF CalmDelivery
  <2>2. delivery'[i].began \in Nat
    BY <1>0 DEF CalmDelivery, RequestsInv, DeliveriesInv
  <2>3. QED
    BY <1>0, <2>1, <2>2 DEF NoRequestAdded
<1>3. ASSUME NEW i \in Intents, delivery'[i].at = "authorizing", NEW m \in Rows',
             mandates'[m].key = delivery'[i].request, mandates'[m].key \in Requests
      PROVE  delivery'[i].began < m
  <2>1. m \in Rows /\ mandates[m].key = mandates'[m].key
    BY <1>3 DEF NoRequestAdded
  <2>2. delivery'[i] = delivery[i]
    BY <1>0, <1>3, <2>1 DEF CalmDelivery, Recorded
  <2>3. QED
    BY <1>3, <2>1, <2>2 DEF RequestsInv, DeliveriesInv
<1>4. \A m \in Rows' : mandates'[m].key \in Requests =>
         /\ delivery'[mandates'[m].intent] \in RequestDelivery
         /\ delivery'[mandates'[m].intent].at \in {"ordering", "done"}
  BY <1>1 DEF NoRequestAdded
<1>5. ASSUME NEW m \in Rows', NEW n \in Rows', m < n, m # n, mandates'[m].key \in Requests,
             mandates'[n].key = mandates'[m].key
      PROVE  delivery'[mandates'[n].intent].began < m
  <2>1. /\ m \in Rows /\ n \in Rows /\ mandates'[n].intent = mandates[n].intent
        /\ mandates[m].key \in Requests /\ mandates[n].key = mandates[m].key
    BY <1>5 DEF NoRequestAdded
  <2>2. delivery[mandates[n].intent].began < m
    BY <1>5, <2>1 DEF RequestsInv, DeliveriesInv, DuplicatesOverlap, SameRequest
  <2>3. QED
    BY <1>1, <2>1, <2>2
<1>6. QED
  BY <1>2, <1>3, <1>4, <1>5 DEF DeliveriesInv, DuplicatesOverlap, SameRequest

\* The keys of a plan's mandates are no client's request ids.
LEMMA PlanRequestsNone ==
    ASSUME TypeOK, NEW i \in Intents, NEW p \in Plans, NEW legs \in Legs,
           NEW total \in 1 .. SpendCap[i], AuthorizePlan(i, p, legs, total)
    PROVE  NoRequestAdded
<1> DEFINE Leg(m) == legs[m - Len(mandates)]
<1>1. /\ Len(legs) \in Nat \ {0} /\ Rows \subseteq Rows'
      /\ Len(mandates') = Len(mandates) + Len(legs) /\ Len(mandates) \in Nat
      /\ \A m \in Rows : mandates'[m] = mandates[m]
      /\ \A m \in Rows' \ Rows :
            /\ m - Len(mandates) \in 1 .. Len(legs)
            /\ mandates'[m] = NewMandate(i, p, Leg(m).merchant, LegKey(p, Leg(m).merchant),
                                         Leg(m).total)
  BY PlanAdded, RowFacts
<1>2. \A k \in 1 .. Len(legs) : legs[k].merchant \in Merchants
  BY PlanAppend
<1>3. \A k \in 1 .. Len(legs) : LegKey(p, legs[k].merchant) \notin Requests
  BY <1>2, RequestsAssumption DEF LegKey
<1>4. \A m \in Rows' \ Rows : mandates'[m].key = LegKey(p, Leg(m).merchant)
  <2>1. \A leg : NewMandate(i, p, leg.merchant, LegKey(p, leg.merchant), leg.total).key
                   = LegKey(p, leg.merchant)
    BY DEF NewMandate
  <2> HIDE DEF Leg
  <2>2. QED
    BY <1>1, <2>1
<1>5. \A m \in Rows' \ Rows : mandates'[m].key \notin Requests
  BY <1>1, <1>3, <1>4
<1>6. QED
  BY <1>1, <1>5 DEF NoRequestAdded

\* Only authorize_mandate() adds a mandate with the key of a request.
LEMMA RequestKeys ==
    ASSUME TypeOK, [Next]_vars
    PROVE  \/ NoRequestAdded
           \/ \E i \in Intents, merchant \in Merchants, key \in Keys, total \in CartTotals,
                 ok \in BOOLEAN, caller \in {"reserved", "agent"} :
                   AuthorizeMandate(i, merchant, key, total, ok, caller)
<1>1. CASE ContractsKept
  BY <1>1, RowFacts DEF ContractsKept, NoRequestAdded, Rows
<1>2. ASSUME NEW i \in Intents, NEW p \in Plans, NEW legs \in Legs, NEW total \in 1 .. SpendCap[i],
             AuthorizePlan(i, p, legs, total)
      PROVE  NoRequestAdded
  BY <1>2, PlanRequestsNone
<1>3. QED
  BY <1>1, <1>2, ContractSteps

\* A step that adds no row adds no mandate of a request.
LEMMA NoRowAdded ==
    ASSUME TypeOK, [Next]_vars, Len(mandates') = Len(mandates)
    PROVE  NoRequestAdded
<1>1. ASSUME NEW i \in Intents, NEW merchant \in Merchants, NEW key \in Keys,
             NEW total \in CartTotals, NEW ok, NEW caller,
             AuthorizeMandate(i, merchant, key, total, ok, caller)
      PROVE  FALSE
  <2>1. Len(mandates') = Len(mandates) + 1
    BY <1>1, MandateAdded
  <2>2. QED
    BY <2>1, RowFacts
<1>2. QED
  BY <1>1, RequestKeys

-----------------------------------------------------------------------------
\* What a step does to one delivery.
LEMMA DeliveryUpdate ==
    ASSUME DeliveriesTypeOK, NEW i \in Intents,
           NEW d \in {Unsent} \cup RequestDelivery \cup JourneyDelivery,
           delivery' = [delivery EXCEPT ![i] = d]
    PROVE  /\ DeliveriesTypeOK'
           /\ delivery'[i] = d
           /\ \A j \in Intents \ {i} : delivery'[j] = delivery[j]
BY DEF DeliveriesTypeOK

\* To() moves one delivery and leaves what it is for, and all others, alone.
LEMMA DeliveryMoves ==
    ASSUME DeliveriesTypeOK, NEW i \in Intents, delivery[i] \in RequestDelivery,
           NEW at \in {"deliberating", "authorizing", "ordering", "done"}, To(i, at)
    PROVE  /\ DeliveriesTypeOK'
           /\ delivery'[i] \in RequestDelivery /\ delivery'[i].at = at
           /\ delivery'[i].request = delivery[i].request
           /\ delivery'[i].began = delivery[i].began
           /\ \A j \in Intents \ {i} : delivery'[j] = delivery[j]
<1> DEFINE d == [delivery[i] EXCEPT !.at = at]
<1>1. /\ d \in RequestDelivery /\ d.at = at
      /\ d.request = delivery[i].request /\ d.began = delivery[i].began
  BY DEF RequestDelivery
<1>2. delivery' = [delivery EXCEPT ![i] = d]
  BY DEF To, DeliveriesTypeOK
<1> HIDE DEF d
<1>3. QED
  BY <1>1, <1>2, DeliveryUpdate

\* A new delivery is stamped with the number of mandates.
LEMMA DeliveryArrives ==
    ASSUME TypeOK, DeliveriesTypeOK, NEW i \in Intents, NEW request \in Keys,
           NEW at \in {"deliberating", "authorizing"},
           delivery' = [delivery EXCEPT ![i] = [at |-> at, request |-> request, began |-> Len(mandates)]]
    PROVE  /\ DeliveriesTypeOK'
           /\ delivery'[i] \in RequestDelivery /\ delivery'[i].at = at
           /\ delivery'[i].request = request /\ delivery'[i].began = Len(mandates)
           /\ \A j \in Intents \ {i} : delivery'[j] = delivery[j]
<1> DEFINE d == [at |-> at, request |-> request, began |-> Len(mandates)]
<1>1. d \in RequestDelivery /\ d.at = at /\ d.request = request /\ d.began = Len(mandates)
  BY RowFacts DEF RequestDelivery
<1>2. delivery' = [delivery EXCEPT ![i] = d]
  OBVIOUS
<1> HIDE DEF d
<1>3. QED
  BY <1>1, <1>2, DeliveryUpdate

\* An authorization for a delivery adds a mandate with the key of its request. Every
\* other mandate with this key was added after the delivery arrived.
LEMMA DeliveryAuthorized ==
    ASSUME RequestsInv, TypeOK', NEW i \in Intents, delivery[i].at = "authorizing",
           delivery[i] \in RequestDelivery, To(i, "ordering"),
           NEW merchant \in Merchants, NEW total \in CartTotals, NEW ok, NEW caller,
           AuthorizeMandate(i, merchant, delivery[i].request, total, ok, caller)
    PROVE  DeliveriesTypeOK' /\ DeliveriesInv'
<1> DEFINE new == Len(mandates) + 1
<1>1. /\ Len(mandates) \in Nat /\ Rows = 1 .. Len(mandates)
      /\ \A m \in Rows : mandates[m].intent \in Intents
      /\ delivery[i].request \in Keys /\ delivery[i].began \in Nat
  BY RowFacts DEF RequestsInv, RequestDelivery, Rows
<1>2. /\ Len(mandates') = new /\ Rows' = Rows \cup {new} /\ new \notin Rows
      /\ \A m \in Rows : mandates'[m] = mandates[m]
      /\ mandates'[new] = NewMandate(i, NoPlan, merchant, delivery[i].request, total)
  BY <1>1, MandateAdded DEF RequestsInv
<1>3. mandates'[new].key = delivery[i].request /\ mandates'[new].intent = i
  BY <1>2 DEF NewMandate
<1> HIDE DEF new
<1>4. /\ DeliveriesTypeOK'
      /\ delivery'[i] \in RequestDelivery /\ delivery'[i].at = "ordering"
      /\ delivery'[i].began = delivery[i].began
      /\ \A j \in Intents \ {i} : delivery'[j] = delivery[j]
  BY DeliveryMoves DEF RequestsInv
<1>5. new = Len(mandates) + 1
  BY DEF new
<1>6. ASSUME NEW m \in Rows PROVE m < new
  BY <1>1, <1>5, <1>6
<1>7. \A j \in Intents : delivery'[j].at \in {"deliberating", "authorizing"} =>
         delivery'[j].began <= Len(mandates')
  <2> SUFFICES ASSUME NEW j \in Intents, delivery'[j].at \in {"deliberating", "authorizing"}
               PROVE  delivery'[j].began <= Len(mandates')
    OBVIOUS
  <2>1. j # i /\ delivery'[j] = delivery[j]
    BY <1>4
  <2>2. delivery[j].began <= Len(mandates)
    BY <2>1 DEF RequestsInv, DeliveriesInv
  <2>3. delivery[j].began \in Nat
    BY <2>1, DeliveryShapes DEF RequestsInv, DeliveriesTypeOK, RequestDelivery
  <2>4. QED
    BY <1>1, <1>2, <1>5, <2>1, <2>2, <2>3
<1>8. \A j \in Intents : delivery'[j].at = "authorizing" =>
         \A m \in Rows' : mandates'[m].key = delivery'[j].request /\ mandates'[m].key \in Requests
                             => delivery'[j].began < m
  <2> SUFFICES ASSUME NEW j \in Intents, delivery'[j].at = "authorizing", NEW m \in Rows',
                      mandates'[m].key = delivery'[j].request, mandates'[m].key \in Requests
               PROVE  delivery'[j].began < m
    OBVIOUS
  <2>1. j # i /\ delivery'[j] = delivery[j]
    BY <1>4
  <2>2. CASE m \in Rows
    BY <1>2, <2>1, <2>2 DEF RequestsInv, DeliveriesInv
  <2>3. CASE m = new
    <3>1. delivery[j].began <= Len(mandates)
      BY <2>1 DEF RequestsInv, DeliveriesInv
    <3>2. delivery[j].began \in Nat
      BY <2>1, DeliveryShapes DEF RequestsInv, DeliveriesTypeOK, RequestDelivery
    <3>3. QED
      BY <1>1, <1>5, <2>1, <2>3, <3>1, <3>2
  <2>4. QED
    BY <1>2, <2>2, <2>3
<1>9. \A m \in Rows' : mandates'[m].key \in Requests =>
         /\ delivery'[mandates'[m].intent] \in RequestDelivery
         /\ delivery'[mandates'[m].intent].at \in {"ordering", "done"}
  BY <1>1, <1>2, <1>3, <1>4 DEF RequestsInv, DeliveriesInv
<1>10. ASSUME NEW m \in Rows', NEW n \in Rows', m < n, m # n, mandates'[m].key \in Requests,
              mandates'[n].key = mandates'[m].key
       PROVE  delivery'[mandates'[n].intent].began < m
  <2>1. CASE n = new
    <3>1. m \in Rows /\ mandates[m].key = delivery[i].request /\ mandates[m].key \in Requests
      BY <1>2, <1>3, <1>10, <2>1
    <3>2. delivery[i].began < m
      BY <3>1 DEF RequestsInv, DeliveriesInv
    <3>3. QED
      BY <1>3, <1>4, <2>1, <3>2
  <2>2. CASE n \in Rows
    <3>1. m \in Rows
      BY <1>1, <1>2, <1>5, <1>10, <2>2
    <3>2. /\ mandates[m].key \in Requests /\ mandates[n].key = mandates[m].key
          /\ mandates'[n].intent = mandates[n].intent
      BY <1>2, <1>10, <2>2, <3>1
    <3>3. delivery[mandates[n].intent].began < m
      BY <1>10, <2>2, <3>1, <3>2 DEF RequestsInv, DeliveriesInv, DuplicatesOverlap, SameRequest
    <3>4. delivery'[mandates[n].intent].began = delivery[mandates[n].intent].began
      BY <1>1, <1>4, <2>2
    <3>5. QED
      BY <3>2, <3>3, <3>4
  <2>3. QED
    BY <1>2, <2>1, <2>2
<1>11. DeliveriesInv'
  BY <1>7, <1>8, <1>9, <1>10 DEF DeliveriesInv, DuplicatesOverlap, SameRequest
<1>12. QED
  BY <1>4, <1>11

-----------------------------------------------------------------------------
\* Every step of the agent endpoints keeps the invariant.
LEMMA RequestsStep ==
    ASSUME RequestsInv, NextRequests
    PROVE  DeliveriesTypeOK' /\ DeliveriesInv'
<1> DEFINE Goal == DeliveriesTypeOK' /\ DeliveriesInv'
<1>1. [Next]_vars
  BY RequestsStepIsRailStep DEF RequestsInv
<1>2. TypeOK'
  BY <1>1, TypeOKStep DEF RequestsInv
<1>3. TypeOK /\ DeliveriesTypeOK /\ DeliveriesInv
  BY DEF RequestsInv
<1>4. ASSUME DeliveriesTypeOK', NoRequestAdded, NEW i \in Intents, CalmDelivery(i),
             \A j \in Intents \ {i} : delivery'[j] = delivery[j]
      PROVE  Goal
  <2>1. \A j \in Intents : CalmDelivery(j)
    BY <1>4 DEF CalmDelivery
  <2>2. QED
    BY <1>2, <1>4, <2>1, CalmStep
<1>5. ASSUME NoRequestAdded, UNCHANGED delivery PROVE Goal
  <2>1. \A i \in Intents : CalmDelivery(i)
    BY <1>5 DEF CalmDelivery
  <2>2. DeliveriesTypeOK'
    BY <1>3, <1>5 DEF DeliveriesTypeOK
  <2>3. QED
    BY <1>2, <1>5, <2>1, <2>2, CalmStep
<1>6. ASSUME UNCHANGED mandates PROVE NoRequestAdded
  BY <1>1, <1>3, <1>6, NoRowAdded
<1>7. ASSUME NEW m \in Rows, NEW row, RowBecomes(m, row) PROVE NoRequestAdded
  BY <1>1, <1>3, <1>7, NoRowAdded DEF RowBecomes
<1> HIDE DEF Goal
<1>8. ASSUME RestOfTheRail PROVE Goal
  <2>1. ASSUME NEW i \in Intents, ClientAuthorizes(i) PROVE NoRequestAdded
    <3>1. PICK p \in Plans, legs \in Legs, total \in 1 .. SpendCap[i] :
             AuthorizePlan(i, p, legs, total)
      BY <2>1 DEF ClientAuthorizes
    <3>2. QED
      BY <1>3, <3>1, PlanRequestsNone
  <2>2. ASSUME NEW i \in Intents, ExpireIntent(i) PROVE NoRequestAdded
    BY <1>6, <2>2 DEF ExpireIntent
  <2>3. ASSUME NEW m \in Rows, ClientExecutes(m) PROVE NoRequestAdded
    <3>1. CASE ExecuteLeg(m)
      BY <1>3, <1>7, <3>1, StatusSteps
    <3>2. CASE ReleaseLeg(m)
      BY <1>3, <1>7, <3>2, OutcomeSteps
    <3>3. CASE SyncPlan(mandates[m].plan)
      BY <1>6, <3>3 DEF SyncPlan
    <3>4. QED
      BY <2>3, <3>1, <3>2, <3>3 DEF ClientExecutes
  <2>4. ASSUME NEW e \in EventIds, NEW m \in Rows, NEW amount \in CartTotals,
               CaptureWebhook(e, m, amount)
        PROVE  NoRequestAdded
    BY <1>3, <1>7, <2>4, OutcomeSteps
  <2>5. ASSUME NEW e \in EventIds, NEW m \in Rows, FailWebhook(e, m) PROVE NoRequestAdded
    BY <1>3, <1>7, <2>5, OutcomeSteps
  <2>6. NoRequestAdded /\ UNCHANGED delivery
    BY <1>8, <2>1, <2>2, <2>3, <2>4, <2>5 DEF RestOfTheRail
  <2>7. QED
    BY <1>5, <2>6
<1>9. ASSUME ProcessStops PROVE Goal
  <2>1. UNCHANGED mandates
    BY <1>9 DEF ProcessStops, Crash, vars
  <2>2. ASSUME NEW i \in Intents
        PROVE  /\ delivery'[i] \in {Unsent} \cup RequestDelivery \cup JourneyDelivery
               /\ CalmDelivery(i)
    <3>1. delivery[i] \in {Unsent} \cup RequestDelivery \cup JourneyDelivery
      BY <1>3 DEF DeliveriesTypeOK
    <3>2. delivery'[i] = IF Serving(i) THEN [delivery[i] EXCEPT !.at = "done"] ELSE delivery[i]
      BY <1>9 DEF ProcessStops
    <3>3. CASE ~Serving(i)
      BY <3>1, <3>2, <3>3 DEF CalmDelivery
    <3>4. CASE Serving(i) /\ delivery[i] \in RequestDelivery
      <4>1. /\ delivery'[i] \in RequestDelivery /\ delivery'[i].at = "done"
            /\ delivery'[i].request = delivery[i].request
            /\ delivery'[i].began = delivery[i].began
        BY <3>2, <3>4 DEF RequestDelivery
      <4>2. QED
        BY <3>4, <4>1 DEF CalmDelivery
    <3>5. CASE Serving(i) /\ delivery[i] \in JourneyDelivery
      <4>1. delivery'[i] \in JourneyDelivery
        BY <3>2, <3>5 DEF JourneyDelivery
      <4>2. QED
        BY <3>5, <4>1, DeliveryShapes DEF CalmDelivery
    <3>6. CASE delivery[i] = Unsent
      BY <3>3, <3>6 DEF Serving, Unsent
    <3>7. QED
      BY <3>1, <3>3, <3>4, <3>5, <3>6
  <2>3. DeliveriesTypeOK'
    BY <1>9, <2>2 DEF DeliveriesTypeOK, ProcessStops
  <2>4. QED
    BY <1>2, <1>6, <2>1, <2>2, <2>3, CalmStep DEF Goal
<1>10. ASSUME NEW i \in Intents, Deliver(i) PROVE Goal
  <2>1. delivery[i] \in {Unsent} \cup RequestDelivery \cup JourneyDelivery
    BY <1>3 DEF DeliveriesTypeOK
  <2>2. ASSUME NEW request \in Requests, Receive(i, request) PROVE Goal
    <3>1. request \in Keys
      BY RequestsAssumption
    <3>2. /\ DeliveriesTypeOK'
          /\ delivery'[i] \in RequestDelivery /\ delivery'[i].at = "deliberating"
          /\ delivery'[i].began = Len(mandates)
          /\ \A j \in Intents \ {i} : delivery'[j] = delivery[j]
      BY <1>3, <2>2, <3>1, DeliveryArrives DEF Receive
    <3>3. CalmDelivery(i)
      BY <2>2, <3>2 DEF CalmDelivery, Receive
    <3>4. NoRequestAdded
      BY <1>6, <2>2 DEF Receive, RegisterIntent
    <3>5. QED
      BY <1>4, <3>2, <3>3, <3>4
  <2>3. ASSUME NEW key \in Keys \ Requests, ReceiveApproval(i, key) PROVE Goal
    <3>1. /\ DeliveriesTypeOK'
          /\ delivery'[i] \in RequestDelivery /\ delivery'[i].at = "authorizing"
          /\ delivery'[i].request = key /\ delivery'[i].began = Len(mandates)
          /\ \A j \in Intents \ {i} : delivery'[j] = delivery[j]
      BY <1>3, <2>3, DeliveryArrives DEF ReceiveApproval
    <3>2. CalmDelivery(i)
      BY <2>3, <3>1 DEF CalmDelivery, ReceiveApproval
    <3>3. NoRequestAdded
      BY <1>6, <2>3 DEF ReceiveApproval, RegisterIntent
    <3>4. QED
      BY <1>4, <3>1, <3>2, <3>3
  <2>4. ASSUME delivery[i] \in RequestDelivery, To(i, "done"), NoRequestAdded PROVE Goal
    <3>1. /\ DeliveriesTypeOK'
          /\ delivery'[i] \in RequestDelivery /\ delivery'[i].at = "done"
          /\ delivery'[i].request = delivery[i].request
          /\ delivery'[i].began = delivery[i].began
          /\ \A j \in Intents \ {i} : delivery'[j] = delivery[j]
      BY <1>3, <2>4, DeliveryMoves
    <3>2. CalmDelivery(i)
      BY <2>4, <3>1 DEF CalmDelivery
    <3>3. QED
      BY <1>4, <2>4, <3>1, <3>2
  <2>5. ASSUME delivery[i].at \in {"deliberating", "authorizing", "ordering"}
        PROVE  delivery[i] \in RequestDelivery
    BY <2>1, <2>5, DeliveryShapes
  <2>6. CASE NothingToBuy(i)
    BY <1>6, <2>4, <2>5, <2>6 DEF NothingToBuy, vars
  <2>7. CASE CredentialExpired(i)
    BY <1>6, <2>4, <2>5, <2>7 DEF CredentialExpired, vars
  <2>8. CASE LookUp(i)
    <3>1. delivery[i] \in RequestDelivery /\ NoRequestAdded
      BY <1>6, <2>5, <2>8 DEF LookUp, vars
    <3>2. CASE Recorded(i)
      BY <2>4, <2>8, <3>1, <3>2 DEF LookUp
    <3>3. CASE ~Recorded(i)
      <4>1. /\ DeliveriesTypeOK'
            /\ delivery'[i] \in RequestDelivery /\ delivery'[i].at = "authorizing"
            /\ delivery'[i].request = delivery[i].request
            /\ delivery'[i].began = delivery[i].began
            /\ \A j \in Intents \ {i} : delivery'[j] = delivery[j]
        BY <1>3, <2>8, <3>1, <3>3, DeliveryMoves DEF LookUp
      <4>2. CalmDelivery(i)
        BY <2>8, <3>1, <3>3, <4>1 DEF CalmDelivery, LookUp
      <4>3. QED
        BY <1>4, <3>1, <4>1, <4>2
    <3>4. QED
      BY <3>2, <3>3
  <2>9. CASE OrderDelivered(i)
    <3>1. delivery[i] \in RequestDelivery /\ To(i, "done")
      BY <2>5, <2>9 DEF OrderDelivered
    <3>2. PICK m \in Rows : AgentOrder(m) \/ HandlerFails(m)
      BY <2>9 DEF OrderDelivered
    <3>3. CASE AgentOrder(m)
      BY <1>3, <1>7, <2>4, <3>1, <3>3, StatusSteps
    <3>4. CASE HandlerFails(m)
      BY <1>6, <2>4, <3>1, <3>4 DEF HandlerFails
    <3>5. QED
      BY <3>2, <3>3, <3>4
  <2>10. CASE AuthorizeDelivered(i)
    <3>1. delivery[i] \in RequestDelivery /\ delivery[i].at = "authorizing"
      BY <2>5, <2>10 DEF AuthorizeDelivered
    <3>2. PICK merchant \in AllowedMerchants[i], total \in CartTotals, ok \in BOOLEAN :
             \/ /\ AuthorizeMandate(i, merchant, delivery[i].request, total, ok, "agent")
                /\ To(i, "ordering")
             \/ /\ AuthorizeMandateRejected(i, merchant, delivery[i].request, total, ok)
                /\ To(i, "done")
      BY <2>10 DEF AuthorizeDelivered
    <3>3. merchant \in Merchants
      BY AllowedMerchantsAssumption
    <3>4. CASE AuthorizeMandate(i, merchant, delivery[i].request, total, ok, "agent")
               /\ To(i, "ordering")
      BY <1>2, <3>1, <3>3, <3>4, DeliveryAuthorized DEF Goal
    <3>5. CASE AuthorizeMandateRejected(i, merchant, delivery[i].request, total, ok)
               /\ To(i, "done")
      BY <1>6, <2>4, <3>1, <3>5 DEF AuthorizeMandateRejected
    <3>6. QED
      BY <3>2, <3>4, <3>5
  <2>11. QED
    BY <1>10, <2>2, <2>3, <2>6, <2>7, <2>8, <2>9, <2>10 DEF Deliver
<1>11. QED
  BY <1>8, <1>9, <1>10 DEF NextRequests, Goal

\* At the start nothing has been delivered.
LEMMA RequestsInit == InitRequests => RequestsInv
<1> SUFFICES ASSUME InitRequests PROVE RequestsInv
  OBVIOUS
<1>1. TypeOK
  BY InitTypeOK DEF InitRequests
<1>2. delivery = [i \in Intents |-> Unsent] /\ Rows = {}
  BY DEF InitRequests, Init, Rows
<1>3. DeliveriesTypeOK
  BY <1>2 DEF DeliveriesTypeOK
<1>4. DeliveriesInv
  BY <1>2, DeliveryShapes DEF DeliveriesInv, DuplicatesOverlap, Unsent
<1>5. QED
  BY <1>1, <1>3, <1>4 DEF RequestsInv

\* A step of a request, or of the rail under it, keeps the requests' invariant.
LEMMA RequestsInvStep == RequestsInv /\ [NextRequests]_<<vars, delivery>> => RequestsInv'
<1> SUFFICES ASSUME RequestsInv, [NextRequests]_<<vars, delivery>> PROVE RequestsInv'
  OBVIOUS
<1>1. CASE NextRequests
  <2>1. TypeOK'
    BY <1>1, RequestsStepIsRailStep, TypeOKStep DEF RequestsInv
  <2>2. QED
    BY <1>1, <2>1, RequestsStep DEF RequestsInv
<1>2. CASE UNCHANGED <<vars, delivery>>
  BY <1>2 DEF RequestsInv, TypeOK, DeliveriesTypeOK, DeliveriesInv, DuplicatesOverlap,
              SameRequest, Rows, vars
<1>3. QED
  BY <1>1, <1>2

\* The agent endpoints are clients of the rail: whatever they and the other
\* clients do is a behaviour of PaymentRail, so each of its theorems holds for them.
THEOREM RequestsKeepRail == SpecRequests => Spec
<1>1. InitRequests => Init
  BY DEF InitRequests
<1>2. RequestsInv /\ [NextRequests]_<<vars, delivery>> => [Next]_vars
  BY RequestsStepIsRailStep DEF RequestsInv
<1>3. QED
  BY <1>1, <1>2, RequestsInit, RequestsInvStep, PTL DEF SpecRequests, Spec

\* Two mandates of one request come from deliveries that overlapped: one that
\* arrives after the other's mandate was recorded finds it
\* (deliberate_goal() in app/api/agent_routes.py).
THEOREM DuplicatesHold == SpecRequests => []DuplicatesOverlap
<1>1. RequestsInv => DuplicatesOverlap
  BY DEF RequestsInv, DeliveriesInv
<1>2. QED
  BY <1>1, RequestsInit, RequestsInvStep, PTL DEF SpecRequests

-----------------------------------------------------------------------------
Underway == {"executing", "capturing", "syncing", "answered"}

IsUnderway(i) == delivery[i] \in JourneyDelivery /\ delivery[i].at \in Underway

\* A journey that got past its authorization has a mandate at both merchants, and a plan.
HasLegs(i) ==
    /\ \A k \in 1 .. 2 : \E m \in Rows : /\ mandates[m].intent = i
                                         /\ mandates[m].merchant = JourneyMerchants[k]
    /\ \E p \in Plans : plans[p].intent = i
LegsPlanned == \A i \in Intents : IsUnderway(i) => HasLegs(i)

StockTypeOK == supply \in BOOLEAN /\ inStock \in BOOLEAN

JourneysInv == RequestsInv /\ StockTypeOK /\ LegsPlanned /\ MarksAreTakenBack

\* The next position of the journey of intent i, and nothing else of the deliveries.
JourneyAt(i, at, leg, marked) ==
    /\ DeliveriesTypeOK'
    /\ delivery'[i] \in JourneyDelivery
    /\ delivery'[i].at = at /\ delivery'[i].leg = leg /\ delivery'[i].marked = marked
    /\ \A j \in Intents \ {i} : delivery'[j] = delivery[j]

\* The ways a journey goes on.
LEMMA JourneyMoves ==
    ASSUME DeliveriesTypeOK, NEW i \in Intents, delivery[i] \in JourneyDelivery
    PROVE  /\ \A at \in {"planning", "executing", "capturing", "syncing", "answered", "done"} :
                 To(i, at) => JourneyAt(i, at, delivery[i].leg, delivery[i].marked)
           /\ ToNextLeg(i) =>
                 JourneyAt(i, IF delivery[i].leg = 1 THEN "executing" ELSE "syncing", 2,
                           delivery[i].marked)
           /\ \A at \in {"syncing", "answered"}, marked \in BOOLEAN :
                 delivery' = [delivery EXCEPT ![i].at = at, ![i].marked = marked]
                    => JourneyAt(i, at, delivery[i].leg, marked)
<1>0. delivery[i].leg \in 1 .. 2 /\ delivery[i].marked \in BOOLEAN
  BY DEF JourneyDelivery
<1>1. ASSUME NEW at \in {"planning", "executing", "capturing", "syncing", "answered", "done"},
             NEW leg \in 1 .. 2, NEW marked \in BOOLEAN,
             delivery' = [delivery EXCEPT ![i] = [delivery[i] EXCEPT !.at = at, !.leg = leg,
                                                                     !.marked = marked]]
      PROVE  JourneyAt(i, at, leg, marked)
  <2> DEFINE d == [delivery[i] EXCEPT !.at = at, !.leg = leg, !.marked = marked]
  <2>1. d \in JourneyDelivery /\ d.at = at /\ d.leg = leg /\ d.marked = marked
    BY DEF JourneyDelivery
  <2>2. delivery' = [delivery EXCEPT ![i] = d]
    BY <1>1
  <2> HIDE DEF d
  <2>3. QED
    BY <2>1, <2>2, DeliveryUpdate DEF JourneyAt
<1>2. ASSUME NEW at \in {"planning", "executing", "capturing", "syncing", "answered", "done"},
             To(i, at)
      PROVE  JourneyAt(i, at, delivery[i].leg, delivery[i].marked)
  <2>1. [delivery[i] EXCEPT !.at = at] = [delivery[i] EXCEPT !.at = at, !.leg = delivery[i].leg,
                                                             !.marked = delivery[i].marked]
    BY DEF JourneyDelivery
  <2>2. delivery' = [delivery EXCEPT ![i] = [delivery[i] EXCEPT !.at = at]]
    BY <1>2 DEF To, DeliveriesTypeOK
  <2>3. QED
    BY <1>0, <1>1, <2>1, <2>2
<1>3. ASSUME ToNextLeg(i)
      PROVE  JourneyAt(i, IF delivery[i].leg = 1 THEN "executing" ELSE "syncing", 2,
                       delivery[i].marked)
  <2> DEFINE at == IF delivery[i].leg = 1 THEN "executing" ELSE "syncing"
  <2>1. delivery' = [delivery EXCEPT ![i] = [delivery[i] EXCEPT !.at = at, !.leg = 2]]
    BY <1>3 DEF ToNextLeg, DeliveriesTypeOK
  <2>2. at \in {"executing", "syncing"}
    OBVIOUS
  <2> HIDE DEF at
  <2>3. [delivery[i] EXCEPT !.at = at, !.leg = 2] =
          [delivery[i] EXCEPT !.at = at, !.leg = 2, !.marked = delivery[i].marked]
    BY DEF JourneyDelivery
  <2>4. delivery' = [delivery EXCEPT ![i] = [delivery[i] EXCEPT !.at = at, !.leg = 2,
                                                               !.marked = delivery[i].marked]]
    BY <2>1, <2>3
  <2>5. JourneyAt(i, at, 2, delivery[i].marked)
    <3>1. at \in {"planning", "executing", "capturing", "syncing", "answered", "done"} /\ 2 \in 1 .. 2
      BY <2>2
    <3>2. QED
      BY ONLY <1>0, <1>1, <2>4, <3>1
  <2>6. QED
    BY <2>5 DEF at
<1>4. ASSUME NEW at \in {"syncing", "answered"}, NEW marked \in BOOLEAN,
             delivery' = [delivery EXCEPT ![i].at = at, ![i].marked = marked]
      PROVE  JourneyAt(i, at, delivery[i].leg, marked)
  <2>1. delivery' = [delivery EXCEPT ![i] = [delivery[i] EXCEPT !.at = at, !.marked = marked]]
    BY <1>4 DEF DeliveriesTypeOK
  <2>2. [delivery[i] EXCEPT !.at = at, !.marked = marked] =
          [delivery[i] EXCEPT !.at = at, !.leg = delivery[i].leg, !.marked = marked]
    BY DEF JourneyDelivery
  <2>3. QED
    BY <1>0, <1>1, <2>1, <2>2
<1>5. QED
  BY <1>2, <1>3, <1>4

\* What is known of a mandate's and a plan's owner stays.
LEMMA OwnersStay ==
    ASSUME TypeOK, [Next]_vars
    PROVE  /\ Rows \subseteq Rows'
           /\ \A m \in Rows : /\ mandates'[m].intent = mandates[m].intent
                              /\ mandates'[m].plan = mandates[m].plan
                              /\ mandates'[m].merchant = mandates[m].merchant
           /\ \A p \in Plans : plans[p].intent # NoIntent => plans'[p].intent = plans[p].intent
<1>1. CASE ContractsKept
  BY <1>1 DEF ContractsKept, Rows
<1>2. ASSUME NEW i \in Intents, NEW merchant \in Merchants, NEW key \in Keys,
             NEW total \in CartTotals, NEW ok, NEW caller,
             AuthorizeMandate(i, merchant, key, total, ok, caller)
      PROVE  /\ Rows \subseteq Rows' /\ \A m \in Rows : mandates'[m] = mandates[m]
             /\ plans' = plans
  BY <1>2, MandateAdded DEF AuthorizeMandate
<1>3. ASSUME NEW i \in Intents, NEW p \in Plans, NEW legs \in Legs, NEW total,
             AuthorizePlan(i, p, legs, total)
      PROVE  /\ Rows \subseteq Rows' /\ \A m \in Rows : mandates'[m] = mandates[m]
             /\ \A q \in Plans : plans[q].intent # NoIntent => plans'[q] = plans[q]
  <2>1. Rows \subseteq Rows' /\ \A m \in Rows : mandates'[m] = mandates[m]
    BY <1>3, PlanAdded
  <2>2. plans' = [plans EXCEPT ![p] = [intent |-> i, status |-> "CONFIRMED"]]
        /\ plans[p].intent = NoIntent
    BY <1>3 DEF AuthorizePlan, PlanAdmitted
  <2>3. QED
    BY <2>1, <2>2 DEF TypeOK
<1>4. QED
  BY <1>1, <1>2, <1>3, ContractSteps

\* A journey's plan is one that authorize_plan() may be asked for.
LEMMA JourneyPlans ==
    ASSUME MaxLegs >= 2, TypeOK, NEW i \in Intents, NEW p \in Plans,
           NEW totals \in [1 .. 2 -> CartTotals], NEW ok \in BOOLEAN
    PROVE  LET legs == [k \in 1 .. 2 |-> [merchant |-> JourneyMerchants[k],
                                          total |-> totals[k], inPolicy |-> ok]]
           IN  /\ legs \in Legs /\ Len(legs) = 2
               /\ AuthorizePlan(i, p, legs, totals[1] + totals[2])
                    => totals[1] + totals[2] \in 1 .. SpendCap[i]
<1> DEFINE legs == [k \in 1 .. 2 |-> [merchant |-> JourneyMerchants[k],
                                      total |-> totals[k], inPolicy |-> ok]]
           total == totals[1] + totals[2]
<1>1. legs \in [1 .. 2 -> [merchant : Merchants, total : CartTotals, inPolicy : BOOLEAN]]
  BY JourneyMerchantsAssumption
<1>2. legs \in Legs
  BY <1>1, BoundsAssumption DEF Legs
<1>3. Len(legs) = 2
  OBVIOUS
<1> HIDE DEF legs
<1>4. total \in Nat \ {0}
  <2>1. totals[1] \in CartTotals /\ totals[2] \in CartTotals
    OBVIOUS
  <2>2. \A a, b \in CartTotals : a + b \in Nat \ {0}
    BY CartTotalsAssumption
  <2>3. QED
    BY <2>1, <2>2
<1>5. /\ Registered(i).reserved \in Nat /\ Registered(i).captured \in Nat
      /\ SpendCap[i] \in Nat
  BY RegistryRows, SpendCapAssumption DEF IntentRow
<1>6. ASSUME AuthorizePlan(i, p, legs, total) PROVE total \in 1 .. SpendCap[i]
  <2>1. total <= SpendCap[i] - Registered(i).reserved - Registered(i).captured
    BY <1>6 DEF AuthorizePlan, Available
  <2> HIDE DEF total
  <2>2. QED
    BY <1>4, <1>5, <2>1
<1>7. QED
  BY <1>2, <1>3, <1>6 DEF legs

\* The mandates that an accepted plan adds: one for each leg.
LEMMA PlanRows ==
    ASSUME TypeOK, NEW i \in Intents, NEW p \in Plans, NEW legs \in Legs, NEW total,
           AuthorizePlan(i, p, legs, total)
    PROVE  /\ \A k \in 1 .. Len(legs) : \E m \in Rows' : /\ mandates'[m].intent = i
                                                         /\ mandates'[m].merchant = legs[k].merchant
           /\ \A m \in Rows' \ Rows : /\ mandates'[m].intent = i /\ mandates'[m].plan = p
                                      /\ mandates'[m].status = "RESERVED"
                                      /\ \E k \in 1 .. Len(legs) :
                                            mandates'[m].merchant = legs[k].merchant
<1> DEFINE Leg(m) == legs[m - Len(mandates)]
<1>1. /\ Len(mandates') = Len(mandates) + Len(legs) /\ Len(mandates) \in Nat /\ Len(legs) \in Nat
      /\ \A m \in Rows' \ Rows :
            /\ m - Len(mandates) \in 1 .. Len(legs)
            /\ mandates'[m] = NewMandate(i, p, Leg(m).merchant, LegKey(p, Leg(m).merchant),
                                         Leg(m).total)
  BY PlanAdded, RowFacts
<1>2. \A m \in Rows' \ Rows : \E k \in 1 .. Len(legs) : Leg(m) = legs[k]
  BY <1>1
<1>3. \A k \in 1 .. Len(legs) : Len(mandates) + k \in Rows' \ Rows /\ Leg(Len(mandates) + k) = legs[k]
  BY <1>1 DEF Rows
<1> HIDE DEF Leg
<1>4. \A leg : LET row == NewMandate(i, p, leg.merchant, LegKey(p, leg.merchant), leg.total)
               IN  /\ row.intent = i /\ row.plan = p /\ row.status = "RESERVED"
                   /\ row.merchant = leg.merchant
  BY DEF NewMandate
<1>5. \A m \in Rows' \ Rows : /\ mandates'[m].intent = i /\ mandates'[m].plan = p
                              /\ mandates'[m].status = "RESERVED"
                              /\ mandates'[m].merchant = Leg(m).merchant
  BY <1>1, <1>4
<1>6. QED
  BY <1>2, <1>3, <1>5

\* The merchants of a journey's plan have a mandate each, and the plan is the intent's.
LEMMA JourneyPlanned ==
    ASSUME MaxLegs >= 2, TypeOK, NEW i \in Intents, NEW p \in Plans,
           NEW totals \in [1 .. 2 -> CartTotals], NEW ok \in BOOLEAN,
           AuthorizePlan(i, p, [k \in 1 .. 2 |-> [merchant |-> JourneyMerchants[k],
                                                  total |-> totals[k], inPolicy |-> ok]],
                         totals[1] + totals[2])
    PROVE  /\ \A k \in 1 .. 2 : \E m \in Rows' : /\ mandates'[m].intent = i
                                                 /\ mandates'[m].merchant = JourneyMerchants[k]
           /\ plans'[p].intent = i
<1> DEFINE legs == [k \in 1 .. 2 |-> [merchant |-> JourneyMerchants[k],
                                      total |-> totals[k], inPolicy |-> ok]]
           total == totals[1] + totals[2]
<1>1. legs \in Legs /\ Len(legs) = 2 /\ \A k \in 1 .. 2 : legs[k].merchant = JourneyMerchants[k]
  BY JourneyPlans
<1>2. AuthorizePlan(i, p, legs, total)
  OBVIOUS
<1> HIDE DEF legs, total
<1>3. \A k \in 1 .. Len(legs) : \E m \in Rows' : /\ mandates'[m].intent = i
                                                 /\ mandates'[m].merchant = legs[k].merchant
  BY <1>1, <1>2, PlanRows
<1>4. plans'[p].intent = i
  BY <1>2 DEF AuthorizePlan, TypeOK
<1>5. QED
  BY <1>1, <1>3, <1>4

\* A journey's step is a step of the rail, or leaves it alone; it adds no mandate of a
\* request, and is under way only with its legs planned.
LEMMA JourneySteps ==
    ASSUME MaxLegs >= 2, TypeOK, DeliveriesTypeOK, LegsPlanned, NEW i \in Intents, Journey(i)
    PROVE  /\ [Next]_vars /\ NoRequestAdded
           /\ delivery[i] \notin RequestDelivery
           /\ DeliveriesTypeOK' /\ delivery'[i] \in JourneyDelivery
           /\ \A j \in Intents \ {i} : delivery'[j] = delivery[j]
           /\ IsUnderway(i)' => IsUnderway(i) \/ HasLegs(i)'
<1> DEFINE Moves == /\ delivery[i] \notin RequestDelivery
                    /\ DeliveriesTypeOK' /\ delivery'[i] \in JourneyDelivery
                    /\ \A j \in Intents \ {i} : delivery'[j] = delivery[j]
           Goal == /\ [Next]_vars /\ NoRequestAdded /\ Moves
                   /\ IsUnderway(i)' => IsUnderway(i) \/ HasLegs(i)'
<1>1. delivery[i] \in {Unsent} \cup RequestDelivery \cup JourneyDelivery
  BY DEF DeliveriesTypeOK
<1>2. ASSUME delivery[i] \in JourneyDelivery, NEW at, NEW leg, NEW marked, JourneyAt(i, at, leg, marked)
      PROVE  Moves /\ delivery'[i].at = at
  BY <1>2, DeliveryShapes DEF JourneyAt
<1>3. ASSUME UNCHANGED vars PROVE [Next]_vars /\ NoRequestAdded
  BY <1>3, NoRowAdded DEF vars
<1>4. ASSUME Next, UNCHANGED mandates PROVE [Next]_vars /\ NoRequestAdded
  BY <1>4, NoRowAdded
<1>5. ASSUME NEW m \in Rows, NEW row, Next, RowBecomes(m, row) PROVE [Next]_vars /\ NoRequestAdded
  BY <1>5, NoRowAdded DEF RowBecomes
<1>6. ASSUME NEW m \in Rows, ExecuteLeg(m) \/ ReleaseLeg(m) PROVE [Next]_vars /\ NoRequestAdded
  BY <1>5, <1>6, StatusSteps, OutcomeSteps DEF Next, PlanExecution
<1>7. ASSUME IsUnderway(i), NEW k \in 1 .. 2 PROVE LegOf(i, k) \in Rows
  BY <1>7 DEF LegsPlanned, HasLegs, LegOf
<1>8. ASSUME delivery[i].at \in {"planning", "executing", "capturing", "syncing"}
      PROVE  /\ delivery[i] \in JourneyDelivery /\ delivery[i].leg \in 1 .. 2
             /\ delivery[i].marked \in BOOLEAN
             /\ delivery[i].at # "planning" => IsUnderway(i)
  <2>1. delivery[i] \in JourneyDelivery
    BY <1>1, <1>8, DeliveryShapes
  <2>2. QED
    BY <1>8, <2>1 DEF JourneyDelivery, IsUnderway, Underway
<1> HIDE DEF Moves
<1>9. ASSUME NEW scenario \in {"partial_failure", "all_success"}, BeginJourney(i, scenario) PROVE Goal
  <2>1. delivery' = [delivery EXCEPT ![i] = Planning(scenario)] /\ delivery[i] = Unsent
    BY <1>9 DEF BeginJourney
  <2>2. Planning(scenario) \in JourneyDelivery /\ Planning(scenario).at = "planning"
    BY DEF JourneyDelivery, Planning
  <2>3. Moves /\ delivery'[i].at = "planning"
    BY <2>1, <2>2, DeliveryUpdate, DeliveryShapes DEF Moves
  <2>4. Next /\ UNCHANGED mandates
    BY <1>9 DEF BeginJourney, RegisterIntent, Next, Authorization
  <2>5. QED
    BY <1>4, <2>3, <2>4 DEF IsUnderway, Underway
<1>10. ASSUME PlanJourney(i) PROVE Goal
  <2>1. delivery[i] \in JourneyDelivery
    BY <1>8, <1>10 DEF PlanJourney
  <2>2. PICK p \in Plans, totals \in [1 .. 2 -> CartTotals], ok \in BOOLEAN :
           LET legs == [k \in 1 .. 2 |-> [merchant |-> JourneyMerchants[k],
                                         total |-> totals[k], inPolicy |-> ok]]
           IN  \/ AuthorizePlan(i, p, legs, totals[1] + totals[2]) /\ To(i, "executing")
               \/ AuthorizePlanRejected(i, p, legs) /\ To(i, "done")
    BY <1>10 DEF PlanJourney
  <2> DEFINE legs == [k \in 1 .. 2 |-> [merchant |-> JourneyMerchants[k],
                                        total |-> totals[k], inPolicy |-> ok]]
             total == totals[1] + totals[2]
  <2>3. legs \in Legs /\ (AuthorizePlan(i, p, legs, total) => total \in 1 .. SpendCap[i])
    BY JourneyPlans
  <2>4. AuthorizePlan(i, p, legs, total) => HasLegs(i)'
    BY JourneyPlanned DEF HasLegs
  <2>5. \/ AuthorizePlan(i, p, legs, total) /\ To(i, "executing")
        \/ AuthorizePlanRejected(i, p, legs) /\ To(i, "done")
    BY <2>2
  <2> HIDE DEF legs, total
  <2>6. CASE AuthorizePlan(i, p, legs, total) /\ To(i, "executing")
    <3>1. NoRequestAdded
      BY <2>3, <2>6, PlanRequestsNone
    <3>2. Next
      BY <2>3, <2>6 DEF Next, Authorization
    <3>3. Moves
      BY <1>2, <2>1, <2>6, JourneyMoves
    <3>4. QED
      BY <2>4, <2>6, <3>1, <3>2, <3>3
  <2>7. CASE AuthorizePlanRejected(i, p, legs) /\ To(i, "done")
    <3>1. Next /\ UNCHANGED mandates
      BY <2>3, <2>7 DEF Next, Authorization, AuthorizePlanRejected
    <3>2. Moves /\ delivery'[i].at = "done"
      BY <1>2, <2>1, <2>7, JourneyMoves
    <3>3. QED
      BY <1>4, <3>1, <3>2 DEF IsUnderway, Underway
  <2>8. QED
    BY <2>5, <2>6, <2>7
<1>11. ASSUME ExecuteJourneyLeg(i) PROVE Goal
  <2> DEFINE m == LegOf(i, delivery[i].leg)
  <2>1. delivery[i] \in JourneyDelivery /\ IsUnderway(i) /\ m \in Rows
    BY <1>7, <1>8, <1>11 DEF ExecuteJourneyLeg
  <2>2. \/ ExecuteLeg(m) /\ To(i, "capturing")
        \/ ReleaseLeg(m) /\ ToNextLeg(i)
        \/ UNCHANGED vars /\ ToNextLeg(i)
    BY <1>11 DEF ExecuteJourneyLeg
  <2> HIDE DEF m
  <2>3. Moves
    BY <1>2, <2>1, <2>2, JourneyMoves
  <2>4. QED
    BY <1>3, <1>6, <2>1, <2>2, <2>3
<1>12. ASSUME FailLastLeg(i) PROVE Goal
  <2>1. delivery[i] \in JourneyDelivery /\ IsUnderway(i) /\ LegOf(i, 2) \in Rows
    BY <1>7, <1>8, <1>12 DEF FailLastLeg
  <2>2. ReleaseLeg(LegOf(i, 2))
        /\ delivery' = [delivery EXCEPT ![i].at = "syncing", ![i].marked = TRUE]
    BY <1>12 DEF FailLastLeg
  <2>3. Moves
    BY <1>2, <2>1, <2>2, JourneyMoves
  <2>4. QED
    BY <1>6, <2>1, <2>2, <2>3
<1>13. ASSUME CaptureJourneyLeg(i) PROVE Goal
  <2> DEFINE m == LegOf(i, delivery[i].leg)
  <2>1. delivery[i] \in JourneyDelivery /\ IsUnderway(i) /\ m \in Rows
    BY <1>7, <1>8, <1>13 DEF CaptureJourneyLeg
  <2>2. \/ SimulatedCapture(m, mandates[m].amount) /\ ToNextLeg(i)
        \/ UNCHANGED vars /\ (ToNextLeg(i) \/ To(i, "done"))
    BY <1>13 DEF CaptureJourneyLeg
  <2> HIDE DEF m
  <2>3. Moves
    BY <1>2, <2>1, <2>2, JourneyMoves
  <2>4. ASSUME SimulatedCapture(m, mandates[m].amount) PROVE [Next]_vars /\ NoRequestAdded
    <3>1. mandates[m].amount \in CartTotals
      BY <2>1, RowFacts
    <3>2. PICK e \in EventIds : CaptureWebhook(e, m, mandates[m].amount)
      BY <2>4 DEF SimulatedCapture
    <3>3. Next
      BY <2>1, <3>1, <3>2 DEF Next, Webhooks
    <3>4. QED
      BY <1>5, <2>1, <3>1, <3>2, <3>3, OutcomeSteps
  <2>5. QED
    BY <1>3, <2>1, <2>2, <2>3, <2>4
<1>14. ASSUME SyncJourney(i) PROVE Goal
  <2>1. delivery[i] \in JourneyDelivery /\ IsUnderway(i)
    BY <1>8, <1>14 DEF SyncJourney
  <2>2. PlanOf(i) \in Plans
    BY <2>1 DEF LegsPlanned, HasLegs, PlanOf
  <2>3. SyncPlan(PlanOf(i))
        /\ delivery' = [delivery EXCEPT ![i].at = "answered", ![i].marked = FALSE]
    BY <1>14 DEF SyncJourney
  <2>4. Moves
    BY <1>2, <2>1, <2>3, JourneyMoves
  <2>5. Next /\ UNCHANGED mandates
    BY <2>2, <2>3 DEF Next, PlanExecution, SyncPlan
  <2>6. QED
    BY <1>4, <2>1, <2>4, <2>5
<1>15. ASSUME JourneyFails(i) PROVE Goal
  <2>1. delivery[i] \in JourneyDelivery
    BY <1>1, <1>15, DeliveryShapes DEF JourneyFails, IsJourney
  <2>2. To(i, "done") /\ UNCHANGED vars
    BY <1>15 DEF JourneyFails
  <2>3. Moves /\ delivery'[i].at = "done"
    BY <1>2, <2>1, <2>2, JourneyMoves
  <2>4. QED
    BY <1>3, <2>2, <2>3 DEF IsUnderway, Underway
<1>16. QED
  BY <1>9, <1>10, <1>11, <1>12, <1>13, <1>14, <1>15 DEF Journey, Moves

\* The agent endpoints and the other clients leave a journey to itself; only the
\* process that stops ends it.
LEMMA JourneysUndisturbed ==
    ASSUME RequestsInv, NextRequests, NEW i \in Intents
    PROVE  /\ delivery[i] \in JourneyDelivery =>
                /\ delivery'[i] \in JourneyDelivery
                /\ delivery'[i].marked = delivery[i].marked
                /\ \/ delivery'[i] = delivery[i]
                   \/ delivery'[i].at = "done" /\ delivery[i].at # "answered"
           /\ delivery'[i] \in JourneyDelivery => delivery[i] \in JourneyDelivery
<1> DEFINE Kept == delivery'[i] = delivery[i]
           Goal == /\ delivery[i] \in JourneyDelivery =>
                        /\ delivery'[i] \in JourneyDelivery
                        /\ delivery'[i].marked = delivery[i].marked
                        /\ \/ delivery'[i] = delivery[i]
                           \/ delivery'[i].at = "done" /\ delivery[i].at # "answered"
                   /\ delivery'[i] \in JourneyDelivery => delivery[i] \in JourneyDelivery
<1>1. TypeOK /\ DeliveriesTypeOK
  BY DEF RequestsInv
<1>2. delivery[i] \in {Unsent} \cup RequestDelivery \cup JourneyDelivery
  BY <1>1 DEF DeliveriesTypeOK
<1>3. ASSUME Kept PROVE Goal
  BY <1>3
<1>4. ASSUME delivery[i] \notin JourneyDelivery, delivery'[i] \in RequestDelivery PROVE Goal
  BY <1>4, DeliveryShapes
<1>5. CASE RestOfTheRail
  BY <1>3, <1>5 DEF RestOfTheRail
<1>6. CASE ProcessStops
  <2>1. delivery'[i] = IF Serving(i) THEN [delivery[i] EXCEPT !.at = "done"] ELSE delivery[i]
    BY <1>6 DEF ProcessStops
  <2>2. CASE ~Serving(i)
    BY <1>3, <2>1, <2>2
  <2>3. CASE Serving(i) /\ delivery[i] \in JourneyDelivery
    <3>1. /\ delivery'[i] \in JourneyDelivery /\ delivery'[i].at = "done"
          /\ delivery'[i].marked = delivery[i].marked
      BY <2>1, <2>3 DEF JourneyDelivery
    <3>2. delivery[i].at # "answered"
      BY <2>3 DEF Serving
    <3>3. QED
      BY <2>3, <3>1, <3>2
  <2>4. CASE Serving(i) /\ delivery[i] \in RequestDelivery
    <3>1. delivery'[i] \in RequestDelivery
      BY <2>1, <2>4 DEF RequestDelivery
    <3>2. QED
      BY <1>4, <2>4, <3>1, DeliveryShapes
  <2>5. CASE delivery[i] = Unsent
    BY <2>2, <2>5 DEF Serving, Unsent
  <2>6. QED
    BY <1>2, <2>2, <2>3, <2>4, <2>5
<1>7. ASSUME NEW j \in Intents, Deliver(j) PROVE Goal
  <2>1. delivery[j] \in {Unsent} \cup RequestDelivery \cup JourneyDelivery
    BY <1>1 DEF DeliveriesTypeOK
  <2> DEFINE ServesOnly(l) == /\ delivery[l] \notin JourneyDelivery /\ delivery'[l] \in RequestDelivery
                             /\ \A k \in Intents \ {l} : delivery'[k] = delivery[k]
  <2>2. ServesOnly(j)
    <3>1. ASSUME NEW request \in Keys, Receive(j, request) \/ ReceiveApproval(j, request)
          PROVE  ServesOnly(j)
      BY <1>1, <3>1, DeliveryArrives, DeliveryShapes DEF Receive, ReceiveApproval
    <3>2. ASSUME delivery[j].at \in {"deliberating", "authorizing", "ordering"},
                 NEW at \in {"authorizing", "ordering", "done"}, To(j, at)
          PROVE  ServesOnly(j)
      <4>1. delivery[j] \in RequestDelivery /\ delivery[j] \notin JourneyDelivery
        BY <2>1, <3>2, DeliveryShapes
      <4>2. QED
        BY <1>1, <3>2, <4>1, DeliveryMoves
    <3>3. CASE NothingToBuy(j) \/ CredentialExpired(j) \/ OrderDelivered(j)
      BY <3>2, <3>3 DEF NothingToBuy, CredentialExpired, OrderDelivered
    <3>4. CASE LookUp(j)
      BY <3>2, <3>4 DEF LookUp
    <3>5. CASE AuthorizeDelivered(j)
      BY <3>2, <3>5 DEF AuthorizeDelivered
    <3>6. QED
      BY <1>7, <3>1, <3>3, <3>4, <3>5, RequestsAssumption DEF Deliver
  <2>3. QED
    BY <1>3, <1>4, <2>2
<1>8. QED
  BY <1>5, <1>6, <1>7 DEF NextRequests

\* A mandate and a plan once there stay the intent's.
LEMMA LegsStay ==
    ASSUME TypeOK, [Next]_vars, NEW i \in Intents, HasLegs(i)
    PROVE  HasLegs(i)'
<1>1. ASSUME NEW k \in 1 .. 2
      PROVE  \E m \in Rows' : /\ mandates'[m].intent = i
                              /\ mandates'[m].merchant = JourneyMerchants[k]
  BY OwnersStay DEF HasLegs
<1>2. \E p \in Plans : plans'[p].intent = i
  BY OwnersStay, NoIntentAssumption DEF HasLegs
<1>3. QED
  BY <1>1, <1>2 DEF HasLegs

\* Someone's mark explains the row.
Marked(i) == IsJourney(i) /\ delivery[i].marked /\ delivery[i].at # "answered"

\* What MarksAreTakenBack says, in terms of the journeys that marked the row.
LEMMA MarkedJourneys ==
    ASSUME DeliveriesTypeOK
    PROVE  /\ MarksAreTakenBack <=> (supply /\ ~inStock => \E i \in Intents : Marked(i))
           /\ \A i \in Intents : Marked(i) <=> /\ delivery[i] \in JourneyDelivery
                                               /\ delivery[i].marked /\ delivery[i].at # "answered"
<1>1. MarksAreTakenBack <=> (supply /\ ~inStock => \E i \in Intents : Marked(i))
  BY DEF MarksAreTakenBack, Marked
<1>2. \A i \in Intents : IsJourney(i) <=> delivery[i] \in JourneyDelivery
  BY DeliveryShapes DEF IsJourney, DeliveriesTypeOK
<1>3. QED
  BY <1>1, <1>2 DEF Marked

\* A journey puts its own mark on the row, and takes it back when it answers.
LEMMA JourneyMarks ==
    ASSUME DeliveriesTypeOK, DeliveriesTypeOK', StockTypeOK, MarksAreTakenBack,
           NEW i \in Intents, Journey(i)
    PROVE  StockTypeOK' /\ MarksAreTakenBack'
<1> DEFINE Explained == supply' /\ ~inStock' => \E j \in Intents : Marked(j)'
<1>1. delivery[i] \in {Unsent} \cup RequestDelivery \cup JourneyDelivery
  BY DEF DeliveriesTypeOK
<1>2. supply /\ ~inStock => \E j \in Intents : Marked(j)
  BY MarkedJourneys
<1>3. ASSUME NEW at, NEW leg, NEW marked, JourneyAt(i, at, leg, marked)
      PROVE  /\ Marked(i)' <=> marked /\ at # "answered"
             /\ \A j \in Intents \ {i} : Marked(j)' <=> Marked(j)
  <2>1. \A j \in Intents : Marked(j)' <=> /\ delivery'[j] \in JourneyDelivery
                                          /\ delivery'[j].marked /\ delivery'[j].at # "answered"
    BY DeliveryShapes DEF Marked, IsJourney, DeliveriesTypeOK
  <2>2. \A j \in Intents : Marked(j) <=> /\ delivery[j] \in JourneyDelivery
                                         /\ delivery[j].marked /\ delivery[j].at # "answered"
    BY MarkedJourneys
  <2>3. QED
    BY <1>3, <2>1, <2>2 DEF JourneyAt
<1>4. ASSUME delivery[i].at \in {"planning", "executing", "capturing", "syncing"}
      PROVE  /\ delivery[i] \in JourneyDelivery /\ delivery[i].marked \in BOOLEAN
             /\ Marked(i) <=> delivery[i].marked
  <2>1. delivery[i] \in JourneyDelivery
    BY <1>1, <1>4, DeliveryShapes
  <2>2. QED
    BY <1>4, <2>1, MarkedJourneys DEF JourneyDelivery
<1>5. ASSUME delivery[i] \in JourneyDelivery, Marked(i) <=> delivery[i].marked, UNCHANGED stockVars,
             NEW at \in {"executing", "capturing", "syncing", "done"}, NEW leg,
             JourneyAt(i, at, leg, delivery[i].marked)
      PROVE  Explained
  <2>1. \A j \in Intents : Marked(j)' <=> Marked(j)
    BY <1>3, <1>5
  <2>2. QED
    BY <1>2, <1>5, <2>1 DEF stockVars
<1> HIDE DEF Explained
<1>6. ASSUME NEW scenario \in {"partial_failure", "all_success"}, BeginJourney(i, scenario)
      PROVE  Explained
  <2>1. /\ delivery[i] = Unsent /\ UNCHANGED stockVars
        /\ \A j \in Intents \ {i} : delivery'[j] = delivery[j]
    BY <1>6 DEF BeginJourney, DeliveriesTypeOK
  <2>2. ~Marked(i)
    BY <2>1, MarkedJourneys, DeliveryShapes
  <2>3. \A j \in Intents : Marked(j) => Marked(j)'
    BY <2>1, <2>2 DEF Marked, IsJourney
  <2>4. QED
    BY <1>2, <2>1, <2>3 DEF Explained, stockVars
<1>7. ASSUME PlanJourney(i) PROVE Explained
  BY <1>4, <1>5, <1>7, JourneyMoves DEF PlanJourney
<1>8. ASSUME ExecuteJourneyLeg(i) PROVE Explained
  <2>1. delivery[i] \in JourneyDelivery /\ (Marked(i) <=> delivery[i].marked) /\ UNCHANGED stockVars
    BY <1>4, <1>8 DEF ExecuteJourneyLeg
  <2>2. To(i, "capturing") \/ ToNextLeg(i)
    BY <1>8 DEF ExecuteJourneyLeg
  <2>3. \/ JourneyAt(i, "capturing", delivery[i].leg, delivery[i].marked)
        \/ JourneyAt(i, IF delivery[i].leg = 1 THEN "executing" ELSE "syncing", 2, delivery[i].marked)
    BY <2>1, <2>2, JourneyMoves
  <2>4. QED
    BY <1>5, <2>1, <2>3
<1>9. ASSUME FailLastLeg(i) PROVE Explained
  <2>1. delivery[i] \in JourneyDelivery
        /\ delivery' = [delivery EXCEPT ![i].at = "syncing", ![i].marked = TRUE]
    BY <1>4, <1>9 DEF FailLastLeg
  <2>2. JourneyAt(i, "syncing", delivery[i].leg, TRUE)
    BY <2>1, JourneyMoves
  <2>3. Marked(i)'
    <3>1. Marked(i)' <=> TRUE /\ "syncing" # "answered"
      BY <1>3, <2>2
    <3>2. QED
      BY <3>1
  <2>4. QED
    BY <2>3 DEF Explained
<1>10. ASSUME CaptureJourneyLeg(i) PROVE Explained
  <2>1. delivery[i] \in JourneyDelivery /\ (Marked(i) <=> delivery[i].marked) /\ UNCHANGED stockVars
    BY <1>4, <1>10 DEF CaptureJourneyLeg
  <2>2. To(i, "done") \/ ToNextLeg(i)
    BY <1>10 DEF CaptureJourneyLeg
  <2>3. \/ JourneyAt(i, "done", delivery[i].leg, delivery[i].marked)
        \/ JourneyAt(i, IF delivery[i].leg = 1 THEN "executing" ELSE "syncing", 2, delivery[i].marked)
    BY <2>1, <2>2, JourneyMoves
  <2>4. QED
    BY <1>5, <2>1, <2>3
<1>11. ASSUME SyncJourney(i) PROVE Explained
  <2>1. /\ delivery[i] \in JourneyDelivery /\ (Marked(i) <=> delivery[i].marked)
        /\ inStock' = (inStock \/ delivery[i].marked) /\ supply' = supply
        /\ delivery' = [delivery EXCEPT ![i].at = "answered", ![i].marked = FALSE]
    BY <1>4, <1>11 DEF SyncJourney
  <2>2. \A j \in Intents \ {i} : Marked(j)' <=> Marked(j)
    BY <1>3, <2>1, JourneyMoves
  <2>3. QED
    BY <1>2, <2>1, <2>2 DEF Explained
<1>12. ASSUME JourneyFails(i) PROVE Explained
  <2>1. delivery[i] \in JourneyDelivery
    BY <1>1, <1>12, DeliveryShapes DEF JourneyFails, IsJourney
  <2>2. Marked(i) <=> delivery[i].marked
    BY <1>12, <2>1, MarkedJourneys DEF JourneyFails, Serving
  <2>3. QED
    BY <1>5, <1>12, <2>1, <2>2, JourneyMoves DEF JourneyFails
<1>13. StockTypeOK'
  <2>1. delivery[i].at = "syncing" => delivery[i].marked \in BOOLEAN
    BY <1>4
  <2>2. QED
    BY <2>1 DEF StockTypeOK, Journey, BeginJourney, PlanJourney, ExecuteJourneyLeg, FailLastLeg,
                CaptureJourneyLeg, SyncJourney, JourneyFails, stockVars
<1>14. Explained
  BY <1>6, <1>7, <1>8, <1>9, <1>10, <1>11, <1>12 DEF Journey
<1>15. MarksAreTakenBack' <=> Explained
  BY DEF MarksAreTakenBack, Marked, Explained
<1>16. QED
  BY <1>13, <1>14, <1>15

-----------------------------------------------------------------------------
\* Every step of a journey, and of everyone beside it, keeps the invariant.
LEMMA JourneysStep ==
    ASSUME MaxLegs >= 2
    PROVE  JourneysInv /\ [NextJourneys]_<<vars, delivery, stockVars>> => JourneysInv' /\ [Next]_vars
<1> SUFFICES ASSUME JourneysInv, [NextJourneys]_<<vars, delivery, stockVars>>
             PROVE  JourneysInv' /\ [Next]_vars
  OBVIOUS
<1>1. /\ RequestsInv /\ StockTypeOK /\ LegsPlanned /\ MarksAreTakenBack
      /\ TypeOK /\ DeliveriesTypeOK
  BY DEF JourneysInv, RequestsInv
<1>2. ASSUME UNCHANGED <<vars, delivery>> PROVE RequestsInv' /\ LegsPlanned' /\ [Next]_vars
  <2>1. RequestsInv'
    BY <1>1, <1>2, RequestsInvStep
  <2>2. LegsPlanned'
    BY <1>1, <1>2 DEF LegsPlanned, IsUnderway, HasLegs, Rows, vars
  <2>3. QED
    BY <1>2, <2>1, <2>2 DEF vars
<1>3. CASE NextRequests /\ UNCHANGED stockVars
  <2>1. RequestsInv' /\ [Next]_vars
    BY <1>1, <1>3, RequestsInvStep, RequestsStepIsRailStep
  <2>2. LegsPlanned'
    <3> SUFFICES ASSUME NEW i \in Intents, IsUnderway(i)' PROVE HasLegs(i)'
      BY DEF LegsPlanned
    <3>1. IsUnderway(i)
      BY <1>1, <1>3, JourneysUndisturbed DEF IsUnderway, Underway
    <3>2. QED
      BY <1>1, <2>1, <3>1, LegsStay DEF LegsPlanned
  <2>3. MarksAreTakenBack'
    <3>1. \A i \in Intents : Marked(i) => Marked(i)'
      <4> SUFFICES ASSUME NEW i \in Intents, Marked(i) PROVE Marked(i)'
        OBVIOUS
      <4>1. delivery[i] \in JourneyDelivery /\ delivery[i].marked /\ delivery[i].at # "answered"
        BY <1>1, MarkedJourneys
      <4>2. /\ delivery'[i] \in JourneyDelivery /\ delivery'[i].marked
            /\ delivery'[i].at # "answered"
        BY <1>1, <1>3, <4>1, JourneysUndisturbed
      <4>3. QED
        BY <4>2, DeliveryShapes DEF Marked, IsJourney
    <3>2. QED
      BY <1>1, <1>3, <3>1, MarkedJourneys DEF MarksAreTakenBack, Marked, stockVars
  <2>4. QED
    BY <1>1, <1>3, <2>1, <2>2, <2>3 DEF JourneysInv, StockTypeOK, stockVars
<1>4. ASSUME NEW i \in Intents, Journey(i) PROVE JourneysInv' /\ [Next]_vars
  <2>1. /\ [Next]_vars /\ NoRequestAdded
        /\ delivery[i] \notin RequestDelivery
        /\ DeliveriesTypeOK' /\ delivery'[i] \in JourneyDelivery
        /\ \A j \in Intents \ {i} : delivery'[j] = delivery[j]
        /\ IsUnderway(i)' => IsUnderway(i) \/ HasLegs(i)'
    BY <1>1, <1>4, JourneySteps
  <2>2. TypeOK'
    BY <1>1, <2>1, TypeOKStep
  <2>3. \A j \in Intents : CalmDelivery(j)
    BY <2>1 DEF CalmDelivery
  <2>4. RequestsInv'
    BY <1>1, <2>1, <2>2, <2>3, CalmStep DEF RequestsInv
  <2>5. ASSUME NEW j \in Intents, IsUnderway(j)' PROVE HasLegs(j)'
    <3>1. IsUnderway(j) => HasLegs(j)'
      BY <1>1, <2>1, LegsStay DEF LegsPlanned
    <3>2. j # i => IsUnderway(j)
      BY <2>1, <2>5 DEF IsUnderway
    <3>3. QED
      BY <2>1, <2>5, <3>1, <3>2
  <2>6. StockTypeOK' /\ MarksAreTakenBack'
    BY <1>1, <1>4, <2>1, JourneyMarks
  <2>7. QED
    BY <2>1, <2>4, <2>5, <2>6 DEF JourneysInv, LegsPlanned
<1>5. CASE MerchantChangesStock
  <2>1. StockTypeOK' /\ MarksAreTakenBack'
    BY <1>1, <1>5 DEF MerchantChangesStock, StockTypeOK, MarksAreTakenBack
  <2>2. QED
    BY <1>2, <1>5, <2>1 DEF MerchantChangesStock, JourneysInv
<1>6. CASE UNCHANGED <<vars, delivery, stockVars>>
  <2>1. StockTypeOK' /\ MarksAreTakenBack'
    BY <1>1, <1>6 DEF StockTypeOK, MarksAreTakenBack, IsJourney, stockVars
  <2>2. QED
    BY <1>2, <1>6, <2>1 DEF JourneysInv
<1>7. QED
  BY <1>3, <1>4, <1>5, <1>6 DEF NextJourneys

\* Before any journey was sent there is nothing to tell of one.
LEMMA JourneysInit == InitJourneys => JourneysInv
<1> SUFFICES ASSUME InitJourneys PROVE JourneysInv
  OBVIOUS
<1>1. RequestsInv /\ \A i \in Intents : delivery[i] = Unsent
  BY RequestsInit DEF InitJourneys, InitRequests
<1>2. LegsPlanned
  BY <1>1, DeliveryShapes DEF LegsPlanned, IsUnderway
<1>3. StockTypeOK /\ MarksAreTakenBack
  BY DEF InitJourneys, StockTypeOK, MarksAreTakenBack
<1>4. QED
  BY <1>1, <1>2, <1>3 DEF JourneysInv

\* The demo journeys are clients of the rail like the others (their plans have two
\* legs, so the bound on a plan's legs must admit two): the rail's theorems hold
\* with journeys beside the agent and the other clients.
THEOREM JourneysKeepRail == ASSUME MaxLegs >= 2 PROVE SpecJourneys => Spec
<1>1. InitJourneys => Init
  BY DEF InitJourneys, InitRequests
<1>2. JourneysInv /\ [NextJourneys]_<<vars, delivery, stockVars>> => JourneysInv' /\ [Next]_vars
  BY JourneysStep
<1>3. QED
  BY <1>1, <1>2, JourneysInit, PTL DEF SpecJourneys, Spec

\* Journeys do not make a request's mandates any more than one per overlap.
THEOREM JourneysAddNoDuplicates == ASSUME MaxLegs >= 2 PROVE SpecJourneys => []DuplicatesOverlap
<1>1. JourneysInv => DuplicatesOverlap
  BY DEF JourneysInv, RequestsInv, DeliveriesInv
<1>2. JourneysInv /\ [NextJourneys]_<<vars, delivery, stockVars>> => JourneysInv' /\ [Next]_vars
  BY JourneysStep
<1>3. QED
  BY <1>1, <1>2, JourneysInit, PTL DEF SpecJourneys

\* However journeys, crashes and the merchant's own changes overlap, a row is out
\* of stock against its merchant's word only while a journey that marked it is
\* unfinished or has died: none that answered left its mark
\* (the finally of run_multi_leg_journey()).
THEOREM MarksTakenBack == ASSUME MaxLegs >= 2 PROVE SpecJourneys => []MarksAreTakenBack
<1>1. JourneysInv => MarksAreTakenBack
  BY DEF JourneysInv
<1>2. JourneysInv /\ [NextJourneys]_<<vars, delivery, stockVars>> => JourneysInv' /\ [Next]_vars
  BY JourneysStep
<1>3. QED
  BY <1>1, <1>2, JourneysInit, PTL DEF SpecJourneys

-----------------------------------------------------------------------------
\* What the rail promises of an intent that a journey relies on.
RailFacts == TypeOK /\ AbsentRowsAreEmpty /\ TransactionAllowance /\ PlansAreCoherent

\* What the journeys rely on the payment rail for.
LEMMA RailFactsHold == Spec => []RailFacts
<1>1. QED
  BY TypeCorrect, AbsentRows, AllowanceHolds, CoherenceHolds, PTL DEF RailFacts

\* The k-th leg of the journey of intent i has no outcome to wait for.
SettledLeg(i, k) ==
    \A m \in Rows : mandates[m].intent = i /\ mandates[m].merchant = JourneyMerchants[k]
                       => mandates[m].status \notin AwaitsPayment

\* Before its plan is authorized a journey's intent has no mandate. Afterwards every one
\* is a leg at one of the two merchants, and none but the one that is being captured
\* awaits its payment.
RowsAreLegs(i) ==
    \A m \in Rows : mandates[m].intent = i =>
        mandates[m].plan # NoPlan /\ \E k \in 1 .. 2 : mandates[m].merchant = JourneyMerchants[k]
JourneyFacts(i) ==
    /\ delivery[i].at = "planning" => \A m \in Rows : mandates[m].intent # i
    /\ delivery[i].at \in Underway =>
          /\ JourneyMerchants[1] # JourneyMerchants[2]
          /\ RowsAreLegs(i)
          /\ \A k \in 1 .. 2 : delivery[i].at # "capturing" \/ k # delivery[i].leg => SettledLeg(i, k)
ResponsesInv == \A i \in Intents : delivery[i] \in JourneyDelivery => JourneyFacts(i)

\* An intent that is not registered has no mandates.
LEMMA FreshIntents ==
    ASSUME RailFacts, NEW i \in Intents, registry[i].status = "ABSENT"
    PROVE  \A m \in Rows : mandates[m].intent # i
<1> DEFINE standalone == {m \in Rows : mandates[m].intent = i /\ mandates[m].plan = NoPlan}
<1>1. registry[i].consumed = 0
  BY DEF RailFacts, AbsentRowsAreEmpty, NoRow, FreshRow
<1>2. registry[i].consumed = Cardinality(standalone) + IF PlanExistsFor(i) THEN 1 ELSE 0
  BY DEF RailFacts, TransactionAllowance
<1>3. IsFiniteSet(standalone) /\ Cardinality(standalone) \in Nat
  <2>1. Len(mandates) \in Nat
    BY RowFacts DEF RailFacts
  <2>2. IsFiniteSet(Rows)
    BY <2>1, FS_Interval DEF Rows
  <2>3. IsFiniteSet(standalone)
    BY <2>2, FS_Subset
  <2>4. QED
    BY <2>3, FS_CardinalityType
<1>4. ~PlanExistsFor(i) /\ Cardinality(standalone) = 0
  <2> HIDE DEF standalone
  <2>1. QED
    BY <1>1, <1>2, <1>3
<1>5. standalone = {}
  BY <1>3, <1>4, FS_EmptySet
<1>6. ASSUME NEW m \in Rows, mandates[m].intent = i PROVE FALSE
  <2>1. mandates[m].plan # NoPlan
    BY <1>5, <1>6
  <2>2. mandates[m].plan \in Plans /\ plans[mandates[m].plan].intent = i
    BY <1>6, <2>1, RowFacts DEF RailFacts, PlansAreCoherent, MandateRow
  <2>3. QED
    BY <1>4, <2>2 DEF PlanExistsFor
<1>7. QED
  BY <1>6

\* Two legs of an intent at one merchant are one.
LEMMA OneLegEach ==
    ASSUME RailFacts, NEW m \in Rows, NEW n \in Rows,
           mandates[m].intent = mandates[n].intent, mandates[m].merchant = mandates[n].merchant,
           mandates[m].plan # NoPlan, mandates[n].plan # NoPlan
    PROVE  m = n
<1>1. /\ mandates[m].plan \in Plans /\ mandates[n].plan \in Plans
      /\ mandates[m].intent \in Intents
  BY RowFacts DEF RailFacts, MandateRow
<1>2. mandates[m].plan = mandates[n].plan
  BY <1>1, NoIntentAssumption DEF RailFacts, PlansAreCoherent
<1>3. QED
  BY <1>2 DEF RailFacts, PlansAreCoherent

-----------------------------------------------------------------------------
\* A step that leaves intent i, its mandates and its plan alone.
LeavesAlone(i) ==
    /\ registry'[i] = registry[i]
    /\ \A m \in Rows : mandates[m].intent = i => mandates'[m] = mandates[m]
    /\ \A m \in Rows' \ Rows : mandates'[m].intent # i
    /\ \A p \in Plans : plans[p].intent = i => plans'[p] = plans[p]

\* What is authorized or refused for an intent leaves the others alone.
LEMMA AuthorizationsLeaveAlone ==
    ASSUME TypeOK, NEW i \in Intents, NEW j \in Intents \ {i}
    PROVE  /\ RegisterIntent(j) => LeavesAlone(i)
           /\ \A merchant \in Merchants, key \in Keys, total \in CartTotals, ok \in BOOLEAN :
                 /\ \A caller \in {"reserved", "agent"} :
                       AuthorizeMandate(j, merchant, key, total, ok, caller) => LeavesAlone(i)
                 /\ AuthorizeMandateRejected(j, merchant, key, total, ok) => LeavesAlone(i)
           /\ \A p \in Plans, legs \in Legs :
                 /\ \A total : AuthorizePlan(j, p, legs, total) => LeavesAlone(i)
                 /\ AuthorizePlanRejected(j, p, legs) => LeavesAlone(i)
<1>1. registry \in [Intents -> IntentRow] /\ plans \in [Plans -> PlanRow]
  BY DEF TypeOK
<1>2. ASSUME UNCHANGED <<mandates, plans>>, registry'[i] = registry[i] PROVE LeavesAlone(i)
  BY <1>2 DEF LeavesAlone, Rows
<1>3. RegisterIntent(j) => LeavesAlone(i)
  BY <1>1, <1>2 DEF RegisterIntent
<1>4. ASSUME NEW merchant \in Merchants, NEW key \in Keys, NEW total \in CartTotals, NEW ok \in BOOLEAN,
             AuthorizeMandateRejected(j, merchant, key, total, ok)
      PROVE  LeavesAlone(i)
  BY <1>1, <1>2, <1>4 DEF AuthorizeMandateRejected
<1>5. ASSUME NEW merchant \in Merchants, NEW key \in Keys, NEW total \in CartTotals, NEW ok \in BOOLEAN,
             NEW caller \in {"reserved", "agent"},
             AuthorizeMandate(j, merchant, key, total, ok, caller)
      PROVE  LeavesAlone(i)
  <2> DEFINE new == Len(mandates) + 1
  <2>1. /\ Rows' = Rows \cup {new} /\ \A m \in Rows : mandates'[m] = mandates[m]
        /\ mandates'[new] = NewMandate(j, NoPlan, merchant, key, total)
    BY <1>5, MandateAdded
  <2>2. NewMandate(j, NoPlan, merchant, key, total).intent = j
    BY DEF NewMandate
  <2>3. registry'[i] = registry[i] /\ plans' = plans
    BY <1>1, <1>5 DEF AuthorizeMandate
  <2> HIDE DEF new
  <2>4. QED
    BY <2>1, <2>2, <2>3 DEF LeavesAlone
<1>6. ASSUME NEW p \in Plans, NEW legs \in Legs, NEW total, AuthorizePlan(j, p, legs, total)
      PROVE  LeavesAlone(i)
  <2>1. /\ \A m \in Rows : mandates'[m] = mandates[m]
        /\ \A m \in Rows' \ Rows : mandates'[m].intent = j
    BY <1>6, PlanAdded, PlanRows
  <2>2. /\ registry'[i] = registry[i]
        /\ \A q \in Plans \ {p} : plans'[q] = plans[q]
        /\ plans[p].intent = NoIntent
    BY <1>1, <1>6 DEF AuthorizePlan, PlanAdmitted
  <2>3. QED
    BY <2>1, <2>2, NoIntentAssumption DEF LeavesAlone
<1>7. ASSUME NEW p \in Plans, NEW legs \in Legs, AuthorizePlanRejected(j, p, legs)
      PROVE  LeavesAlone(i)
  BY <1>2, <1>7 DEF AuthorizePlanRejected
<1>8. QED
  BY <1>3, <1>4, <1>5, <1>6, <1>7

\* A synchronisation of plan p, of its rows or of objects read before.
SyncOf(rows, p) == plans' \in Synced(rows, p) \/ \E changed : plans' \in LateSynced(rows, p, changed)

\* A synchronisation leaves every other plan alone.
LEMMA OtherPlansAlone ==
    ASSUME TypeOK, NEW p, \E rows : SyncOf(rows, p)
    PROVE  \A q \in Plans : q # p => plans'[q] = plans[q]
BY DEF SyncOf, Synced, LateSynced, Stored, WithStatus

\* What happens to a mandate leaves the other intents alone.
LEMMA RowStepsLeaveAlone ==
    ASSUME RailFacts, NEW i \in Intents, NEW m \in Rows, mandates[m].intent # i
    PROVE  /\ AgentOrder(m) \/ HandlerFails(m) => LeavesAlone(i)
           /\ ExecuteLeg(m) \/ ReleaseLeg(m) => LeavesAlone(i)
           /\ \A e \in EventIds, amount \in CartTotals : CaptureWebhook(e, m, amount) => LeavesAlone(i)
           /\ \A e \in EventIds : FailWebhook(e, m) => LeavesAlone(i)
<1>1. TypeOK /\ registry \in [Intents -> IntentRow] /\ plans \in [Plans -> PlanRow]
  BY DEF RailFacts, TypeOK
<1>2. mandates[m].intent \in Intents \ {i}
  BY <1>1, RowFacts
<1>3. \A p \in Plans : plans[p].intent = i => p # mandates[m].plan
  BY NoPlanAssumption DEF RailFacts, PlansAreCoherent
<1>4. ASSUME NEW row, RowBecomes(m, row), registry'[i] = registry[i],
             plans' = plans \/ \E rows : SyncOf(rows, mandates[m].plan)
      PROVE  LeavesAlone(i)
  <2>1. Rows' = Rows /\ \A n \in Rows : mandates[n].intent = i => mandates'[n] = mandates[n]
    BY <1>4 DEF RowBecomes, Rows
  <2>2. \A p \in Plans : plans[p].intent = i => plans'[p] = plans[p]
    BY <1>1, <1>3, <1>4, OtherPlansAlone
  <2>3. QED
    BY <1>4, <2>1, <2>2 DEF LeavesAlone
<1>5. ASSUME AgentOrder(m) \/ ExecuteLeg(m) PROVE LeavesAlone(i)
  BY <1>1, <1>4, <1>5, StatusSteps DEF AgentOrder, ExecuteLeg
<1>6. ASSUME HandlerFails(m) PROVE LeavesAlone(i)
  BY <1>6 DEF HandlerFails, LeavesAlone, Rows
<1>7. ASSUME ReleaseLeg(m) PROVE LeavesAlone(i)
  <2>1. registry'[i] = registry[i] /\ \E rows : SyncOf(rows, mandates[m].plan)
    BY <1>1, <1>2, <1>7 DEF ReleaseLeg, SyncOf
  <2>2. QED
    BY <1>1, <1>4, <1>7, <2>1, OutcomeSteps
<1>8. ASSUME NEW e \in EventIds, NEW amount \in CartTotals, CaptureWebhook(e, m, amount)
      PROVE  LeavesAlone(i)
  <2>1. registry'[i] = registry[i] /\ \E rows : SyncOf(rows, mandates[m].plan)
    BY <1>1, <1>2, <1>8 DEF CaptureWebhook, SyncOf
  <2>2. QED
    BY <1>1, <1>4, <1>8, <2>1, OutcomeSteps
<1>9. ASSUME NEW e \in EventIds, FailWebhook(e, m) PROVE LeavesAlone(i)
  <2>1. registry'[i] = registry[i] /\ \E rows : SyncOf(rows, mandates[m].plan)
    BY <1>1, <1>2, <1>9 DEF FailWebhook, SyncOf
  <2>2. QED
    BY <1>1, <1>4, <1>9, <2>1, OutcomeSteps
<1>10. QED
  BY <1>5, <1>6, <1>7, <1>8, <1>9

\* Synchronising a plan leaves the mandates of every other intent alone.
LEMMA SyncsLeaveAlone ==
    ASSUME RailFacts, NEW i \in Intents, NEW p \in Plans, plans[p].intent # i, SyncPlan(p)
    PROVE  LeavesAlone(i)
BY OtherPlansAlone DEF SyncPlan, SyncOf, LeavesAlone, Rows, RailFacts

\* The gateway reports an outcome of a mandate of intent i.
Notified(i) ==
    \E e \in EventIds, m \in Rows :
        /\ mandates[m].intent = i
        /\ \/ \E amount \in CartTotals : CaptureWebhook(e, m, amount)
           \/ FailWebhook(e, m)

\* Beside a journey nobody but the gateway does anything to its intent.
LEMMA StepsBeside ==
    ASSUME RequestsInv, RailFacts, NextRequests, NEW i \in Intents, delivery[i] \in JourneyDelivery
    PROVE  LeavesAlone(i) \/ Notified(i)
<1>1. TypeOK /\ DeliveriesTypeOK
  BY DEF RequestsInv
<1>2. ASSUME UNCHANGED <<registry, mandates, plans>> PROVE LeavesAlone(i)
  BY <1>2 DEF LeavesAlone, Rows
<1>3. delivery[i] # Unsent /\ delivery[i] \notin RequestDelivery
  BY DeliveryShapes
<1>4. CASE RestOfTheRail
  <2>1. ASSUME NEW j \in Intents, ClientAuthorizes(j) PROVE LeavesAlone(i)
    <3>1. j # i
      BY <1>3, <2>1 DEF ClientAuthorizes
    <3>2. PICK p \in Plans, legs \in Legs, total \in 1 .. SpendCap[j] :
             AuthorizePlan(j, p, legs, total)
      BY <2>1 DEF ClientAuthorizes
    <3>3. QED
      BY <1>1, <3>1, <3>2, AuthorizationsLeaveAlone
  <2>2. ASSUME NEW j \in Intents, ExpireIntent(j) PROVE LeavesAlone(i)
    BY <1>2, <2>2 DEF ExpireIntent
  <2>3. ASSUME NEW m \in Rows, mandates[m].plan # NoPlan, ClientExecutes(m) PROVE LeavesAlone(i)
    <3>1. mandates[m].intent # i
      BY <1>3, <2>3 DEF ClientExecutes
    <3>2. mandates[m].plan \in Plans /\ plans[mandates[m].plan].intent # i
      BY <1>1, <2>3, <3>1, RowFacts DEF RailFacts, PlansAreCoherent, MandateRow
    <3>3. ExecuteLeg(m) \/ ReleaseLeg(m) \/ SyncPlan(mandates[m].plan)
      BY <2>3 DEF ClientExecutes
    <3>4. QED
      BY <3>1, <3>2, <3>3, RowStepsLeaveAlone, SyncsLeaveAlone
  <2>4. ASSUME NEW e \in EventIds, NEW m \in Rows,
               \/ \E amount \in CartTotals : CaptureWebhook(e, m, amount)
               \/ FailWebhook(e, m)
        PROVE  LeavesAlone(i) \/ Notified(i)
    <3>1. CASE mandates[m].intent = i
      BY <2>4, <3>1 DEF Notified
    <3>2. CASE mandates[m].intent # i
      BY <2>4, <3>2, RowStepsLeaveAlone
    <3>3. QED
      BY <3>1, <3>2
  <2>5. QED
    BY <1>4, <2>1, <2>2, <2>3, <2>4 DEF RestOfTheRail
<1>5. CASE ProcessStops
  BY <1>2, <1>5 DEF ProcessStops, Crash, vars
<1>6. ASSUME NEW j \in Intents, Deliver(j) PROVE LeavesAlone(i)
  <2>1. delivery[j] \in {Unsent} \cup RequestDelivery \cup JourneyDelivery
    BY <1>1 DEF DeliveriesTypeOK
  <2>2. ASSUME delivery[j] = Unsent \/ delivery[j].at \in {"deliberating", "authorizing", "ordering"}
        PROVE  j \in Intents \ {i}
    BY <1>3, <2>1, <2>2, DeliveryShapes
  <2>3. ASSUME NEW request, Receive(j, request) \/ ReceiveApproval(j, request) PROVE LeavesAlone(i)
    BY <1>1, <2>2, <2>3, AuthorizationsLeaveAlone DEF Receive, ReceiveApproval
  <2>4. CASE NothingToBuy(j) \/ LookUp(j) \/ CredentialExpired(j)
    BY <1>2, <2>4 DEF NothingToBuy, LookUp, CredentialExpired, vars
  <2>5. CASE AuthorizeDelivered(j)
    <3>1. delivery[j].at = "authorizing" /\ j \in Intents \ {i}
      BY <2>2, <2>5 DEF AuthorizeDelivered
    <3>2. delivery[j].request \in Keys
      BY <2>1, <3>1, DeliveryShapes DEF RequestDelivery
    <3>3. PICK merchant \in AllowedMerchants[j], total \in CartTotals, ok \in BOOLEAN :
             \/ AuthorizeMandate(j, merchant, delivery[j].request, total, ok, "agent")
             \/ AuthorizeMandateRejected(j, merchant, delivery[j].request, total, ok)
      BY <2>5 DEF AuthorizeDelivered
    <3>4. merchant \in Merchants
      BY AllowedMerchantsAssumption
    <3>5. QED
      BY <1>1, <3>1, <3>2, <3>3, <3>4, AuthorizationsLeaveAlone
  <2>6. CASE OrderDelivered(j)
    <3>1. PICK m \in Rows : mandates[m].intent = j /\ (AgentOrder(m) \/ HandlerFails(m))
      BY <2>6 DEF OrderDelivered
    <3>2. j # i
      BY <2>2, <2>6 DEF OrderDelivered
    <3>3. QED
      BY <3>1, <3>2, RowStepsLeaveAlone
  <2>7. QED
    BY <1>6, <2>3, <2>4, <2>5, <2>6 DEF Deliver
<1>7. QED
  BY <1>4, <1>5, <1>6 DEF NextRequests

\* Nor does another journey.
LEMMA JourneysBeside ==
    ASSUME MaxLegs >= 2, JourneysInv, RailFacts, NEW i \in Intents, NEW j \in Intents \ {i}, Journey(j)
    PROVE  LeavesAlone(i)
<1>1. TypeOK /\ DeliveriesTypeOK /\ LegsPlanned
  BY DEF JourneysInv, RequestsInv
<1>2. ASSUME UNCHANGED vars PROVE LeavesAlone(i)
  BY <1>2 DEF LeavesAlone, Rows, vars
<1>3. ASSUME delivery[j].at \in {"executing", "capturing", "syncing"}
      PROVE  /\ delivery[j] \in JourneyDelivery /\ delivery[j].leg \in 1 .. 2
             /\ \A k \in 1 .. 2 : LegOf(j, k) \in Rows /\ mandates[LegOf(j, k)].intent # i
             /\ PlanOf(j) \in Plans /\ plans[PlanOf(j)].intent # i
  <2>1. delivery[j] \in JourneyDelivery
    BY <1>1, <1>3, DeliveryShapes DEF DeliveriesTypeOK
  <2>2. HasLegs(j) /\ delivery[j].leg \in 1 .. 2
    BY <1>1, <1>3, <2>1 DEF LegsPlanned, IsUnderway, Underway, JourneyDelivery
  <2>3. \A k \in 1 .. 2 : LegOf(j, k) \in Rows /\ mandates[LegOf(j, k)].intent = j
    BY <2>2 DEF HasLegs, LegOf
  <2>4. PlanOf(j) \in Plans /\ plans[PlanOf(j)].intent = j
    BY <2>2 DEF HasLegs, PlanOf
  <2>5. QED
    BY <2>1, <2>2, <2>3, <2>4
<1>4. ASSUME NEW scenario, BeginJourney(j, scenario) PROVE LeavesAlone(i)
  BY <1>1, <1>4, AuthorizationsLeaveAlone DEF BeginJourney
<1>5. CASE PlanJourney(j)
  <2>1. PICK p \in Plans, totals \in [1 .. 2 -> CartTotals], ok \in BOOLEAN :
           LET legs == [k \in 1 .. 2 |-> [merchant |-> JourneyMerchants[k],
                                         total |-> totals[k], inPolicy |-> ok]]
           IN  \/ AuthorizePlan(j, p, legs, totals[1] + totals[2])
               \/ AuthorizePlanRejected(j, p, legs)
    BY <1>5 DEF PlanJourney
  <2> DEFINE legs == [k \in 1 .. 2 |-> [merchant |-> JourneyMerchants[k],
                                        total |-> totals[k], inPolicy |-> ok]]
             total == totals[1] + totals[2]
  <2>2. legs \in Legs
    BY <1>1, JourneyPlans
  <2>3. AuthorizePlan(j, p, legs, total) \/ AuthorizePlanRejected(j, p, legs)
    BY <2>1
  <2> HIDE DEF legs, total
  <2>4. QED
    BY <1>1, <2>2, <2>3, AuthorizationsLeaveAlone
<1>6. CASE ExecuteJourneyLeg(j)
  <2> DEFINE m == LegOf(j, delivery[j].leg)
  <2>1. m \in Rows /\ mandates[m].intent # i
    BY <1>3, <1>6 DEF ExecuteJourneyLeg
  <2>2. ExecuteLeg(m) \/ ReleaseLeg(m) \/ UNCHANGED vars
    BY <1>6 DEF ExecuteJourneyLeg
  <2> HIDE DEF m
  <2>3. QED
    BY <1>2, <2>1, <2>2, RowStepsLeaveAlone
<1>7. CASE FailLastLeg(j)
  <2>1. LegOf(j, 2) \in Rows /\ mandates[LegOf(j, 2)].intent # i
    BY <1>3, <1>7 DEF FailLastLeg
  <2>2. QED
    BY <1>7, <2>1, RowStepsLeaveAlone DEF FailLastLeg
<1>8. CASE CaptureJourneyLeg(j)
  <2> DEFINE m == LegOf(j, delivery[j].leg)
  <2>1. m \in Rows /\ mandates[m].intent # i
    BY <1>3, <1>8 DEF CaptureJourneyLeg
  <2>2. SimulatedCapture(m, mandates[m].amount) \/ UNCHANGED vars
    BY <1>8 DEF CaptureJourneyLeg
  <2> HIDE DEF m
  <2>3. mandates[m].amount \in CartTotals
    BY <1>1, <2>1, RowFacts
  <2>4. QED
    BY <1>2, <2>1, <2>2, <2>3, RowStepsLeaveAlone DEF SimulatedCapture
<1>9. CASE SyncJourney(j)
  BY <1>3, <1>9, SyncsLeaveAlone DEF SyncJourney
<1>10. CASE JourneyFails(j)
  BY <1>2, <1>10 DEF JourneyFails
<1>11. QED
  BY <1>4, <1>5, <1>6, <1>7, <1>8, <1>9, <1>10 DEF Journey

-----------------------------------------------------------------------------
\* A step after which no mandate of intent i awaits a payment that did not before,
\* and that adds none.
OutcomesOnly(i) ==
    /\ \A m \in Rows : mandates[m].intent = i =>
          mandates'[m].status = mandates[m].status \/ mandates'[m].status \notin AwaitsPayment
    /\ \A m \in Rows' \ Rows : mandates'[m].intent # i

\* A released, captured or failed mandate awaits its payment no more.
LEMMA OutcomesSettle ==
    ASSUME TypeOK, NEW m \in Rows, NEW i,
           \/ ReleaseLeg(m)
           \/ \E e \in EventIds : \/ \E amount \in CartTotals : CaptureWebhook(e, m, amount)
                                  \/ FailWebhook(e, m)
    PROVE  OutcomesOnly(i) /\ mandates'[m].status \notin AwaitsPayment
<1>1. ASSUME NEW status \in {"PAYMENT_CAPTURED", "PAYMENT_FAILED", ReleasedStatus(m)}, NEW captured,
             RowBecomes(m, RowWithOutcome(m, status, captured))
      PROVE  OutcomesOnly(i) /\ mandates'[m].status \notin AwaitsPayment
  <2>1. status \notin AwaitsPayment
    BY DEF ReleasedStatus, AwaitsPayment, HoldsBudget, InFlight
  <2>2. RowWithOutcome(m, status, captured).status = status
    BY RowFacts DEF RowWithOutcome, MandateRow
  <2>3. Rows' = Rows /\ mandates'[m].status = status
        /\ \A n \in Rows \ {m} : mandates'[n] = mandates[n]
    BY <1>1, <2>2 DEF RowBecomes, Rows
  <2>4. QED
    BY <2>1, <2>3 DEF OutcomesOnly
<1>2. QED
  BY <1>1, OutcomeSteps

\* Whatever leaves an intent alone brings it nothing but outcomes.
LEMMA AloneMeansOutcomesOnly ==
    ASSUME NEW i, LeavesAlone(i) PROVE OutcomesOnly(i)
BY DEF LeavesAlone, OutcomesOnly

\* What is settled stays settled, and legs stay legs.
LEMMA SettledStays ==
    ASSUME TypeOK, [Next]_vars, NEW i \in Intents, OutcomesOnly(i)
    PROVE  /\ (\A m \in Rows : mandates[m].intent # i) => \A m \in Rows' : mandates'[m].intent # i
           /\ RowsAreLegs(i) => RowsAreLegs(i)'
           /\ \A k \in 1 .. 2 : SettledLeg(i, k) => SettledLeg(i, k)'
<1>1. \A m \in Rows' : mandates'[m].intent = i =>
         /\ m \in Rows /\ mandates[m].intent = i
         /\ mandates'[m].plan = mandates[m].plan /\ mandates'[m].merchant = mandates[m].merchant
         /\ mandates'[m].status = mandates[m].status \/ mandates'[m].status \notin AwaitsPayment
  BY OwnersStay DEF OutcomesOnly
<1>2. QED
  BY <1>1 DEF RowsAreLegs, SettledLeg

\* A journey that nobody moves keeps its facts.
LEMMA FactsStay ==
    ASSUME TypeOK, [Next]_vars, NEW i \in Intents, OutcomesOnly(i), JourneyFacts(i),
           delivery'[i] = delivery[i] \/ delivery'[i].at = "done"
    PROVE  JourneyFacts(i)'
BY SettledStays DEF JourneyFacts, Underway

\* Where a journey goes with all its legs settled.
LEMMA SettledFacts ==
    ASSUME TypeOK, [Next]_vars, NEW i \in Intents, OutcomesOnly(i), JourneyMerchants[1] # JourneyMerchants[2],
           RowsAreLegs(i), \A k \in 1 .. 2 : SettledLeg(i, k)', delivery'[i].at \in Underway
    PROVE  JourneyFacts(i)'
BY SettledStays DEF JourneyFacts, Underway

\* A journey keeps its own facts.
LEMMA OwnFacts ==
    ASSUME MaxLegs >= 2, JourneysInv, RailFacts, NEW i \in Intents, Journey(i), [Next]_vars,
           delivery[i] \in JourneyDelivery => JourneyFacts(i)
    PROVE  JourneyFacts(i)'
<1>1. TypeOK /\ DeliveriesTypeOK /\ LegsPlanned /\ \A k \in 1 .. 2 : k = 1 \/ k = 2
  BY DEF JourneysInv, RequestsInv
<1>2. delivery[i] \in {Unsent} \cup RequestDelivery \cup JourneyDelivery
  BY <1>1 DEF DeliveriesTypeOK
<1>3. ASSUME UNCHANGED mandates PROVE OutcomesOnly(i)
  BY <1>3 DEF OutcomesOnly, Rows
<1>4. ASSUME delivery[i].at \in {"planning", "executing", "capturing", "syncing"}
      PROVE  /\ delivery[i] \in JourneyDelivery /\ delivery[i].leg \in 1 .. 2
             /\ delivery[i].marked \in BOOLEAN /\ JourneyFacts(i)
  <2>1. delivery[i] \in JourneyDelivery
    BY <1>2, <1>4, DeliveryShapes
  <2>2. QED
    BY <2>1 DEF JourneyDelivery
<1>5. ASSUME delivery[i].at \in {"executing", "capturing", "syncing"}, NEW k \in 1 .. 2
      PROVE  /\ LegOf(i, k) \in Rows /\ mandates[LegOf(i, k)].intent = i
             /\ mandates[LegOf(i, k)].merchant = JourneyMerchants[k]
  BY <1>1, <1>4, <1>5 DEF LegsPlanned, IsUnderway, Underway, HasLegs, LegOf
<1>6. ASSUME delivery[i].at \in {"executing", "capturing", "syncing"}
      PROVE  /\ JourneyMerchants[1] # JourneyMerchants[2] /\ RowsAreLegs(i)
             /\ delivery[i].at # "capturing" => \A k \in 1 .. 2 : SettledLeg(i, k)
             /\ \A k \in 1 .. 2 : k # delivery[i].leg => SettledLeg(i, k)
  BY <1>4, <1>6 DEF JourneyFacts, Underway
<1>7. ASSUME NEW at, NEW leg, NEW marked, JourneyAt(i, at, leg, marked)
      PROVE  delivery'[i].at = at /\ delivery'[i].leg = leg
  BY <1>7 DEF JourneyAt
<1>8. ASSUME NEW scenario, BeginJourney(i, scenario) PROVE JourneyFacts(i)'
  <2>1. \A m \in Rows : mandates[m].intent # i
    BY <1>8, FreshIntents DEF BeginJourney, RegisterIntent
  <2>2. \A m \in Rows' : mandates'[m].intent # i
    BY <1>8, <2>1 DEF BeginJourney, RegisterIntent, Rows
  <2>3. delivery'[i].at = "planning"
    BY <1>1, <1>8 DEF BeginJourney, Planning, DeliveriesTypeOK
  <2>4. QED
    BY <2>2, <2>3 DEF JourneyFacts, Underway
<1>9. CASE PlanJourney(i)
  <2>1. delivery[i] \in JourneyDelivery /\ \A m \in Rows : mandates[m].intent # i
    BY <1>4, <1>9 DEF PlanJourney, JourneyFacts
  <2>2. PICK p \in Plans, totals \in [1 .. 2 -> CartTotals], ok \in BOOLEAN :
           LET legs == [k \in 1 .. 2 |-> [merchant |-> JourneyMerchants[k],
                                         total |-> totals[k], inPolicy |-> ok]]
           IN  \/ AuthorizePlan(i, p, legs, totals[1] + totals[2]) /\ To(i, "executing")
               \/ To(i, "done")
    BY <1>9 DEF PlanJourney
  <2> DEFINE legs == [k \in 1 .. 2 |-> [merchant |-> JourneyMerchants[k],
                                        total |-> totals[k], inPolicy |-> ok]]
             total == totals[1] + totals[2]
  <2>3. legs \in Legs /\ Len(legs) = 2 /\ \A k \in 1 .. 2 : legs[k].merchant = JourneyMerchants[k]
    BY <1>1, JourneyPlans
  <2>4. (AuthorizePlan(i, p, legs, total) /\ To(i, "executing")) \/ To(i, "done")
    BY <2>2
  <2> HIDE DEF legs, total
  <2>5. CASE To(i, "done")
    <3>1. delivery'[i].at = "done"
      BY <1>1, <1>7, <2>1, <2>5, JourneyMoves
    <3>2. QED
      BY <3>1 DEF JourneyFacts, Underway
  <2>6. CASE AuthorizePlan(i, p, legs, total) /\ To(i, "executing")
    <3>1. delivery'[i].at = "executing"
      BY <1>1, <1>7, <2>1, <2>6, JourneyMoves
    <3>2. \A m \in Rows' : mandates'[m].intent = i =>
             /\ mandates'[m].plan = p /\ mandates'[m].status = "RESERVED"
             /\ \E k \in 1 .. 2 : mandates'[m].merchant = JourneyMerchants[k]
      <4>1. \A m \in Rows' \ Rows :
               /\ mandates'[m].plan = p /\ mandates'[m].status = "RESERVED"
               /\ \E k \in 1 .. Len(legs) : mandates'[m].merchant = legs[k].merchant
        BY <1>1, <2>3, <2>6, PlanRows
      <4>2. \A m \in Rows : mandates'[m].intent # i
        BY <1>1, <2>1, OwnersStay
      <4>3. QED
        BY <2>3, <4>1, <4>2
    <3>3. JourneyMerchants[1] # JourneyMerchants[2]
      <4>1. legs[1].merchant # legs[2].merchant
        BY <2>3, <2>6 DEF AuthorizePlan, PlanAdmitted
      <4>2. QED
        BY <2>3, <4>1
    <3>4. p # NoPlan
      BY NoPlanAssumption
    <3>5. QED
      BY <3>1, <3>2, <3>3, <3>4 DEF JourneyFacts, RowsAreLegs, SettledLeg, AwaitsPayment
  <2>7. QED
    BY <2>4, <2>5, <2>6
<1>10. ASSUME delivery[i].at = "executing", OutcomesOnly(i), delivery'[i].at \in {"executing", "syncing"}
       PROVE  JourneyFacts(i)'
  <2>1. \A k \in 1 .. 2 : SettledLeg(i, k)'
    BY <1>1, <1>6, <1>10, SettledStays
  <2>2. QED
    BY <1>1, <1>6, <1>10, <2>1, SettledFacts DEF Underway
<1>11. CASE ExecuteJourneyLeg(i)
  <2> DEFINE l == delivery[i].leg
             m == LegOf(i, l)
  <2>1. /\ delivery[i] \in JourneyDelivery /\ l \in 1 .. 2 /\ delivery[i].at = "executing"
        /\ m \in Rows /\ mandates[m].merchant = JourneyMerchants[l]
    BY <1>4, <1>5, <1>11 DEF ExecuteJourneyLeg
  <2>2. \/ ExecuteLeg(m) /\ To(i, "capturing")
        \/ (ReleaseLeg(m) \/ UNCHANGED vars) /\ ToNextLeg(i)
    BY <1>11 DEF ExecuteJourneyLeg
  <2> HIDE DEF l, m
  <2>3. CASE ExecuteLeg(m) /\ To(i, "capturing")
    <3>1. delivery'[i].at = "capturing" /\ delivery'[i].leg = l
      BY <1>1, <1>7, <2>1, <2>3, JourneyMoves DEF l
    <3>2. Rows' = Rows /\ \A n \in Rows \ {m} : mandates'[n] = mandates[n]
      BY <1>1, <2>1, <2>3, StatusSteps DEF RowBecomes, Rows
    <3>3. \A n \in Rows : /\ mandates'[n].intent = mandates[n].intent
                          /\ mandates'[n].plan = mandates[n].plan
                          /\ mandates'[n].merchant = mandates[n].merchant
      BY <1>1, OwnersStay
    <3>4. RowsAreLegs(i)'
      BY <1>6, <2>1, <3>2, <3>3 DEF RowsAreLegs
    <3>5. ASSUME NEW k \in 1 .. 2, k # l PROVE SettledLeg(i, k)'
      <4>1. SettledLeg(i, k) /\ JourneyMerchants[k] # JourneyMerchants[l]
        BY <1>1, <1>6, <2>1, <3>5 DEF l
      <4>2. QED
        BY <2>1, <3>2, <3>3, <4>1 DEF SettledLeg
    <3>6. QED
      BY <1>6, <2>1, <3>1, <3>4, <3>5 DEF JourneyFacts
  <2>4. CASE (ReleaseLeg(m) \/ UNCHANGED vars) /\ ToNextLeg(i)
    <3>1. delivery'[i].at \in {"executing", "syncing"}
      BY <1>1, <1>7, <2>1, <2>4, JourneyMoves
    <3>2. OutcomesOnly(i)
      BY <1>1, <1>3, <2>1, <2>4, OutcomesSettle DEF vars
    <3>3. QED
      BY <1>10, <2>1, <3>1, <3>2
  <2>5. QED
    BY <2>2, <2>3, <2>4
<1>12. CASE FailLastLeg(i)
  <2>1. /\ delivery[i] \in JourneyDelivery /\ delivery[i].at = "executing" /\ LegOf(i, 2) \in Rows
        /\ ReleaseLeg(LegOf(i, 2))
        /\ delivery' = [delivery EXCEPT ![i].at = "syncing", ![i].marked = TRUE]
    BY <1>4, <1>5, <1>12 DEF FailLastLeg
  <2>2. delivery'[i].at = "syncing"
    BY <1>1, <1>7, <2>1, JourneyMoves
  <2>3. OutcomesOnly(i)
    BY <1>1, <2>1, OutcomesSettle
  <2>4. QED
    BY <1>10, <2>1, <2>2, <2>3
<1>13. CASE CaptureJourneyLeg(i)
  <2> DEFINE l == delivery[i].leg
             m == LegOf(i, l)
  <2>1. /\ delivery[i] \in JourneyDelivery /\ l \in 1 .. 2 /\ delivery[i].at = "capturing"
        /\ m \in Rows /\ mandates[m].intent = i /\ mandates[m].merchant = JourneyMerchants[l]
    BY <1>4, <1>5, <1>13 DEF CaptureJourneyLeg
  <2>2. \/ SimulatedCapture(m, mandates[m].amount) /\ ToNextLeg(i)
        \/ mandates[m].status = "PAYMENT_CAPTURED" /\ ToNextLeg(i) /\ UNCHANGED vars
        \/ To(i, "done") /\ UNCHANGED vars
    BY <1>13 DEF CaptureJourneyLeg
  <2>3. ASSUME NEW n \in Rows, mandates[n].intent = i, mandates[n].merchant = JourneyMerchants[l]
        PROVE  n = m
    BY <1>6, <2>1, <2>3, OneLegEach DEF RowsAreLegs
  <2> HIDE DEF l, m
  <2>4. ASSUME ToNextLeg(i), OutcomesOnly(i), mandates'[m].status \notin AwaitsPayment
        PROVE  JourneyFacts(i)'
    <3>1. delivery'[i].at \in Underway
      BY <1>1, <1>7, <2>1, <2>4, JourneyMoves DEF Underway
    <3>2. ASSUME NEW k \in 1 .. 2, k # l PROVE SettledLeg(i, k)'
      BY <1>1, <1>6, <2>1, <2>4, <3>2, SettledStays DEF l
    <3>3. ASSUME NEW k \in 1 .. 2, k = l PROVE SettledLeg(i, k)'
      <4>1. \A n \in Rows' : mandates'[n].intent = i /\ mandates'[n].merchant = JourneyMerchants[k]
               => n \in Rows /\ mandates[n].intent = i /\ mandates[n].merchant = JourneyMerchants[k]
        BY <1>1, <2>4, OwnersStay DEF OutcomesOnly
      <4>2. QED
        BY <2>3, <2>4, <3>3, <4>1 DEF SettledLeg
    <3>4. QED
      BY <1>1, <1>6, <2>1, <2>4, <3>1, <3>2, <3>3, SettledFacts
  <2>5. CASE SimulatedCapture(m, mandates[m].amount) /\ ToNextLeg(i)
    <3>1. mandates[m].amount \in CartTotals
      BY <1>1, <2>1, RowFacts
    <3>2. OutcomesOnly(i) /\ mandates'[m].status \notin AwaitsPayment
      BY <1>1, <2>1, <2>5, <3>1, OutcomesSettle DEF SimulatedCapture
    <3>3. QED
      BY <2>4, <2>5, <3>2
  <2>6. CASE mandates[m].status = "PAYMENT_CAPTURED" /\ ToNextLeg(i) /\ UNCHANGED vars
    BY <1>3, <2>4, <2>6 DEF vars, AwaitsPayment
  <2>7. CASE To(i, "done") /\ UNCHANGED vars
    <3>1. delivery'[i].at = "done"
      BY <1>1, <1>7, <2>1, <2>7, JourneyMoves
    <3>2. QED
      BY <3>1 DEF JourneyFacts, Underway
  <2>8. QED
    BY <2>2, <2>5, <2>6, <2>7
<1>14. CASE SyncJourney(i)
  <2>1. /\ delivery[i] \in JourneyDelivery /\ delivery[i].at = "syncing" /\ UNCHANGED mandates
        /\ delivery' = [delivery EXCEPT ![i].at = "answered", ![i].marked = FALSE]
    BY <1>4, <1>14 DEF SyncJourney, SyncPlan
  <2>2. delivery'[i].at = "answered"
    BY <1>1, <1>7, <2>1, JourneyMoves
  <2>3. \A k \in 1 .. 2 : SettledLeg(i, k)'
    BY <1>1, <1>3, <1>6, <2>1, SettledStays
  <2>4. QED
    BY <1>1, <1>3, <1>6, <2>1, <2>2, <2>3, SettledFacts DEF Underway
<1>15. CASE JourneyFails(i)
  <2>1. delivery[i] \in JourneyDelivery /\ To(i, "done")
    BY <1>2, <1>15, DeliveryShapes DEF JourneyFails, IsJourney
  <2>2. delivery'[i].at = "done"
    BY <1>1, <1>7, <2>1, JourneyMoves
  <2>3. QED
    BY <2>2 DEF JourneyFacts, Underway
<1>16. QED
  BY <1>8, <1>9, <1>11, <1>12, <1>13, <1>14, <1>15 DEF Journey

\* An answered journey's legs are settled: the gateway has nothing to report of them.
LEMMA AnsweredIsQuiet ==
    ASSUME RailFacts, NEW i \in Intents, delivery[i].at = "answered", JourneyFacts(i)
    PROVE  ~Notified(i)
<1>1. ASSUME NEW m \in Rows, mandates[m].intent = i PROVE mandates[m].status \notin AwaitsPayment
  <2>1. PICK k \in 1 .. 2 : mandates[m].merchant = JourneyMerchants[k]
    BY <1>1 DEF JourneyFacts, Underway, RowsAreLegs
  <2>2. SettledLeg(i, k)
    BY DEF JourneyFacts, Underway
  <2>3. QED
    BY <1>1, <2>1, <2>2 DEF SettledLeg
<1>2. \A s \in MandateStatus : CanTransition(s, "PAYMENT_FAILED") => s \in AwaitsPayment
  BY DEF CanTransition, AllowedTransitions, MandateStatus, AwaitsPayment
<1>3. \A m \in Rows : mandates[m].status \in MandateStatus
  BY RowFacts DEF RailFacts
<1>4. QED
  BY <1>1, <1>2, <1>3 DEF Notified, CaptureWebhook, CaptureAdmitted, FailWebhook

\* What each step does to the journey of intent i.
LEMMA ResponseStep ==
    ASSUME MaxLegs >= 2, JourneysInv, RailFacts, ResponsesInv, NextJourneys, [Next]_vars, NEW i \in Intents
    PROVE  /\ delivery'[i] \in JourneyDelivery => JourneyFacts(i)'
           /\ delivery[i] \in JourneyDelivery /\ delivery[i].at = "answered" => LeavesAlone(i)
<1>1. RequestsInv /\ TypeOK /\ DeliveriesTypeOK /\ LegsPlanned
  BY DEF JourneysInv, RequestsInv
<1>2. ASSUME UNCHANGED vars PROVE LeavesAlone(i)
  BY <1>2 DEF LeavesAlone, Rows, vars
<1>3. CASE NextRequests
  <2>1. CASE delivery[i] \in JourneyDelivery
    <3>1. JourneyFacts(i)
      BY <2>1 DEF ResponsesInv
    <3>2. LeavesAlone(i) \/ Notified(i)
      BY <1>1, <1>3, <2>1, StepsBeside
    <3>3. OutcomesOnly(i)
      <4>1. CASE Notified(i)
        BY <1>1, <4>1, OutcomesSettle DEF Notified
      <4>2. QED
        BY <3>2, <4>1, AloneMeansOutcomesOnly
    <3>4. delivery'[i] = delivery[i] \/ delivery'[i].at = "done"
      BY <1>1, <1>3, <2>1, JourneysUndisturbed
    <3>5. QED
      BY <1>1, <3>1, <3>2, <3>3, <3>4, FactsStay, AnsweredIsQuiet
  <2>2. CASE delivery[i] \notin JourneyDelivery
    BY <1>1, <1>3, <2>2, JourneysUndisturbed
  <2>3. QED
    BY <2>1, <2>2
<1>4. CASE Journey(i)
  <2>1. JourneyFacts(i)'
    BY <1>4, OwnFacts DEF ResponsesInv
  <2>2. delivery[i] \in JourneyDelivery => delivery[i].at # "answered"
    BY <1>4, DeliveryShapes
    DEF Journey, BeginJourney, PlanJourney, ExecuteJourneyLeg, FailLastLeg, CaptureJourneyLeg,
        SyncJourney, JourneyFails, Serving
  <2>3. QED
    BY <2>1, <2>2
<1>5. ASSUME LeavesAlone(i), delivery'[i] = delivery[i]
      PROVE  delivery'[i] \in JourneyDelivery => JourneyFacts(i)'
  BY <1>1, <1>5, AloneMeansOutcomesOnly, FactsStay DEF ResponsesInv
<1>6. ASSUME NEW j \in Intents \ {i}, Journey(j)
      PROVE  LeavesAlone(i) /\ delivery'[i] = delivery[i]
  BY <1>1, <1>6, JourneysBeside, JourneySteps
<1>7. CASE MerchantChangesStock
  BY <1>2, <1>5, <1>7 DEF MerchantChangesStock
<1>8. QED
  BY <1>3, <1>4, <1>5, <1>6, <1>7 DEF NextJourneys

\* An answered journey stays truly answered, whatever the rail does next.
LEMMA ResponsesStep ==
    ASSUME MaxLegs >= 2
    PROVE  JourneysInv /\ RailFacts /\ ResponsesInv /\ [NextJourneys]_<<vars, delivery, stockVars>>
             => ResponsesInv'
<1> SUFFICES ASSUME JourneysInv, RailFacts, ResponsesInv, [NextJourneys]_<<vars, delivery, stockVars>>
             PROVE  ResponsesInv'
  OBVIOUS
<1>1. CASE NextJourneys
  <2>1. [Next]_vars
    BY <1>1, JourneysStep
  <2>2. QED
    BY <1>1, <2>1, ResponseStep DEF ResponsesInv
<1>2. CASE UNCHANGED <<vars, delivery, stockVars>>
  BY <1>2 DEF ResponsesInv, JourneyFacts, RowsAreLegs, SettledLeg, Rows, vars
<1>3. QED
  BY <1>1, <1>2

\* A journey's response is read row by row after its last commit, and still
\* describes one settlement that stays as it is: once the journey has answered, no
\* webhook, no other journey, no agent request, no other client and no crash changes
\* its plan, its legs or its intent's totals (the end of run_multi_leg_journey()).
THEOREM ResponsesStay == ASSUME MaxLegs >= 2 PROVE SpecJourneys => ResponsesStayTrue
<1> DEFINE Stays == \A i \in Intents :
                       IsJourney(i) /\ delivery[i].at = "answered" =>
                          /\ registry'[i] = registry[i]
                          /\ plans'[PlanOf(i)] = plans[PlanOf(i)]
                          /\ \A k \in 1 .. 2 : mandates'[LegOf(i, k)] = mandates[LegOf(i, k)]
<1>1. InitJourneys => ResponsesInv
  <2> SUFFICES ASSUME InitJourneys PROVE ResponsesInv
    OBVIOUS
  <2>1. \A i \in Intents : delivery[i] = Unsent
    BY DEF InitJourneys, InitRequests
  <2>2. QED
    BY <2>1, DeliveryShapes DEF ResponsesInv
<1>2. JourneysInv /\ [NextJourneys]_<<vars, delivery, stockVars>> => JourneysInv' /\ [Next]_vars
  BY JourneysStep
<1>3. JourneysInv /\ RailFacts /\ ResponsesInv /\ [NextJourneys]_<<vars, delivery, stockVars>>
        => ResponsesInv'
  BY ResponsesStep
<1>4. JourneysInv /\ RailFacts /\ ResponsesInv /\ [NextJourneys]_<<vars, delivery, stockVars>>
        => [Stays]_vars
  <2> SUFFICES ASSUME JourneysInv, RailFacts, ResponsesInv, NextJourneys PROVE [Stays]_vars
    BY DEF vars
  <2> SUFFICES ASSUME NEW i \in Intents, IsJourney(i), delivery[i].at = "answered"
               PROVE  /\ registry'[i] = registry[i]
                      /\ plans'[PlanOf(i)] = plans[PlanOf(i)]
                      /\ \A k \in 1 .. 2 : mandates'[LegOf(i, k)] = mandates[LegOf(i, k)]
    OBVIOUS
  <2>1. delivery[i] \in JourneyDelivery
    BY DeliveryShapes DEF JourneysInv, RequestsInv, DeliveriesTypeOK, IsJourney
  <2>2. LeavesAlone(i)
    BY <2>1, ResponseStep, JourneysStep
  <2>3. HasLegs(i)
    BY <2>1 DEF JourneysInv, LegsPlanned, IsUnderway, Underway
  <2>4. \A k \in 1 .. 2 : LegOf(i, k) \in Rows /\ mandates[LegOf(i, k)].intent = i
    BY <2>3 DEF HasLegs, LegOf
  <2>5. PlanOf(i) \in Plans /\ plans[PlanOf(i)].intent = i
    BY <2>3 DEF HasLegs, PlanOf
  <2>6. QED
    BY <2>2, <2>4, <2>5 DEF LeavesAlone
<1>5. SpecJourneys => []RailFacts
  BY JourneysKeepRail, RailFactsHold, PTL
<1>6. SpecJourneys => [][Stays]_vars
  BY <1>1, <1>2, <1>3, <1>4, <1>5, JourneysInit, PTL DEF SpecJourneys
<1>7. QED
  BY <1>6 DEF ResponsesStayTrue

=============================================================================
