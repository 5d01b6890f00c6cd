--------------------------- MODULE AgentRequests ---------------------------
(***************************************************************************)
(* POST /agent/deliberate and /agent/escalate-and-pay beside the other     *)
(* clients of the payment rail (app/api/agent_routes.py). A client may     *)
(* deliver a request again, after a timeout or at the same time; its       *)
(* request_id becomes the idempotency key of the mandate. Every delivery   *)
(* mints a credential of its own, so an intent stands for the delivery     *)
(* that minted it. What deliberation buys is left open here; Deliberation  *)
(* is about that. The other clients hold credentials they buy plans with;  *)
(* their standalone authorizations are left to PaymentRail and OrderFlow,  *)
(* and so are their refused plans, which write to the ledger alone.        *)
(***************************************************************************)
EXTENDS PaymentRail

CONSTANT Requests  \* request ids of clients of the agent, as idempotency keys

\* The prefix "tx_agent_" keeps them apart from the keys of legs, "tx_plan_...".
ASSUME RequestsAssumption == Requests \subseteq Keys /\ Requests \cap (Plans \X Merchants) = {}

\* For each intent, where the delivery that minted it stands, what it was asked,
\* and (history) how many mandates there were when it arrived.
VARIABLE delivery

Unsent == [at |-> "none"]
Serving(i) == delivery[i].at \notin {"none", "done", "answered"}
To(i, position) == delivery' = [delivery EXCEPT ![i].at = position]

InitRequests == Init /\ delivery = [i \in Intents |-> Unsent]

-----------------------------------------------------------------------------
\* A fresh credential is minted, registered and committed.
Receive(i, request) ==
    /\ delivery[i] = Unsent
    /\ RegisterIntent(i)
    /\ delivery' = [delivery EXCEPT ![i] =
           [at |-> "deliberating", request |-> request, began |-> Len(mandates)]]

\* escalate_and_pay(): a credential for the approved budget is minted and registered;
\* the key of its mandate is random.
ReceiveApproval(i, key) ==
    /\ delivery[i] = Unsent
    /\ \A m \in Rows : mandates[m].key # key
    /\ \A j \in Intents : delivery[j].at = "authorizing" => delivery[j].request # key
    /\ RegisterIntent(i)
    /\ delivery' = [delivery EXCEPT ![i] =
           [at |-> "authorizing", request |-> key, began |-> Len(mandates)]]

\* No quote is eligible, or the agent fails: nothing is authorized.
NothingToBuy(i) ==
    /\ delivery[i].at = "deliberating"
    /\ To(i, "done")
    /\ UNCHANGED vars

\* Mutant: the look-up is narrowed to the intent, like the constraint of the table.
RecordedForIntent(i) == \E m \in Rows : /\ mandates[m].key = delivery[i].request
                                        /\ mandates[m].intent = i

\* The unlocked look-up is by idempotency key alone.
Recorded(i) == \E m \in Rows : mandates[m].key = delivery[i].request

\* A recorded mandate answers the request; otherwise one is authorized.
LookUp(i) ==
    /\ delivery[i].at = "deliberating"
    /\ To(i, IF Recorded(i) THEN "done" ELSE "authorizing")
    /\ UNCHANGED vars

AuthorizeDelivered(i) ==
    /\ delivery[i].at = "authorizing"
    /\ \E merchant \in AllowedMerchants[i], total \in CartTotals, ok \in BOOLEAN :
          \/ /\ AuthorizeMandate(i, merchant, delivery[i].request, total, ok, "agent")
             /\ To(i, "ordering")
          \/ /\ AuthorizeMandateRejected(i, merchant, delivery[i].request, total, ok)
             /\ To(i, "done")

\* The credential or the cart has run out: an exception before anything is written.
CredentialExpired(i) ==
    /\ delivery[i].at = "authorizing"
    /\ i \in expired
    /\ To(i, "done")
    /\ UNCHANGED vars

OrderDelivered(i) ==
    /\ delivery[i].at = "ordering"
    /\ \E m \in Rows : mandates[m].intent = i /\ (AgentOrder(m) \/ HandlerFails(m))
    /\ To(i, "done")

Deliver(i) ==
    \/ \E request \in Requests : Receive(i, request)
    \/ \E key \in Keys \ Requests : ReceiveApproval(i, key)
    \/ NothingToBuy(i) \/ LookUp(i) \/ AuthorizeDelivered(i) \/ CredentialExpired(i)
    \/ OrderDelivered(i)

\* The process stops with every request it was serving.
ProcessStops ==
    /\ \/ Crash
       \/ /\ \A m \in Rows : handler[m] = "none"
          /\ \E i \in Intents : Serving(i)
          /\ UNCHANGED vars
    /\ delivery' = [i \in Intents |->
                      IF Serving(i) THEN [delivery[i] EXCEPT !.at = "done"] ELSE delivery[i]]

-----------------------------------------------------------------------------
\* The other clients, and the gateway.
ClientAuthorizes(i) ==
    /\ delivery[i] = Unsent
    /\ \E p \in Plans, legs \in Legs, total \in 1 .. SpendCap[i] :
          AuthorizePlan(i, p, legs, total)

ClientExecutes(m) ==
    /\ delivery[mandates[m].intent] = Unsent
    /\ ExecuteLeg(m) \/ ReleaseLeg(m) \/ SyncPlan(mandates[m].plan)

RestOfTheRail ==
    /\ \/ \E i \in Intents : ClientAuthorizes(i) \/ ExpireIntent(i)
       \/ \E m \in Rows : mandates[m].plan # NoPlan /\ ClientExecutes(m)
       \/ \E e \in EventIds, m \in Rows :
             \/ \E amount \in CartTotals : CaptureWebhook(e, m, amount)
             \/ FailWebhook(e, m)
    /\ UNCHANGED delivery

NextRequests == RestOfTheRail \/ ProcessStops \/ \E i \in Intents : Deliver(i)

SpecRequests == InitRequests /\ [][NextRequests]_<<vars, delivery>>

-----------------------------------------------------------------------------
SameRequest(m, n) == m # n /\ mandates[m].key \in Requests /\ mandates[n].key = mandates[m].key

\* deliberate_goal(): a delivery that arrives after a mandate of its request was
\* recorded never adds another, whatever happened to the first delivery in
\* between; two mandates of one request come from deliveries that overlapped.
DuplicatesOverlap ==
    \A m, n \in Rows : m < n /\ SameRequest(m, n) => delivery[mandates[n].intent].began < m

\* "Exactly one record in the database for this transaction"
\* (tests/test_multi_merchant_discovery.py), for deliveries in any order.
OneMandatePerRequest == \A m, n \in Rows : ~SameRequest(m, n)

=============================================================================
