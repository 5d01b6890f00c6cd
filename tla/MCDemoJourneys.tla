--------------------------- MODULE MCDemoJourneys ---------------------------
(***************************************************************************)
(* An instance of DemoJourneys for TLC: two credentials, minted by         *)
(* journeys, by deliveries of one request, or held by other clients.       *)
(***************************************************************************)
EXTENDS DemoJourneys, TLC

CONSTANTS cakehouse, giftbazaar

OneCap == [i \in Intents |-> 2]
OneTransaction == [i \in Intents |-> 1]
AnyMerchant == [i \in Intents |-> Merchants]
Totals1 == {1}
CakesThenGifts == <<cakehouse, giftbazaar>>

Interchangeable == Permutations(Intents) \cup Permutations(Plans) \cup Permutations(EventIds)

=============================================================================
