-------------------------- MODULE MCAgentRequests --------------------------
(***************************************************************************)
(* Instances of AgentRequests for TLC: two credentials, each for one       *)
(* transaction at one merchant. A delivery of a request may have minted    *)
(* one of them, or both, or none.                                          *)
(***************************************************************************)
EXTENDS AgentRequests, TLC

OneCap == [i \in Intents |-> 3]
OneTransaction == [i \in Intents |-> 1]
FirstMerchant == CHOOSE m \in Merchants : TRUE
OnlyFirstMerchant == [i \in Intents |-> {FirstMerchant}]
Totals1 == {1}

Interchangeable == Permutations(Intents) \cup Permutations(Plans) \cup Permutations(EventIds)

=============================================================================
