--------------------------- MODULE MCPaymentRail ---------------------------
(***************************************************************************)
(* An instance of PaymentRail for TLC: one credential that allows two      *)
(* transactions and a budget of 3, so that a plan, a standalone mandate,   *)
(* and refunds compete for it.                                             *)
(***************************************************************************)
EXTENDS PaymentRail, TLC

OneCap == [i \in Intents |-> 3]
TwoTransactions == [i \in Intents |-> 2]
AllMerchants == [i \in Intents |-> Merchants]
Totals12 == {1, 2}

Interchangeable ==
    Permutations(Keys) \cup Permutations(EventIds) \cup Permutations(Merchants)

=============================================================================
