----------------------------- MODULE MCOrderFlow -----------------------------
(***************************************************************************)
(* Instances of OrderFlow for TLC: one credential for two transactions, or *)
(* a plan of two legs, and a cap that pays for two mandates.               *)
(***************************************************************************)
EXTENDS OrderFlow, TLC

TwoPaise == [i \in Intents |-> 2]
TwoTransactions == [i \in Intents |-> 2]
AllMerchants == [i \in Intents |-> Merchants]
OnePaisa == {1}

=============================================================================
