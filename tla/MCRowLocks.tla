----------------------------- MODULE MCRowLocks -----------------------------
(***************************************************************************)
(* Instances of RowLocks for TLC: credentials whose caps pay for as many   *)
(* mandates as fit MaxMandates. Nothing in the module tells one event,     *)
(* merchant or credential of these from another.                           *)
(***************************************************************************)
EXTENDS RowLocks, TLC

TwoPaise == [i \in Intents |-> 2]
TwoTransactions == [i \in Intents |-> 2]
OneTransaction == [i \in Intents |-> 1]
AllMerchants == [i \in Intents |-> Merchants]
OnePaisa == {1}

Alike == Permutations(EventIds) \cup Permutations(Merchants) \cup Permutations(Intents)

=============================================================================
