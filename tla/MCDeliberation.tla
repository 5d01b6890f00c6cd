--------------------------- MODULE MCDeliberation ---------------------------
(***************************************************************************)
(* An instance of LegRevalidation, and of Deliberation in it, for TLC.     *)
(* Merchants 1 and 2 sell the cake, merchant 2 alone sells cards, merchant *)
(* 3 has no signing key.                                                   *)
(***************************************************************************)
EXTENDS LegRevalidation

Sellers == <<1, 2, 2>>
CakesAndCard == <<"cake", "cake", "card">>
AskedInTurn == <<2, 1, 3>>
CakeOrCakeAndCard == {[p \in Products |-> IF p = "cake" THEN 1 ELSE 0], [p \in Products |-> 1]}

=============================================================================
