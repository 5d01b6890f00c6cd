--------------------------- MODULE BudgetAccount ---------------------------
(***************************************************************************)
(* What the payment rail promises the user who signed a spend cap, said    *)
(* without registry rows, statuses, orders or webhooks: money is held in   *)
(* the owner's name while the holds and settlements of that owner fit the  *)
(* limit; a hold ends once, settled or given back. PaymentRail implements  *)
(* it.                                                                     *)
(***************************************************************************)
EXTENDS Sums, Sequences

CONSTANTS
    Owners,  \* the intents
    Limit    \* [Owners -> Nat]

VARIABLE holds  \* sequence of [owner, amount, state], in order of opening

HoldState == {"open", "settled", "returned"}

Weight(hold, o) ==
    IF hold.owner = o /\ hold.state \in {"open", "settled"} THEN hold.amount ELSE 0

\* The owner's open and settled holds together fit the limit.
Fits(all, o) ==
    \E total \in 0 .. Limit[o] :
        SumsTo([h \in 1 .. Len(all) |-> Weight(all[h], o)], Len(all), total)

Init == holds = <<>>

\* One hold, or several at once, if all of them fit.
Open(o) ==
    /\ Len(holds') > Len(holds)
    /\ \A h \in 1 .. Len(holds) : holds'[h] = holds[h]
    /\ \A h \in Len(holds) + 1 .. Len(holds') :
          holds'[h].owner = o /\ holds'[h].state = "open"
    /\ Fits(holds', o)

End(h, state) ==
    /\ holds[h].state = "open"
    /\ holds' = [holds EXCEPT ![h].state = state]

Next ==
    \/ \E o \in Owners : Open(o)
    \/ \E h \in 1 .. Len(holds) : End(h, "settled") \/ End(h, "returned")

Spec == Init /\ [][Next]_holds

=============================================================================
