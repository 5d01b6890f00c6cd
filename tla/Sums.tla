-------------------------------- MODULE Sums --------------------------------
(***************************************************************************)
(* Sums of naturals, stated by the running totals that a loop of += goes   *)
(* through.                                                                *)
(***************************************************************************)
EXTENDS Integers

\* run[k] is the sum of amount[1 .. k]. The running totals of naturals never
\* fall; it is said because it would take an induction to conclude it.
RunsTo(run, amount, n, total) ==
    /\ run[0] = 0
    /\ run[n] = total
    /\ \A k \in 1 .. n : run[k] = run[k - 1] + amount[k]
    /\ \A j, k \in 0 .. n : j <= k => run[j] <= run[k]

\* total is the sum of amount[1 .. n]; the running totals between are looked for.
SumsTo(amount, n, total) ==
    \E between \in [1 .. n - 1 -> 0 .. total] :
        RunsTo([k \in 0 .. n |-> IF k = n THEN total ELSE IF k = 0 THEN 0 ELSE between[k]],
               amount, n, total)

=============================================================================
