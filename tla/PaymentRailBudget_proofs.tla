---------------------- MODULE PaymentRailBudget_proofs ----------------------
(***************************************************************************)
(* Theorems about the money of PaymentRail: the totals kept in the         *)
(* intents' rows are the sums over the mandates, and the rail implements   *)
(* BudgetAccount. The first part is about sums of naturals.                *)
(***************************************************************************)
EXTENDS PaymentRail_proofs

\* A sum, with the running totals as a function on 0 .. n.
LEMMA SumNormal ==
    ASSUME NEW n \in Nat, NEW amount, NEW total \in Nat
    PROVE  SumsTo(amount, n, total) <=> \E run \in [0 .. n -> Nat] : RunsTo(run, amount, n, total)
<1> DEFINE Run(between) == [k \in 0 .. n |-> IF k = n THEN total ELSE IF k = 0 THEN 0 ELSE between[k]]
<1>1. ASSUME SumsTo(amount, n, total)
      PROVE  \E run \in [0 .. n -> Nat] : RunsTo(run, amount, n, total)
  <2>1. PICK between \in [1 .. n - 1 -> 0 .. total] : RunsTo(Run(between), amount, n, total)
    BY <1>1 DEF SumsTo
  <2>2. \A k \in 0 .. n : k # n /\ k # 0 => between[k] \in Nat
    BY <2>1
  <2>3. Run(between) \in [0 .. n -> Nat]
    BY <2>2
  <2>4. QED
    BY <2>1, <2>3
<1>2. ASSUME NEW run \in [0 .. n -> Nat], RunsTo(run, amount, n, total)
      PROVE  SumsTo(amount, n, total)
  <2> DEFINE between == [k \in 1 .. n - 1 |-> run[k]]
  <2>1. \A k \in 0 .. n : run[k] \in Nat /\ run[k] <= total
    BY <1>2 DEF RunsTo
  <2>2. between \in [1 .. n - 1 -> 0 .. total]
    BY <2>1
  <2>3. \A k \in 0 .. n : run[k] = IF k = n THEN total ELSE IF k = 0 THEN 0 ELSE between[k]
    BY <1>2 DEF RunsTo
  <2>4. run = Run(between)
    <3> HIDE DEF between
    <3>1. QED
      BY <2>3
  <2>5. QED
    BY <1>2, <2>2, <2>4 DEF SumsTo
<1>3. QED
  BY <1>1, <1>2

\* A sum does not depend on anything but its summands.
LEMMA SumSame ==
    ASSUME NEW n \in Nat, NEW f, NEW g, NEW total \in Nat, SumsTo(f, n, total),
           \A k \in 1 .. n : g[k] = f[k]
    PROVE  SumsTo(g, n, total)
<1>1. PICK run \in [0 .. n -> Nat] : RunsTo(run, f, n, total)
  BY SumNormal
<1>2. RunsTo(run, g, n, total)
  BY <1>1 DEF RunsTo
<1>3. QED
  BY <1>2, SumNormal

\* Nothing added up is nothing.
LEMMA SumZero ==
    ASSUME NEW n \in Nat, NEW f, \A k \in 1 .. n : f[k] = 0
    PROVE  SumsTo(f, n, 0)
<1> DEFINE run == [k \in 0 .. n |-> 0]
<1>1. run \in [0 .. n -> Nat] /\ RunsTo(run, f, n, 0)
  BY DEF RunsTo
<1>2. QED
  BY <1>1, SumNormal

\* Sums of two runs of summands, one after the other.
LEMMA SumConcat ==
    ASSUME NEW n \in Nat, NEW l \in Nat, NEW f, NEW g, NEW h, NEW s \in Nat, NEW t \in Nat,
           SumsTo(f, n, s), SumsTo(g, l, t),
           \A k \in 1 .. n : h[k] = f[k],
           \A k \in 1 .. l : g[k] \in Nat /\ h[n + k] = g[k]
    PROVE  SumsTo(h, n + l, s + t)
<1>1. PICK a \in [0 .. n -> Nat] : RunsTo(a, f, n, s)
  BY SumNormal
<1>2. PICK b \in [0 .. l -> Nat] : RunsTo(b, g, l, t)
  BY SumNormal
<1> DEFINE run == [k \in 0 .. n + l |-> IF k <= n THEN a[k] ELSE s + b[k - n]]
<1>3. /\ \A k \in 0 .. n : a[k] \in Nat
      /\ \A k \in 0 .. n + l : k > n => k - n \in 1 .. l /\ b[k - n] \in Nat
  OBVIOUS
<1>4. run \in [0 .. n + l -> Nat]
  BY <1>3
<1>5. run[0] = 0 /\ run[n + l] = s + t
  BY <1>1, <1>2 DEF RunsTo
<1>6. \A k \in 1 .. n + l : run[k] = run[k - 1] + h[k]
  <2>1. SUFFICES ASSUME NEW k \in 1 .. n + l PROVE run[k] = run[k - 1] + h[k]
    OBVIOUS
  <2>2. CASE k <= n
    BY <1>1, <2>2 DEF RunsTo
  <2>3. CASE k > n
    <3>1. /\ k - n \in 1 .. l /\ k - 1 \in 0 .. n + l
          /\ b[k - n] = b[k - n - 1] + g[k - n]
          /\ h[k] = g[k - n]
      <4>1. k - n \in 1 .. l /\ n + (k - n) = k
        BY <2>3
      <4>2. h[n + (k - n)] = g[k - n]
        BY <4>1
      <4>3. QED
        BY <1>2, <4>1, <4>2 DEF RunsTo
    <3>2. run[k] = s + b[k - n]
      BY <2>3
    <3>3. run[k - 1] = s + b[k - n - 1]
      <4>1. CASE k - 1 = n
        <5>1. b[k - n - 1] = 0 /\ a[n] = s
          BY <1>1, <1>2, <4>1 DEF RunsTo
        <5>2. QED
          BY <4>1, <5>1
      <4>2. CASE k - 1 > n
        BY <3>1, <4>2
      <4>3. QED
        BY <2>3, <4>1, <4>2
    <3>4. b[k - n - 1] \in Nat /\ g[k - n] \in Nat
      BY <3>1
    <3>5. QED
      BY <3>1, <3>2, <3>3, <3>4
  <2>4. QED
    BY <2>2, <2>3
<1>7. \A j, k \in 0 .. n + l : j <= k => run[j] <= run[k]
  <2>1. SUFFICES ASSUME NEW j \in 0 .. n + l, NEW k \in 0 .. n + l, j <= k PROVE run[j] <= run[k]
    OBVIOUS
  <2>2. CASE k <= n
    BY <1>1, <2>1, <2>2 DEF RunsTo
  <2>3. CASE j <= n /\ k > n
    <3>1. a[j] <= s
      BY <1>1, <2>3 DEF RunsTo
    <3>2. QED
      BY <1>3, <2>3, <3>1
  <2>4. CASE j > n
    <3>1. b[j - n] <= b[k - n]
      BY <1>2, <1>3, <2>1, <2>4 DEF RunsTo
    <3>2. QED
      BY <1>3, <2>1, <2>4, <3>1
  <2>5. QED
    BY <2>1, <2>2, <2>3, <2>4
<1> HIDE DEF run
<1>8. RunsTo(run, h, n + l, s + t)
  BY <1>5, <1>6, <1>7 DEF RunsTo
<1>9. n + l \in Nat /\ s + t \in Nat
  OBVIOUS
<1>10. QED
  BY <1>4, <1>8, <1>9, SumNormal

\* A sum of one.
LEMMA SumOne ==
    ASSUME NEW f, f[1] \in Nat
    PROVE  SumsTo(f, 1, f[1])
<1> DEFINE run == [k \in 0 .. 1 |-> IF k = 0 THEN 0 ELSE f[1]]
<1>1. run \in [0 .. 1 -> Nat] /\ RunsTo(run, f, 1, f[1])
  BY DEF RunsTo
<1>2. QED
  BY <1>1, SumNormal

\* No summand is larger than the sum.
LEMMA SummandBounded ==
    ASSUME NEW n \in Nat, NEW f, NEW s \in Nat, SumsTo(f, n, s), NEW k \in 1 .. n, f[k] \in Nat
    PROVE  f[k] <= s
<1>1. PICK run \in [0 .. n -> Nat] : RunsTo(run, f, n, s)
  BY SumNormal
<1>2. /\ k - 1 \in 0 .. n /\ k \in 0 .. n
      /\ run[k - 1] \in Nat /\ run[k] \in Nat /\ run[k] <= s
      /\ run[k] = run[k - 1] + f[k]
  BY <1>1 DEF RunsTo
<1>3. QED
  BY <1>2

\* One summand changed.
LEMMA SumUpdate ==
    ASSUME NEW n \in Nat, NEW f, NEW g, NEW s \in Nat, SumsTo(f, n, s), NEW k \in 1 .. n,
           g[k] \in Nat, \A j \in 1 .. n : f[j] \in Nat, \A j \in 1 .. n : j # k => g[j] = f[j]
    PROVE  s - f[k] + g[k] \in Nat /\ SumsTo(g, n, s - f[k] + g[k])
<1>1. PICK a \in [0 .. n -> Nat] : RunsTo(a, f, n, s)
  BY SumNormal
<1> DEFINE run == [j \in 0 .. n |-> IF j < k THEN a[j] ELSE a[j] - f[k] + g[k]]
<1>2. /\ k - 1 \in 0 .. n /\ k \in 0 .. n
      /\ \A j \in 0 .. n : a[j] \in Nat
      /\ a[k] = a[k - 1] + f[k]
      /\ \A i, j \in 0 .. n : i <= j => a[i] <= a[j]
      /\ \A j \in 1 .. n : a[j] = a[j - 1] + f[j]
      /\ a[0] = 0 /\ a[n] = s
  BY <1>1 DEF RunsTo
<1>3. \A j \in 0 .. n : j >= k => a[j] - f[k] \in Nat /\ a[j] - f[k] >= a[k - 1]
  <2>1. SUFFICES ASSUME NEW j \in 0 .. n, j >= k
                 PROVE  a[j] - f[k] \in Nat /\ a[j] - f[k] >= a[k - 1]
    OBVIOUS
  <2>2. a[j] >= a[k] /\ a[k] \in Nat /\ a[k - 1] \in Nat /\ a[j] \in Nat
    BY <1>2, <2>1
  <2>3. QED
    BY <1>2, <2>2
<1>4. run \in [0 .. n -> Nat]
  <2>1. ASSUME NEW j \in 0 .. n, j >= k PROVE a[j] - f[k] + g[k] \in Nat
    <3>1. a[j] - f[k] \in Nat /\ a[j] \in Nat /\ f[k] \in Nat /\ g[k] \in Nat
      BY <1>2, <1>3, <2>1
    <3>2. QED
      BY <3>1
  <2>2. QED
    BY <1>2, <2>1
<1>5. run[0] = 0 /\ run[n] = s - f[k] + g[k]
  BY <1>2
<1>6. \A j \in 1 .. n : run[j] = run[j - 1] + g[j]
  <2>1. SUFFICES ASSUME NEW j \in 1 .. n PROVE run[j] = run[j - 1] + g[j]
    OBVIOUS
  <2>2. j - 1 \in 0 .. n /\ a[j] = a[j - 1] + f[j] /\ a[j] \in Nat /\ a[j - 1] \in Nat
    BY <1>2
  <2>3. CASE j < k
    BY <2>2, <2>3
  <2>4. CASE j = k
    BY <2>2, <2>4
  <2>5. CASE j > k
    <3>1. g[j] = f[j] /\ run[j] = a[j] - f[k] + g[k] /\ run[j - 1] = a[j - 1] - f[k] + g[k]
      BY <2>2, <2>5
    <3>2. f[j] \in Nat /\ f[k] \in Nat
      OBVIOUS
    <3> HIDE DEF run
    <3>3. QED
      BY <2>2, <3>1, <3>2
  <2>6. QED
    BY <2>3, <2>4, <2>5
<1>7. \A i, j \in 0 .. n : i <= j => run[i] <= run[j]
  <2>1. SUFFICES ASSUME NEW i \in 0 .. n, NEW j \in 0 .. n, i <= j PROVE run[i] <= run[j]
    OBVIOUS
  <2>2. a[i] <= a[j] /\ a[i] \in Nat /\ a[j] \in Nat
    BY <1>2, <2>1
  <2>3. CASE j < k \/ i >= k
    BY <2>1, <2>2, <2>3
  <2>4. CASE i < k /\ j >= k
    <3>1. a[i] <= a[k - 1] /\ a[k - 1] \in Nat
      BY <1>2, <2>4
    <3>2. a[j] - f[k] >= a[k - 1]
      BY <1>3, <2>4
    <3>3. QED
      BY <2>2, <2>4, <3>1, <3>2
  <2>5. QED
    BY <2>3, <2>4
<1> HIDE DEF run
<1>8. RunsTo(run, g, n, s - f[k] + g[k])
  BY <1>5, <1>6, <1>7 DEF RunsTo
<1>9. s - f[k] + g[k] \in Nat
  <2>1. run[n] \in Nat
    BY <1>4
  <2>2. QED
    BY <1>5, <2>1
<1>10. QED
  BY <1>4, <1>8, <1>9, SumNormal

\* Two sums added up, summand by summand.
LEMMA SumAdd ==
    ASSUME NEW n \in Nat, NEW f, NEW g, NEW h, NEW s \in Nat, NEW t \in Nat,
           SumsTo(f, n, s), SumsTo(g, n, t),
           \A k \in 1 .. n : f[k] \in Nat /\ g[k] \in Nat /\ h[k] = f[k] + g[k]
    PROVE  SumsTo(h, n, s + t)
<1>1. PICK a \in [0 .. n -> Nat] : RunsTo(a, f, n, s)
  BY SumNormal
<1>2. PICK b \in [0 .. n -> Nat] : RunsTo(b, g, n, t)
  BY SumNormal
<1> DEFINE run == [k \in 0 .. n |-> a[k] + b[k]]
<1>3. \A k \in 0 .. n : a[k] \in Nat /\ b[k] \in Nat
  OBVIOUS
<1>4. run \in [0 .. n -> Nat]
  BY <1>3
<1>5. run[0] = 0 /\ run[n] = s + t
  BY <1>1, <1>2 DEF RunsTo
<1>6. \A k \in 1 .. n : run[k] = run[k - 1] + h[k]
  <2>1. SUFFICES ASSUME NEW k \in 1 .. n PROVE run[k] = run[k - 1] + h[k]
    OBVIOUS
  <2>2. /\ k - 1 \in 0 .. n /\ k \in 0 .. n
        /\ a[k] = a[k - 1] + f[k] /\ b[k] = b[k - 1] + g[k]
    BY <1>1, <1>2 DEF RunsTo
  <2>3. run[k] = a[k] + b[k] /\ run[k - 1] = a[k - 1] + b[k - 1]
    BY <2>2
  <2>4. /\ a[k - 1] \in Nat /\ b[k - 1] \in Nat /\ f[k] \in Nat /\ g[k] \in Nat
        /\ a[k] \in Nat /\ b[k] \in Nat /\ h[k] = f[k] + g[k]
    BY <2>2
  <2> HIDE DEF run
  <2>5. run[k] = (a[k - 1] + b[k - 1]) + (f[k] + g[k])
    BY SMTT(60), <2>2, <2>3, <2>4
  <2>6. QED
    BY <2>3, <2>4, <2>5
<1>7. \A j, k \in 0 .. n : j <= k => run[j] <= run[k]
  <2>1. \A j, k \in 0 .. n : j <= k => a[j] <= a[k] /\ b[j] <= b[k]
    BY <1>1, <1>2 DEF RunsTo
  <2>2. QED
    BY <1>3, <2>1
<1> HIDE DEF run
<1>8. RunsTo(run, h, n, s + t)
  BY <1>5, <1>6, <1>7 DEF RunsTo
<1>9. s + t \in Nat
  OBVIOUS
<1>10. QED
  BY <1>4, <1>8, <1>9, SumNormal

-----------------------------------------------------------------------------
(***************************************************************************)
(* The registry and the mandates.                                          *)
(***************************************************************************)
Held(i) == [m \in Rows |-> AmountOf(i, m)]
Taken(i) == [m \in Rows |-> TakenOf(i, m)]

\* Registry and mandates agree about one intent.
Matches(i) ==
    /\ SumsTo(Held(i), Len(mandates), registry[i].reserved)
    /\ SumsTo(Taken(i), Len(mandates), registry[i].captured)

\* The summands are naturals, before and after a step.
LEMMA SummandTypes ==
    ASSUME TypeOK, NEW i
    PROVE  /\ Len(mandates) \in Nat
           /\ \A m \in 1 .. Len(mandates) :
                 /\ Held(i)[m] = AmountOf(i, m) /\ AmountOf(i, m) \in Nat
                 /\ Taken(i)[m] = TakenOf(i, m) /\ TakenOf(i, m) \in Nat
<1>1. /\ Len(mandates) \in Nat
      /\ \A m \in Rows : mandates[m].reserved \in Nat /\ mandates[m].captured \in Nat
  BY RowFacts
<1>2. \A m \in Rows : AmountOf(i, m) \in Nat /\ TakenOf(i, m) \in Nat
  BY <1>1 DEF AmountOf, TakenOf
<1>3. QED
  BY <1>1, <1>2 DEF Held, Taken, Rows

\* A change of one row of the table and of the row of its intent by the same amounts.
LEMMA RowAndRegistry ==
    ASSUME TypeOK, TypeOK', NEW i \in Intents, Matches(i),
           NEW k \in Rows, NEW row, RowBecomes(k, row), row.intent = mandates[k].intent,
           NEW j, j = mandates[k].intent,
           i # j => registry'[i].reserved = registry[i].reserved
                      /\ registry'[i].captured = registry[i].captured,
           i = j => /\ registry'[i].reserved = registry[i].reserved - mandates[k].reserved + row.reserved
                    /\ registry'[i].captured = registry[i].captured - mandates[k].captured + row.captured
    PROVE  Matches(i)'
<1>1. /\ Len(mandates') = Len(mandates) /\ Len(mandates) \in Nat
      /\ k \in 1 .. Len(mandates)
      /\ mandates'[k] = row
      /\ \A m \in 1 .. Len(mandates) : m # k => mandates'[m] = mandates[m]
  BY RowFacts DEF RowBecomes, Rows
<1>2. /\ \A m \in 1 .. Len(mandates) :
            /\ Held(i)[m] = AmountOf(i, m) /\ AmountOf(i, m) \in Nat
            /\ Taken(i)[m] = TakenOf(i, m) /\ TakenOf(i, m) \in Nat
            /\ Held(i)'[m] = AmountOf(i, m)' /\ AmountOf(i, m)' \in Nat
            /\ Taken(i)'[m] = TakenOf(i, m)' /\ TakenOf(i, m)' \in Nat
  <2>1. \A m \in 1 .. Len(mandates) :
            /\ Held(i)[m] = AmountOf(i, m) /\ AmountOf(i, m) \in Nat
            /\ Taken(i)[m] = TakenOf(i, m) /\ TakenOf(i, m) \in Nat
    BY SummandTypes
  <2>2. \A m \in Rows' : /\ mandates'[m].reserved \in Nat /\ mandates'[m].captured \in Nat
    <3>1. mandates' \in Seq(MandateRow)
      BY DEF TypeOK
    <3>2. \A m \in Rows' : mandates'[m] \in MandateRow
      BY <3>1, ElementOfSeq DEF Rows
    <3>3. QED
      BY <3>2 DEF MandateRow
  <2>3. \A m \in Rows' : AmountOf(i, m)' \in Nat /\ TakenOf(i, m)' \in Nat
    BY <2>2 DEF AmountOf, TakenOf
  <2>4. \A m \in 1 .. Len(mandates) :
            /\ Held(i)'[m] = AmountOf(i, m)' /\ AmountOf(i, m)' \in Nat
            /\ Taken(i)'[m] = TakenOf(i, m)' /\ TakenOf(i, m)' \in Nat
    BY <1>1, <2>3 DEF Held, Taken, Rows
  <2>5. QED
    BY <2>1, <2>4
<1>3. /\ \A m \in 1 .. Len(mandates) : m # k => AmountOf(i, m)' = AmountOf(i, m)
      /\ \A m \in 1 .. Len(mandates) : m # k => TakenOf(i, m)' = TakenOf(i, m)
      /\ AmountOf(i, k) = IF i = j THEN mandates[k].reserved ELSE 0
      /\ AmountOf(i, k)' = IF i = j THEN row.reserved ELSE 0
      /\ TakenOf(i, k) = IF i = j THEN mandates[k].captured ELSE 0
      /\ TakenOf(i, k)' = IF i = j THEN row.captured ELSE 0
  BY <1>1 DEF AmountOf, TakenOf
<1>4. registry[i].reserved \in Nat /\ registry[i].captured \in Nat
  BY RegistryRows DEF IntentRow
<1>5. SumsTo(Held(i)', Len(mandates), registry[i].reserved - Held(i)[k] + Held(i)'[k])
  <2>1. ASSUME NEW g, \A m \in 1 .. Len(mandates) : g[m] \in Nat,
               \A m \in 1 .. Len(mandates) : m # k => g[m] = Held(i)[m]
        PROVE  SumsTo(g, Len(mandates), registry[i].reserved - Held(i)[k] + g[k])
    BY <1>1, <1>2, <1>4, <2>1, SumUpdate DEF Matches
  <2>2. \A m \in 1 .. Len(mandates) : Held(i)'[m] \in Nat /\ (m # k => Held(i)'[m] = Held(i)[m])
    BY <1>2, <1>3
  <2>3. QED
    BY <2>1, <2>2
<1>6. SumsTo(Taken(i)', Len(mandates), registry[i].captured - Taken(i)[k] + Taken(i)'[k])
  <2>1. ASSUME NEW g, \A m \in 1 .. Len(mandates) : g[m] \in Nat,
               \A m \in 1 .. Len(mandates) : m # k => g[m] = Taken(i)[m]
        PROVE  SumsTo(g, Len(mandates), registry[i].captured - Taken(i)[k] + g[k])
    BY <1>1, <1>2, <1>4, <2>1, SumUpdate DEF Matches
  <2>2. \A m \in 1 .. Len(mandates) : Taken(i)'[m] \in Nat /\ (m # k => Taken(i)'[m] = Taken(i)[m])
    BY <1>2, <1>3
  <2>3. QED
    BY <2>1, <2>2
<1>7. registry'[i].reserved = registry[i].reserved - Held(i)[k] + Held(i)'[k]
  BY <1>1, <1>2, <1>3, <1>4
<1>8. registry'[i].captured = registry[i].captured - Taken(i)[k] + Taken(i)'[k]
  BY <1>1, <1>2, <1>3, <1>4
<1>9. QED
  BY <1>1, <1>5, <1>6, <1>7, <1>8 DEF Matches

\* Rows are added, and the intent's row grows by what the new rows hold.
LEMMA RowsAndRegistry ==
    ASSUME TypeOK, TypeOK', NEW i \in Intents, Matches(i), Insertion,
           NEW total \in Nat, NEW n \in Nat, Len(mandates') = Len(mandates) + n, NEW f,
           SumsTo(f, n, total),
           \A k \in 1 .. n : f[k] \in Nat,
           \A m \in Rows' \ Rows : AmountOf(i, m)' = f[m - Len(mandates)],
           registry'[i].reserved = registry[i].reserved + total,
           registry'[i].captured = registry[i].captured
    PROVE  Matches(i)'
<1>1. /\ Len(mandates) \in Nat
      /\ \A m \in 1 .. Len(mandates) : mandates'[m] = mandates[m]
      /\ \A k \in 1 .. n : Len(mandates) + k \in Rows' \ Rows
      /\ \A m \in Rows' \ Rows : mandates'[m].captured = 0
  <2>1. Len(mandates) \in Nat
    BY RowFacts
  <2>2. \A k \in 1 .. n : Len(mandates) + k \in Rows' \ Rows
    BY <2>1 DEF Rows
  <2>3. QED
    BY <2>1, <2>2 DEF Insertion, Rows
<1>2. registry[i].reserved \in Nat /\ registry[i].captured \in Nat
  BY RegistryRows DEF IntentRow
<1>3. Rows' = 1 .. Len(mandates) + n /\ Rows = 1 .. Len(mandates)
  BY DEF Rows
<1>4. /\ \A m \in 1 .. Len(mandates) : Held(i)'[m] = Held(i)[m] /\ Taken(i)'[m] = Taken(i)[m]
      /\ \A k \in 1 .. n : Held(i)'[Len(mandates) + k] = f[k]
      /\ \A k \in 1 .. n : Taken(i)'[Len(mandates) + k] = 0
  <2>1. \A m \in Rows' : Held(i)'[m] = AmountOf(i, m)' /\ Taken(i)'[m] = TakenOf(i, m)'
    BY DEF Held, Taken
  <2>2. \A m \in Rows : Held(i)[m] = AmountOf(i, m) /\ Taken(i)[m] = TakenOf(i, m)
    BY DEF Held, Taken
  <2>3. \A m \in 1 .. Len(mandates) : m \in Rows /\ m \in Rows'
    BY <1>1, <1>3
  <2>4. \A m \in 1 .. Len(mandates) : AmountOf(i, m)' = AmountOf(i, m) /\ TakenOf(i, m)' = TakenOf(i, m)
    BY <1>1 DEF AmountOf, TakenOf
  <2>5. \A m \in Rows' \ Rows : TakenOf(i, m)' = 0
    BY <1>1 DEF TakenOf
  <2>6. \A k \in 1 .. n : (Len(mandates) + k) - Len(mandates) = k
    BY <1>1
  <2>7. \A k \in 1 .. n : /\ Held(i)'[Len(mandates) + k] = f[k]
                          /\ Taken(i)'[Len(mandates) + k] = 0
    BY <1>1, <2>1, <2>5, <2>6
  <2>8. QED
    BY <2>1, <2>2, <2>3, <2>4, <2>7
<1>5. SumsTo(Held(i)', Len(mandates) + n, registry[i].reserved + total)
  <2>1. ASSUME NEW h, \A m \in 1 .. Len(mandates) : h[m] = Held(i)[m],
               \A k \in 1 .. n : h[Len(mandates) + k] = f[k]
        PROVE  SumsTo(h, Len(mandates) + n, registry[i].reserved + total)
    BY <1>1, <1>2, <2>1, SumConcat DEF Matches
  <2>2. QED
    BY <1>4, <2>1
<1>6. SumsTo(Taken(i)', Len(mandates) + n, registry[i].captured)
  <2> DEFINE zeros == [k \in 1 .. n |-> 0]
  <2>1. SumsTo(zeros, n, 0) /\ \A k \in 1 .. n : zeros[k] = 0
    BY SumZero
  <2> HIDE DEF zeros
  <2>2. ASSUME NEW h, \A m \in 1 .. Len(mandates) : h[m] = Taken(i)[m],
               \A k \in 1 .. n : h[Len(mandates) + k] = 0,
               NEW nothing \in Nat, SumsTo(zeros, n, nothing)
        PROVE  SumsTo(h, Len(mandates) + n, registry[i].captured + nothing)
    <3>1. \A k \in 1 .. n : zeros[k] \in Nat /\ h[Len(mandates) + k] = zeros[k]
      BY <2>1, <2>2
    <3>2. QED
      BY <1>1, <1>2, <2>2, <3>1, SumConcat DEF Matches
  <2>3. registry[i].captured + 0 = registry[i].captured
    BY <1>2
  <2>4. QED
    BY <1>4, <2>1, <2>2, <2>3
<1>7. QED
  BY <1>2, <1>5, <1>6 DEF Matches

\* A step that moves no money of intent i.
LEMMA BudgetUntouched ==
    ASSUME TypeOK, NEW i \in Intents, Matches(i),
           Len(mandates') = Len(mandates),
           \A m \in Rows : /\ mandates'[m].intent = mandates[m].intent
                           /\ mandates'[m].reserved = mandates[m].reserved
                           /\ mandates'[m].captured = mandates[m].captured,
           registry'[i].reserved = registry[i].reserved,
           registry'[i].captured = registry[i].captured
    PROVE  Matches(i)'
<1>1. Rows' = Rows
  BY DEF Rows
<1>2. Held(i)' = Held(i) /\ Taken(i)' = Taken(i)
  BY <1>1 DEF Held, Taken, AmountOf, TakenOf
<1>3. QED
  BY <1>2 DEF Matches

\* The totals in the registry stay the sums over the mandates.
LEMMA MatchStep ==
    TypeOK /\ TypeOK' /\ AbsentRowsAreEmpty /\ MandateAccounting /\ RegistryMatchesMandates
      /\ [Next]_vars => RegistryMatchesMandates'
<1> SUFFICES ASSUME TypeOK, TypeOK', AbsentRowsAreEmpty, MandateAccounting, RegistryMatchesMandates,
                    [Next]_vars, NEW i \in Intents
             PROVE  Matches(i)'
  BY DEF RegistryMatchesMandates, Matches, Held, Taken
<1>0. /\ Matches(i)
      /\ registry \in [Intents -> IntentRow]
      /\ registry[i].reserved \in Nat /\ registry[i].captured \in Nat
      /\ \A m \in Rows : mandates[m] \in MandateRow
      /\ Registered(i).reserved = registry[i].reserved
      /\ Registered(i).captured = registry[i].captured
      /\ Registered(i) \in IntentRow
  <2>1. Matches(i)
    BY DEF RegistryMatchesMandates, Matches, Held, Taken
  <2>2. registry[i] \in IntentRow /\ Registered(i) \in IntentRow
    BY RegistryRows
  <2>3. Registered(i).reserved = registry[i].reserved /\ Registered(i).captured = registry[i].captured
    BY DEF Registered, AbsentRowsAreEmpty, NoRow, FreshRow
  <2>4. QED
    BY <2>1, <2>2, <2>3, RowFacts DEF TypeOK, IntentRow
<1>a. \A total \in Nat :
         /\ Charged(Registered(i), i, total).reserved = registry[i].reserved + total
         /\ Charged(Registered(i), i, total).captured = registry[i].captured
  BY <1>0, ChargedRow
<1> DEFINE RegistryKept == /\ registry'[i].reserved = registry[i].reserved
                           /\ registry'[i].captured = registry[i].captured
<1>1. ASSUME mandates' = mandates, RegistryKept PROVE Matches(i)'
  BY <1>0, <1>1, BudgetUntouched
<1>2. ASSUME NEW m \in Rows, NEW status, RowBecomes(m, RowWithStatus(m, status)), registry' = registry
      PROVE  Matches(i)'
  <2>1. /\ RowWithStatus(m, status).intent = mandates[m].intent
        /\ RowWithStatus(m, status).reserved = mandates[m].reserved
        /\ RowWithStatus(m, status).captured = mandates[m].captured
    BY <1>0 DEF RowWithStatus, MandateRow
  <2>2. /\ Len(mandates') = Len(mandates)
        /\ \A k \in Rows : /\ mandates'[k].intent = mandates[k].intent
                            /\ mandates'[k].reserved = mandates[k].reserved
                            /\ mandates'[k].captured = mandates[k].captured
    BY <1>2, <2>1 DEF RowBecomes
  <2>3. QED
    BY <1>0, <1>2, <2>2, BudgetUntouched
<1>3. ASSUME StartupReconcile PROVE Matches(i)'
  <2>1. /\ Len(mandates') = Len(mandates)
        /\ registry' = registry
        /\ \A k \in Rows : mandates'[k] = IF mandates[k].status = "ORDER_CREATING"
                                           THEN [mandates[k] EXCEPT !.status = "RESERVED"]
                                           ELSE mandates[k]
    BY <1>3, RowFacts DEF StartupReconcile, Rows
  <2>2. \A k \in Rows : /\ mandates'[k].intent = mandates[k].intent
                        /\ mandates'[k].reserved = mandates[k].reserved
                        /\ mandates'[k].captured = mandates[k].captured
    BY <1>0, <2>1 DEF MandateRow
  <2>3. QED
    BY <1>0, <2>1, <2>2, BudgetUntouched
<1>4. ASSUME NEW j \in Intents, NEW merchant \in Merchants, NEW key \in Keys,
             NEW total \in CartTotals, NEW ok \in BOOLEAN, NEW caller \in {"reserved", "agent"},
             AuthorizeMandate(j, merchant, key, total, ok, caller)
      PROVE  Matches(i)'
  <2>1. /\ Insertion /\ Len(mandates') = Len(mandates) + 1 /\ Len(mandates) \in Nat
        /\ Rows' = Rows \cup {Len(mandates) + 1}
        /\ mandates'[Len(mandates) + 1] = NewMandate(j, NoPlan, merchant, key, total)
    BY <1>4, InsertionSteps, MandateAdded, RowFacts
  <2>2. total \in Nat /\ registry' = [registry EXCEPT ![j] = Charged(Registered(j), j, total)]
    BY <1>4, CartTotalsAssumption DEF AuthorizeMandate
  <2> DEFINE added == IF i = j THEN total ELSE 0
             f == [k \in 1 .. 1 |-> added]
  <2>3. added \in Nat /\ f[1] = added /\ \A k \in 1 .. 1 : f[k] \in Nat
    BY <2>2
  <2>4. SumsTo(f, 1, added)
    <3> HIDE DEF f, added
    <3>1. QED
      BY <2>3, SumOne
  <2>5. /\ registry'[i].reserved = registry[i].reserved + added
        /\ registry'[i].captured = registry[i].captured
    <3>1. registry'[i] = IF i = j THEN Charged(Registered(i), i, total) ELSE registry[i]
      BY <1>0, <2>2
    <3>2. CASE i = j
      BY <1>a, <2>2, <3>1, <3>2
    <3>3. CASE i # j
      BY <1>0, <3>1, <3>3
    <3>4. QED
      BY <3>2, <3>3
  <2>6. \A m \in Rows' \ Rows : AmountOf(i, m)' = f[m - Len(mandates)]
    <3>1. \A m \in Rows' \ Rows : m = Len(mandates) + 1 /\ m - Len(mandates) = 1
      BY <2>1
    <3>2. \A m \in Rows' \ Rows : mandates'[m].intent = j /\ mandates'[m].reserved = total
      BY <2>1, <3>1 DEF NewMandate
    <3>3. \A m \in Rows' \ Rows : AmountOf(i, m)' = added
      BY <3>2 DEF AmountOf
    <3> HIDE DEF f, added
    <3>4. QED
      BY <2>3, <3>1, <3>3
  <2> HIDE DEF f, added
  <2>7. QED
    BY <1>0, <2>1, <2>3, <2>4, <2>5, <2>6, RowsAndRegistry
<1>5. ASSUME NEW j \in Intents, NEW p \in Plans, NEW legs \in Legs, NEW total \in 1 .. SpendCap[j],
             AuthorizePlan(j, p, legs, total)
      PROVE  Matches(i)'
  <2> DEFINE n == Len(legs)
             Leg(m) == legs[m - Len(mandates)]
  <2>1. /\ n \in Nat /\ Len(mandates') = Len(mandates) + n
        /\ \A m \in Rows' \ Rows : /\ m - Len(mandates) \in 1 .. n
                                    /\ mandates'[m] = NewMandate(j, p, Leg(m).merchant,
                                                         LegKey(p, Leg(m).merchant), Leg(m).total)
    BY <1>5, PlanAdded
  <2>2. /\ Insertion
        /\ \A k \in 1 .. n : legs[k].total \in Nat
    BY <1>5, InsertionSteps, PlanAppend, CartTotalsAssumption
  <2>3. /\ total \in Nat /\ SumsTo(LegTotals(legs), n, total)
        /\ registry' = [registry EXCEPT ![j] = Charged(Registered(j), j, total)]
    BY <1>5, SpendCapAssumption DEF AuthorizePlan, PlanAdmitted
  <2>4. \A m \in Rows' \ Rows : mandates'[m].intent = j /\ mandates'[m].reserved = legs[m - Len(mandates)].total
    <3>1. \A leg : LET new == NewMandate(j, p, leg.merchant, LegKey(p, leg.merchant), leg.total) IN
                   new.intent = j /\ new.reserved = leg.total
      BY DEF NewMandate
    <3>2. QED
      BY <2>1, <3>1
  <2>5. CASE i = j
    <3>1. /\ registry'[i].reserved = registry[i].reserved + total
          /\ registry'[i].captured = registry[i].captured
      BY <1>0, <1>a, <2>3, <2>5
    <3>2. \A k \in 1 .. n : LegTotals(legs)[k] \in Nat /\ LegTotals(legs)[k] = legs[k].total
      BY <2>2 DEF LegTotals
    <3>3. \A m \in Rows' \ Rows : AmountOf(i, m)' = LegTotals(legs)[m - Len(mandates)]
      BY <2>1, <2>4, <2>5, <3>2 DEF AmountOf
    <3> HIDE DEF n
    <3>4. QED
      BY <1>0, <2>1, <2>2, <2>3, <3>1, <3>2, <3>3, RowsAndRegistry
  <2>6. CASE i # j
    <3> DEFINE zeros == [k \in 1 .. n |-> 0]
    <3>1. registry'[i] = registry[i]
      BY <1>0, <2>3, <2>6
    <3>2. SumsTo(zeros, n, 0) /\ \A k \in 1 .. n : zeros[k] = 0
      BY <2>1, SumZero
    <3>3. \A m \in Rows' \ Rows : AmountOf(i, m)' = zeros[m - Len(mandates)]
      BY <2>1, <2>4, <2>6 DEF AmountOf
    <3> HIDE DEF n, zeros
    <3>4. ASSUME NEW nothing \in Nat, SumsTo(zeros, n, nothing),
                 registry'[i].reserved = registry[i].reserved + nothing
          PROVE  Matches(i)'
      <4>1. \A k \in 1 .. n : zeros[k] \in Nat
        BY <3>2
      <4>2. QED
        BY <1>0, <2>1, <2>2, <3>1, <3>3, <3>4, <4>1, RowsAndRegistry
    <3>5. registry'[i].reserved = registry[i].reserved + 0
      BY <1>0, <3>1
    <3>6. QED
      BY <3>2, <3>4, <3>5
  <2>7. QED
    BY <2>5, <2>6
<1>6. ASSUME NEW m \in Rows, \/ ReleaseLeg(m)
                            \/ \E e \in EventIds : FailWebhook(e, m)
      PROVE  Matches(i)'
  <2> DEFINE j == mandates[m].intent
  <2>1. PICK status, captured :
           /\ RowBecomes(m, RowWithOutcome(m, status, captured))
           /\ captured = mandates[m].captured
    BY <1>6, OutcomeSteps
  <2> DEFINE row == RowWithOutcome(m, status, captured)
  <2>2. row.intent = j /\ row.reserved = 0 /\ row.captured = mandates[m].captured
    BY <1>0, <2>1 DEF RowWithOutcome, MandateRow
  <2>3. /\ mandates[m].reserved \in Nat /\ mandates[m].captured \in Nat /\ j \in Intents
        /\ registry' = [registry EXCEPT ![j] = Refunded(registry[j], mandates[m].reserved)]
    BY <1>6, RowFacts DEF ReleaseLeg, FailWebhook
  <2>4. i = j => registry[i].reserved >= mandates[m].reserved
    <3>1. /\ \A k \in 1 .. Len(mandates) : Held(i)[k] \in Nat
          /\ Held(i)[m] = AmountOf(i, m) /\ m \in 1 .. Len(mandates) /\ Len(mandates) \in Nat
      BY SummandTypes DEF Rows
    <3>2. Held(i)[m] <= registry[i].reserved
      BY <1>0, <3>1, SummandBounded DEF Matches
    <3>3. i = j => AmountOf(i, m) = mandates[m].reserved
      BY DEF AmountOf
    <3>4. QED
      BY <1>0, <2>3, <3>1, <3>2, <3>3
  <2>5. i # j => registry'[i] = registry[i]
    BY <1>0, <2>3
  <2>6. i = j => /\ registry'[i].reserved = registry[i].reserved - mandates[m].reserved
                 /\ registry'[i].captured = registry[i].captured
    BY <1>0, <2>3, <2>4, RefundedRow
  <2>7. i = j => /\ registry'[i].reserved = registry[i].reserved - mandates[m].reserved + row.reserved
                 /\ registry'[i].captured = registry[i].captured - mandates[m].captured + row.captured
    <3> HIDE DEF row, j
    <3>1. QED
      BY <1>0, <2>2, <2>3, <2>6
  <2> HIDE DEF row, j
  <2>8. QED
    BY <1>0, <2>1, <2>2, <2>5, <2>7, RowAndRegistry DEF row, j
<1>7. ASSUME NEW e \in EventIds, NEW m \in Rows, NEW amount \in CartTotals,
             CaptureWebhook(e, m, amount)
      PROVE  Matches(i)'
  <2> DEFINE j == mandates[m].intent
             row == RowWithOutcome(m, "PAYMENT_CAPTURED", amount)
  <2>1. RowBecomes(m, row)
    BY <1>7, OutcomeSteps
  <2>2. row.intent = j /\ row.reserved = 0 /\ row.captured = amount
    BY <1>0 DEF RowWithOutcome, MandateRow
  <2>3. amount \in Nat /\ mandates[m].reserved = amount /\ mandates[m].captured = 0
    BY <1>7, CartTotalsAssumption
    DEF CaptureWebhook, CaptureAdmitted, MandateAccounting, HoldsBudget, InFlight
  <2>4. registry' = [registry EXCEPT ![j].reserved = registry[j].reserved - amount,
                                     ![j].captured = registry[j].captured + amount]
    BY <1>0, <1>7, RowFacts DEF CaptureWebhook
  <2>5. i # j => registry'[i] = registry[i]
    BY <1>0, <2>4
  <2>6. i = j => /\ registry'[i].reserved = registry[i].reserved - amount
                 /\ registry'[i].captured = registry[i].captured + amount
    BY <1>0, <2>4 DEF IntentRow
  <2>7. i = j => /\ registry'[i].reserved = registry[i].reserved - mandates[m].reserved + row.reserved
                 /\ registry'[i].captured = registry[i].captured - mandates[m].captured + row.captured
    <3> HIDE DEF row, j
    <3>1. QED
      BY <1>0, <2>2, <2>3, <2>6
  <2> HIDE DEF row, j
  <2>8. QED
    BY <1>0, <2>1, <2>2, <2>5, <2>7, RowAndRegistry DEF j
<1> HIDE DEF RegistryKept
<1>8. CASE Authorization
  <2>1. ASSUME NEW j \in Intents, NEW row, row = FreshRow \/ row = Registered(j),
               row = FreshRow => registry[j].status = "ABSENT",
               registry' = [registry EXCEPT ![j] = row]
        PROVE  RegistryKept
    <3>1. registry[i].status = "ABSENT" => FreshRow.reserved = registry[i].reserved
                                             /\ FreshRow.captured = registry[i].captured
      BY DEF AbsentRowsAreEmpty, NoRow, FreshRow
    <3>2. QED
      BY <1>0, <2>1, <3>1 DEF RegistryKept
  <2>2. ASSUME NEW j \in Intents, RegisterIntent(j) PROVE Matches(i)'
    BY <1>1, <2>1, <2>2 DEF RegisterIntent
  <2>3. ASSUME NEW j \in Intents, registry' = [registry EXCEPT ![j] = Registered(j)]
        PROVE  RegistryKept
    BY <1>0, <2>3 DEF RegistryKept
  <2>4. ASSUME registry' = registry PROVE RegistryKept
    BY <2>4 DEF RegistryKept
  <2>5. QED
    BY <1>1, <1>4, <1>5, <1>8, <2>2, <2>3, <2>4
    DEF Authorization, AuthorizeMandateRejected, AuthorizePlanRejected
<1>9. ASSUME registry' = registry, mandates' = mandates PROVE Matches(i)'
  BY <1>1, <1>9 DEF RegistryKept
<1>10. CASE OrderHandling
  <2>1. registry' = registry
    BY <1>10
    DEF OrderHandling, BeginOrder, CallGateway, FinishOrder, AgentOrder, HandlerFails, Crash,
        StartupReconcile, ReconcileFound, ReconcileNotFound
  <2>2. \/ mandates' = mandates
        \/ StartupReconcile
        \/ \E m \in Rows : \E status : RowBecomes(m, RowWithStatus(m, status))
    BY <1>10, StatusSteps DEF OrderHandling, CallGateway, HandlerFails, Crash
  <2>3. QED
    BY <1>2, <1>3, <1>9, <2>1, <2>2
<1>11. CASE PlanExecution
  <2>1. ASSUME NEW m \in Rows, ExecuteLeg(m) PROVE Matches(i)'
    BY <1>2, <2>1, StatusSteps DEF ExecuteLeg
  <2>2. QED
    BY <1>6, <1>9, <1>11, <2>1 DEF PlanExecution, SyncPlan
<1>12. CASE Webhooks
  BY <1>6, <1>7, <1>9, <1>12 DEF Webhooks, OtherWebhook
<1>13. CASE (\E j \in Intents : ExpireIntent(j)) \/ UNCHANGED vars
  BY <1>9, <1>13 DEF ExpireIntent, vars
<1>14. QED
  BY <1>8, <1>10, <1>11, <1>12, <1>13 DEF Next

\* The two totals in an intent's row are at every commit the sums over its mandates.
THEOREM RegistryMatches == Spec => []RegistryMatchesMandates
<1>1. Init => RegistryMatchesMandates
  <2> SUFFICES ASSUME Init, NEW i \in Intents PROVE Matches(i)
    BY DEF RegistryMatchesMandates, Matches, Held, Taken
  <2>1. Len(mandates) = 0 /\ registry[i].reserved = 0 /\ registry[i].captured = 0
    BY DEF Init, NoRow, FreshRow
  <2>2. SumsTo(Held(i), 0, 0) /\ SumsTo(Taken(i), 0, 0)
    BY SumZero
  <2>3. QED
    BY <2>1, <2>2 DEF Matches
<1>2. QED
  BY <1>1, MatchStep, TypeCorrect, AbsentRows, AccountingHolds, PTL DEF Spec

\* A mandate that may still be paid is backed by its amount in the intent's row.
THEOREM OpenBacked == Spec => []OpenMandatesAreBacked
<1>1. TypeOK /\ MandateAccounting /\ RegistryMatchesMandates => OpenMandatesAreBacked
  <2> SUFFICES ASSUME TypeOK, MandateAccounting, RegistryMatchesMandates, NEW m \in Rows,
                      mandates[m].status \in HoldsBudget
               PROVE  registry[mandates[m].intent].reserved >= mandates[m].amount
    BY DEF OpenMandatesAreBacked
  <2> DEFINE i == mandates[m].intent
  <2>1. i \in Intents /\ mandates[m].amount \in Nat
    BY RowFacts
  <2>2. Matches(i) /\ registry[i].reserved \in Nat
    BY <2>1, RegistryRows DEF RegistryMatchesMandates, Matches, Held, Taken, IntentRow
  <2>3. /\ \A k \in 1 .. Len(mandates) : Held(i)[k] \in Nat
        /\ Held(i)[m] = AmountOf(i, m) /\ m \in 1 .. Len(mandates) /\ Len(mandates) \in Nat
    BY SummandTypes DEF Rows
  <2>4. AmountOf(i, m) = mandates[m].amount
    BY DEF AmountOf, MandateAccounting
  <2> HIDE DEF i
  <2>5. Held(i)[m] <= registry[i].reserved
    BY <2>2, <2>3, SummandBounded DEF Matches
  <2>6. registry[i].reserved >= mandates[m].amount
    BY <2>1, <2>2, <2>3, <2>4, <2>5
  <2>7. QED
    BY <2>6 DEF i
<1>2. QED
  BY <1>1, TypeCorrect, AccountingHolds, RegistryMatches, PTL

-----------------------------------------------------------------------------
(***************************************************************************)
(* The rail implements BudgetAccount.                                      *)
(***************************************************************************)
\* The three states of a hold.
LEMMA HoldStates ==
    /\ \A row : row.status \in HoldsBudget => HoldState(row) = "open"
    /\ \A row : row.status = "PAYMENT_CAPTURED" => HoldState(row) = "settled"
    /\ \A row : row.status \in Unsuccessful => HoldState(row) = "returned"
BY DEF HoldState, HoldsBudget, InFlight, AwaitsPayment, Unsuccessful

\* The holds are a sequence as long as the mandate table.
LEMMA HoldsShape ==
    ASSUME TypeOK
    PROVE  /\ Len(Holds) = Len(mandates) /\ DOMAIN Holds = Rows /\ Rows = 1 .. Len(mandates)
           /\ Holds \in Seq([owner : Intents, amount : CartTotals,
                              state : {"open", "settled", "returned"}])
           /\ \A m \in Rows : /\ Holds[m].owner = mandates[m].intent
                               /\ Holds[m].amount = mandates[m].amount
                               /\ Holds[m].state = HoldState(mandates[m])
<1> DEFINE Hold == [owner : Intents, amount : CartTotals, state : {"open", "settled", "returned"}]
<1>1. \A row : HoldState(row) \in {"open", "settled", "returned"}
  BY DEF HoldState
<1>2. Len(mandates) \in Nat
  BY RowFacts
<1>3. Holds \in [1 .. Len(mandates) -> Hold]
  BY <1>1, RowFacts DEF Holds, Rows
<1>4. Holds \in Seq(Hold) /\ Len(Holds) = Len(mandates)
  <2> HIDE DEF Hold
  <2>1. \A n \in Nat : \A f \in [1 .. n -> Hold] : f \in Seq(Hold) /\ Len(f) = n
    OBVIOUS
  <2>2. QED
    BY <1>2, <1>3, <2>1
<1>5. QED
  BY <1>3, <1>4 DEF Holds, Rows

\* A step that changes row m and none of the others' holds.
LEMMA OneHold ==
    ASSUME TypeOK, TypeOK', NEW m \in Rows, NEW row, RowBecomes(m, row),
           row.intent = mandates[m].intent, row.amount = mandates[m].amount
    PROVE  Holds' = [Holds EXCEPT ![m].state = HoldState(row)]
<1>1. /\ Rows' = Rows
      /\ \A k \in Rows : mandates'[k] = IF k = m THEN row ELSE mandates[k]
  BY DEF RowBecomes, Rows
<1>2. Holds' = [k \in Rows |-> [owner |-> mandates'[k].intent, amount |-> mandates'[k].amount,
                                state |-> HoldState(mandates'[k])]]
  BY <1>1 DEF Holds, HoldState
<1>3. \A k \in Rows : Holds'[k] = IF k = m THEN [Holds[k] EXCEPT !.state = HoldState(row)] ELSE Holds[k]
  BY <1>1, <1>2 DEF Holds
<1>4. DOMAIN Holds' = Rows /\ DOMAIN Holds = Rows
  BY <1>1, <1>2 DEF Holds
<1>5. Holds' = [k \in Rows |-> Holds'[k]] /\ Holds = [k \in Rows |-> Holds[k]]
  BY <1>2 DEF Holds
<1>6. QED
  BY <1>3, <1>4, <1>5

\* Rows added by one step have one owner.
LEMMA OneOwner ==
    ASSUME TypeOK, [Next]_vars, Len(mandates') > Len(mandates)
    PROVE  \E i \in Intents : \A m \in Rows' \ Rows : mandates'[m].intent = i
<1>0. Len(mandates) \in Nat
  BY RowFacts
<1>1. ASSUME NEW i \in Intents, NEW merchant \in Merchants, NEW key \in Keys,
             NEW total \in CartTotals, NEW ok \in BOOLEAN, NEW caller \in {"reserved", "agent"},
             AuthorizeMandate(i, merchant, key, total, ok, caller)
      PROVE  \A m \in Rows' \ Rows : mandates'[m].intent = i
  <2>1. NewMandate(i, NoPlan, merchant, key, total).intent = i
    BY DEF NewMandate
  <2>2. QED
    BY <1>1, <2>1, MandateAdded
<1>2. ASSUME NEW i \in Intents, NEW p \in Plans, NEW legs \in Legs, NEW total,
             AuthorizePlan(i, p, legs, total)
      PROVE  \A m \in Rows' \ Rows : mandates'[m].intent = i
  <2>1. \A leg : NewMandate(i, p, leg.merchant, LegKey(p, leg.merchant), leg.total).intent = i
    BY DEF NewMandate
  <2>2. QED
    BY <1>2, <2>1, PlanAdded
<1>3. ASSUME NEW m \in Rows, NEW row, RowBecomes(m, row) PROVE FALSE
  BY <1>0, <1>3 DEF RowBecomes
<1>4. CASE Authorization
  BY <1>0, <1>1, <1>2, <1>4
  DEF Authorization, RegisterIntent, AuthorizeMandateRejected, AuthorizePlanRejected
<1>5. CASE OrderHandling
  <2>1. ~StartupReconcile
    BY <1>0 DEF StartupReconcile, Rows
  <2>2. QED
    BY <1>0, <1>3, <1>5, <2>1, StatusSteps DEF OrderHandling, CallGateway, HandlerFails, Crash
<1>6. CASE PlanExecution
  BY <1>0, <1>3, <1>6, StatusSteps, OutcomeSteps DEF PlanExecution, SyncPlan
<1>7. CASE Webhooks
  BY <1>0, <1>3, <1>7, OutcomeSteps DEF Webhooks, OtherWebhook
<1>8. CASE (\E i \in Intents : ExpireIntent(i)) \/ UNCHANGED vars
  BY <1>0, <1>8 DEF ExpireIntent, vars
<1>9. QED
  BY <1>4, <1>5, <1>6, <1>7, <1>8 DEF Next

\* What is open and settled in an intent's name fits its cap.
HoldsFit == \A i \in Intents : Account!Fits(Holds, i)

\* What the mandates of an intent hold is within its spend cap.
LEMMA HoldsFitTheCap ==
    TypeOK /\ MandateAccounting /\ RegistryMatchesMandates /\ SpendCapRespected => HoldsFit
<1> SUFFICES ASSUME TypeOK, MandateAccounting, RegistryMatchesMandates, SpendCapRespected,
                    NEW i \in Intents
             PROVE  Account!Fits(Holds, i)
  BY DEF HoldsFit
<1> DEFINE n == Len(mandates)
           weight == [h \in 1 .. Len(Holds) |-> Account!Weight(Holds[h], i)]
           total == registry[i].reserved + registry[i].captured
<1>1. /\ n \in Nat
      /\ SumsTo(Held(i), n, registry[i].reserved) /\ SumsTo(Taken(i), n, registry[i].captured)
      /\ \A m \in 1 .. n : /\ Held(i)[m] = AmountOf(i, m) /\ AmountOf(i, m) \in Nat
                           /\ Taken(i)[m] = TakenOf(i, m) /\ TakenOf(i, m) \in Nat
  BY SummandTypes DEF RegistryMatchesMandates, Held, Taken
<1>2. /\ registry[i].reserved \in Nat /\ registry[i].captured \in Nat
      /\ total <= SpendCap[i] /\ SpendCap[i] \in Nat
  BY RegistryRows, SpendCapAssumption DEF SpendCapRespected, IntentRow
<1>3. ASSUME NEW m \in Rows PROVE weight[m] = AmountOf(i, m) + TakenOf(i, m)
  <2>1. /\ weight[m] = Account!Weight(Holds[m], i)
        /\ Holds[m].owner = mandates[m].intent /\ Holds[m].amount = mandates[m].amount
        /\ Holds[m].state = HoldState(mandates[m])
    BY HoldsShape
  <2>2. /\ mandates[m].status \in MandateStatus
        /\ mandates[m].amount \in Nat /\ mandates[m].reserved \in Nat /\ mandates[m].captured \in Nat
    BY RowFacts
  <2>3. CASE mandates[m].status \in HoldsBudget
    BY <2>1, <2>2, <2>3 DEF MandateAccounting, HoldState, Account!Weight, AmountOf, TakenOf
  <2>4. CASE mandates[m].status = "PAYMENT_CAPTURED"
    <3>1. HoldState(mandates[m]) = "settled"
      BY <2>4, HoldStates
    <3>2. QED
      BY <2>1, <2>2, <2>4, <3>1 DEF MandateAccounting, Account!Weight, AmountOf, TakenOf
  <2>5. CASE mandates[m].status \in Unsuccessful
    <3>1. HoldState(mandates[m]) = "returned"
      BY <2>5, HoldStates
    <3>2. mandates[m].reserved = 0 /\ mandates[m].captured = 0
      BY <2>5 DEF MandateAccounting
    <3>3. weight[m] = 0
      BY <2>1, <3>1 DEF Account!Weight
    <3>4. QED
      BY <3>2, <3>3 DEF AmountOf, TakenOf
  <2>6. QED
    BY <2>2, <2>3, <2>4, <2>5 DEF MandateStatus, HoldsBudget, InFlight, AwaitsPayment, Unsuccessful
<1>4. \A k \in 1 .. n : Held(i)[k] \in Nat /\ Taken(i)[k] \in Nat /\ weight[k] = Held(i)[k] + Taken(i)[k]
  BY <1>1, <1>3 DEF Rows
<1>5. Len(Holds) = n
  BY HoldsShape
<1> HIDE DEF weight
<1>6. SumsTo(weight, n, total)
  BY <1>1, <1>2, <1>4, SumAdd
<1>7. total \in 0 .. SpendCap[i]
  BY <1>2
<1>8. Account!SumsTo(weight, Len(Holds), total)
  <2>1. ASSUME NEW f, NEW l, NEW t PROVE SumsTo(f, l, t) => Account!SumsTo(f, l, t)
    BY Zenon DEF SumsTo, RunsTo, Account!SumsTo, Account!RunsTo
  <2>2. QED
    BY <1>5, <1>6, <2>1
<1>9. QED
  BY <1>7, <1>8 DEF Account!Fits, weight

\* So it is throughout.
LEMMA AlwaysFits == Spec => []HoldsFit
<1>1. QED
  BY HoldsFitTheCap, TypeCorrect, AccountingHolds, RegistryMatches, SpendCapHolds, PTL

\* Every commit opens holds of one owner that fit, ends one hold, or changes none.
LEMMA AccountStep == TypeOK /\ TypeOK' /\ HoldsFit' /\ [Next]_vars => [Account!Next]_Holds
<1> SUFFICES ASSUME TypeOK, TypeOK', HoldsFit', [Next]_vars PROVE Account!Next \/ Holds' = Holds
  OBVIOUS
<1> DEFINE Goal == Account!Next \/ Holds' = Holds
<1>0. /\ Len(Holds) = Len(mandates) /\ Rows = 1 .. Len(mandates) /\ Len(mandates) \in Nat
      /\ \A m \in Rows : /\ mandates[m] \in MandateRow /\ mandates[m].status \in MandateStatus
                         /\ Holds[m].state = HoldState(mandates[m])
  BY HoldsShape, RowFacts
<1>1. CASE mandates' = mandates
  BY <1>1 DEF Holds, Rows, HoldState
<1>2. ASSUME Insertion PROVE Goal
  <2>1. PICK i \in Intents : \A m \in Rows' \ Rows : mandates'[m].intent = i
    BY <1>2, OneOwner DEF Insertion
  <2>2. Len(mandates') \in Nat /\ Rows' = 1 .. Len(mandates')
    BY LenProperties DEF TypeOK, Rows
  <2>3. Holds' = [m \in Rows' |-> [owner  |-> mandates'[m].intent,
                                   amount |-> mandates'[m].amount,
                                   state  |-> HoldState(mandates'[m])]]
    BY DEF Holds, HoldState
  <2>4. Len(Holds') = Len(mandates')
    <3>1. \A n \in Nat : \A f : DOMAIN f = 1 .. n /\ f = [m \in 1 .. n |-> f[m]] => Len(f) = n
      OBVIOUS
    <3>2. Holds' = [m \in 1 .. Len(mandates') |-> Holds'[m]] /\ DOMAIN Holds' = 1 .. Len(mandates')
      BY <2>2, <2>3
    <3>3. QED
      BY <2>2, <3>1, <3>2
  <2>5. ASSUME NEW m \in Rows' \ Rows PROVE Holds'[m].owner = i /\ Holds'[m].state = "open"
    <3>1. mandates'[m].status \in HoldsBudget
      BY <1>2 DEF Insertion, HoldsBudget
    <3>2. HoldState(mandates'[m]) = "open"
      BY <3>1, HoldStates
    <3>3. Holds'[m] = [owner |-> i, amount |-> mandates'[m].amount, state |-> "open"]
      BY <2>1, <2>3, <3>2
    <3>4. QED
      BY <3>3
  <2>6. \A m \in Rows : Holds'[m] = Holds[m]
    <3>1. \A m \in Rows : m \in Rows' /\ mandates'[m] = mandates[m]
      BY <1>0, <1>2, <2>2 DEF Insertion
    <3>2. QED
      BY <2>3, <3>1 DEF Holds
  <2>7. Account!Fits(Holds', i)
    BY <2>1 DEF HoldsFit
  <2>8. Account!Open(i)
    <3>1. Len(Holds') > Len(Holds)
      BY <1>0, <1>2, <2>4 DEF Insertion
    <3>2. \A h \in Len(Holds) + 1 .. Len(Holds') : h \in Rows' \ Rows
      BY <1>0, <2>2, <2>4
    <3>3. \A h \in Len(Holds) + 1 .. Len(Holds') : Holds'[h].owner = i /\ Holds'[h].state = "open"
      BY <2>5, <3>2
    <3>4. \A h \in 1 .. Len(Holds) : Holds'[h] = Holds[h]
      BY <1>0, <2>6
    <3>5. QED
      BY <2>7, <3>1, <3>3, <3>4 DEF Account!Open
  <2>9. QED
    BY <2>1, <2>8 DEF Account!Next
<1>3. ASSUME NEW m \in Rows, NEW row, RowBecomes(m, row), row.intent = mandates[m].intent,
             row.amount = mandates[m].amount, HoldState(row) = HoldState(mandates[m])
      PROVE  Holds' = Holds
  <2>1. Holds' = [Holds EXCEPT ![m].state = Holds[m].state]
    BY <1>0, <1>3, OneHold
  <2>2. Holds[m] = [Holds[m] EXCEPT !.state = Holds[m].state]
    BY DEF Holds
  <2>3. Holds = [k \in Rows |-> Holds[k]]
    BY DEF Holds
  <2>4. QED
    BY <2>1, <2>2, <2>3
<1>4. CASE StartupReset
  <2>1. Rows' = Rows
    BY <1>4 DEF StartupReset, Rows
  <2>2. \A m \in Rows : /\ mandates'[m].intent = mandates[m].intent
                        /\ mandates'[m].amount = mandates[m].amount
                        /\ HoldState(mandates'[m]) = HoldState(mandates[m])
    <3>1. \A m \in Rows : mandates[m].status = "ORDER_CREATING" =>
             /\ RowWithStatus(m, "RESERVED").intent = mandates[m].intent
             /\ RowWithStatus(m, "RESERVED").amount = mandates[m].amount
             /\ RowWithStatus(m, "RESERVED").status = "RESERVED"
      BY <1>0 DEF RowWithStatus, MandateRow
    <3>2. QED
      BY <1>4, <3>1 DEF StartupReset, HoldState, HoldsBudget, InFlight
  <2>3. Holds' = [m \in Rows |-> [owner  |-> mandates'[m].intent,
                                  amount |-> mandates'[m].amount,
                                  state  |-> HoldState(mandates'[m])]]
    BY <2>1 DEF Holds, HoldState
  <2>4. QED
    BY <2>2, <2>3 DEF Holds
<1>5. ASSUME NEW m \in Rows, StatusChange(m) PROVE Holds' = Holds
  <2>1. PICK status : /\ RowBecomes(m, RowWithStatus(m, status))
                      /\ mandates[m].status \in HoldsBudget /\ status \in HoldsBudget
    BY <1>5 DEF StatusChange
  <2>2. /\ RowWithStatus(m, status).intent = mandates[m].intent
        /\ RowWithStatus(m, status).amount = mandates[m].amount
        /\ RowWithStatus(m, status).status = status
    BY <1>0 DEF RowWithStatus, MandateRow
  <2>3. HoldState(RowWithStatus(m, status)) = HoldState(mandates[m])
    BY <2>1, <2>2, HoldStates
  <2>4. QED
    BY <1>3, <2>1, <2>2, <2>3
<1>6. ASSUME NEW m \in Rows, NEW status, NEW captured,
             RowBecomes(m, RowWithOutcome(m, status, captured)),
             \/ mandates[m].status \in HoldsBudget /\ status = "PAYMENT_CAPTURED"
             \/ mandates[m].status \in HoldsBudget /\ status \in Unsuccessful
             \/ mandates[m].status = status
      PROVE  Goal
  <2> DEFINE row == RowWithOutcome(m, status, captured)
  <2>1. row.intent = mandates[m].intent /\ row.amount = mandates[m].amount /\ row.status = status
    BY <1>0 DEF RowWithOutcome, MandateRow
  <2>2. RowBecomes(m, row)
    BY <1>6
  <2> HIDE DEF row
  <2>3. CASE mandates[m].status = status
    BY <1>3, <2>1, <2>2, <2>3 DEF HoldState
  <2>4. CASE mandates[m].status \in HoldsBudget /\ mandates[m].status # status
    <3>1. Holds[m].state = "open" /\ m \in 1 .. Len(Holds)
      BY <1>0, <2>4, HoldStates
    <3>2. HoldState(row) \in {"settled", "returned"}
      BY <1>6, <2>1, <2>4, HoldStates
    <3>3. Holds' = [Holds EXCEPT ![m].state = HoldState(row)]
      BY <2>1, <2>2, OneHold
    <3>4. QED
      BY <3>1, <3>2, <3>3 DEF Account!Next, Account!End
  <2>5. QED
    BY <1>6, <2>3, <2>4
<1> HIDE DEF Goal
<1>7. ASSUME NEW m \in Rows, Capture(m) \/ Failure(m) \/ Release(m) PROVE Goal
  <2>1. CASE Capture(m)
    BY <1>6, <2>1 DEF Capture, HoldsBudget, InFlight
  <2>2. CASE Failure(m)
    BY <1>6, <2>2 DEF Failure, HoldsBudget, InFlight, Unsuccessful
  <2>3. CASE Release(m)
    BY <1>6, <2>3 DEF Release, ReleasedStatus, Unsuccessful
  <2>4. QED
    BY <1>7, <2>1, <2>2, <2>3
<1>8. QED
  BY <1>1, <1>2, <1>4, <1>5, <1>7, MandateSteps DEF Goal

\* Seen from outside, the mandates are holds on their intents' budgets: every run
\* of the rail is a run of BudgetAccount, for any intents, caps and bounds.
THEOREM RailKeepsBudget == Spec => BudgetIsKept
<1>1. Init => Account!Init
  <2>1. ASSUME Init PROVE Holds = <<>>
    BY <2>1 DEF Init, Holds, Rows
  <2>2. QED
    BY <2>1 DEF Account!Init
<1>2. QED
  BY <1>1, AccountStep, TypeCorrect, AlwaysFits, PTL DEF Spec, BudgetIsKept, Account!Spec

=============================================================================
