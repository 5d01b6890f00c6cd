------------------------ MODULE LegRevalidation_proofs ------------------------
(***************************************************************************)
(* Proofs about Deliberation and LegRevalidation: the routing with         *)
(* fallback pays for the cheapest quote that lasted, misses none, agrees   *)
(* with the orchestrator's own routing, and a planned leg is ordered only  *)
(* for a price its merchant asked recently; for every allowlist, catalog,  *)
(* basket, price and lifetime.                                             *)
(***************************************************************************)
EXTENDS LegRevalidation, FiniteSetTheorems, WellFoundedInduction, TLAPS

(***************************************************************************)
(* Least elements and sums.                                                *)
(***************************************************************************)
LessThan == {ss \in Nat \X Nat : ss[1] < ss[2]}
\* A set of naturals that is not empty has a least element.
LEMMA NatMin ==
    ASSUME NEW S \in SUBSET Nat, S # {}
    PROVE  \E n \in S : \A m \in S : n <= m
<1>1. IsWellFoundedOn(LessThan, Nat)
  BY NatLessThanWellFounded DEF OpToRel, LessThan
<1>2. PICK n \in S : \A m \in S : ~ (<<m, n>> \in LessThan)
  BY <1>1, WFMin
<1>3. \A m, k \in Nat : m < k => <<m, k>> \in LessThan
  BY DEF LessThan
<1>4. QED
  <2>1. \A m \in S : ~(m < n)
    BY <1>2, <1>3
  <2>2. QED
    BY <2>1

\* Induction over the subsets of a finite set, for a claim given as the set of
\* those it holds of.
LEMMA SubsetInduction ==
    ASSUME NEW S, IsFiniteSet(S), NEW Holding,
           \A s \in SUBSET S : (\A x \in s : s \ {x} \in Holding) => s \in Holding
    PROVE  SUBSET S \subseteq Holding
<1> DEFINE Sizes == {n \in Nat : \E s \in SUBSET S : Cardinality(s) = n /\ s \notin Holding}
<1>1. \A s \in SUBSET S : IsFiniteSet(s) /\ Cardinality(s) \in Nat
  BY FS_Subset, FS_CardinalityType
<1>2. SUFFICES ASSUME Sizes # {} PROVE FALSE
  BY <1>1
<1>3. PICK n \in Sizes : \A m \in Sizes : n <= m
  BY <1>2, NatMin
<1>4. PICK s \in SUBSET S : Cardinality(s) = n /\ s \notin Holding
  BY <1>3
<1>5. \A x \in s : s \ {x} \in Holding
  <2> TAKE x \in s
  <2>1. s \ {x} \in SUBSET S /\ Cardinality(s \ {x}) = n - 1 /\ n - 1 \in Nat
    <3>1. s \ {x} \in SUBSET S /\ IsFiniteSet(s)
      BY <1>1
    <3>2. Cardinality(s \ {x}) = Cardinality(s) - 1
      BY <3>1, FS_RemoveElement
    <3> QED
      BY <1>1, <1>4, <3>1, <3>2
  <2>2. n - 1 \notin Sizes
    BY <1>3, <2>1
  <2> QED
    BY <2>1, <2>2
<1> QED
  BY <1>4, <1>5

\* The fold that sums a function over a set, and one step of it.
Pick(s) == CHOOSE x \in s : TRUE
FoldStep(f, g, s) == IF s = {} THEN 0 ELSE f[Pick(s)] + g[s \ {Pick(s)}]
Fold(f, S) == CHOOSE g : g = [s \in SUBSET S |-> FoldStep(f, g, s)]
SumOf(f, S) == MapThenSumSet(LAMBDA x : f[x], S)

\* Pick() takes an element of any set that has one.
LEMMA PickIs == \A s : s # {} => Pick(s) \in s
BY DEF Pick

\* The fold exists; the equations that define it have one solution.
LEMMA FoldIs ==
    ASSUME NEW S, IsFiniteSet(S), NEW f, \A x \in S : f[x] \in Nat
    PROVE  /\ Fold(f, S) \in [SUBSET S -> Nat]
           /\ \A s \in SUBSET S : Fold(f, S)[s] = FoldStep(f, Fold(f, S), s)
           /\ SumOf(f, S) = Fold(f, S)[S]
<1> DEFINE Small(n) == {s \in SUBSET S : Cardinality(s) <= n}
           Folds(n) == {g \in [Small(n) -> Nat] : \A s \in Small(n) : g[s] = FoldStep(f, g, s)}
<1>1. \A s \in SUBSET S : s # {} =>
          /\ Pick(s) \in s
          /\ Cardinality(s \ {Pick(s)}) = Cardinality(s) - 1
          /\ Cardinality(s) \in Nat \ {0}
  <2> SUFFICES ASSUME NEW s \in SUBSET S, s # {}
               PROVE  /\ Pick(s) \in s
                      /\ Cardinality(s \ {Pick(s)}) = Cardinality(s) - 1
                      /\ Cardinality(s) \in Nat \ {0}
    OBVIOUS
  <2>1. Pick(s) \in s /\ IsFiniteSet(s)
    BY PickIs, FS_Subset
  <2> QED
    BY <2>1, FS_RemoveElement, FS_CardinalityType, FS_EmptySet
<1>2. /\ Cardinality({}) = 0
      /\ \A s \in SUBSET S : Cardinality(s) \in Nat /\ Cardinality(s) <= Cardinality(S)
  BY FS_Subset, FS_CardinalityType, FS_EmptySet
<1>3. \A n \in Nat : Folds(n) # {}
  <2> DEFINE Bad == {n \in Nat : Folds(n) = {}}
  <2>1. SUFFICES ASSUME Bad # {} PROVE FALSE
    OBVIOUS
  <2>2. PICK n \in Bad : \A m \in Bad : n <= m
    <3> HIDE DEF Folds
    <3> QED
      BY <2>1, NatMin
  <2>3. n \in Nat /\ Folds(n) = {} /\ \A m \in Nat : m < n => Folds(m) # {}
    <3> HIDE DEF Folds
    <3> QED
      BY <2>2
  <2>4. CASE n = 0
    <3>1. \A s \in Small(0) : s = {}
      <4> SUFFICES ASSUME NEW s \in SUBSET S, Cardinality(s) <= 0, s # {} PROVE FALSE
        OBVIOUS
      <4>1. Cardinality(s) \in Nat \ {0}
        BY <1>1
      <4> QED
        BY <4>1
    <3>2. [s \in Small(0) |-> 0] \in Folds(0)
      BY <3>1 DEF FoldStep
    <3> QED
      BY <2>3, <2>4, <3>2
  <2>5. CASE n # 0
    <3>1. n - 1 \in Nat /\ Folds(n - 1) # {}
      <4> HIDE DEF Folds
      <4> QED
        BY <2>3, <2>5
    <3>2. PICK g \in Folds(n - 1) : TRUE
      BY <3>1
    <3> DEFINE h == [s \in Small(n) |-> FoldStep(f, g, s)]
    <3>3. \A s \in Small(n) : s # {} => s \ {Pick(s)} \in Small(n - 1)
      BY <1>1, <2>3, <3>1
    <3>4. \A s \in Small(n) : FoldStep(f, g, s) \in Nat
      BY <1>1, <3>2, <3>3 DEF FoldStep
    <3>5. \A s \in Small(n - 1) : s \in Small(n) /\ h[s] = g[s]
      <4>1. \A s \in Small(n - 1) : s \in Small(n) /\ g[s] = FoldStep(f, g, s)
        BY <1>2, <2>3, <3>1, <3>2
      <4> HIDE DEF Small
      <4> QED
        BY <4>1
    <3>6. \A s \in Small(n) : h[s] = FoldStep(f, h, s)
      BY <3>3, <3>5 DEF FoldStep
    <3>7. h \in Folds(n)
      BY <3>4, <3>6
    <3> QED
      BY <2>3, <3>7
  <2> QED
    BY <2>4, <2>5
<1>4. PICK g \in Folds(Cardinality(S)) : TRUE
  BY <1>3, FS_CardinalityType
<1>5. Small(Cardinality(S)) = SUBSET S
  BY <1>2
<1>6. g = [s \in SUBSET S |-> FoldStep(f, g, s)]
  BY <1>4, <1>5
<1>7. Fold(f, S) = [s \in SUBSET S |-> FoldStep(f, Fold(f, S), s)]
  BY <1>6 DEF Fold
<1>8. \A s \in SUBSET S : Fold(f, S)[s] = FoldStep(f, Fold(f, S), s)
  BY <1>7
<1>9. \A s \in SUBSET S : Fold(f, S)[s] \in Nat
  <2> DEFINE Holding == {s \in SUBSET S : Fold(f, S)[s] \in Nat}
  <2>1. ASSUME NEW s \in SUBSET S, \A x \in s : s \ {x} \in Holding PROVE s \in Holding
    <3>1. CASE s = {}
      BY <1>8, <3>1 DEF FoldStep
    <3>2. CASE s # {}
      <4>1. Pick(s) \in s /\ f[Pick(s)] \in Nat
        BY <3>2, PickIs
      <4>2. Fold(f, S)[s \ {Pick(s)}] \in Nat
        BY <2>1, <4>1
      <4> QED
        BY <1>8, <3>2, <4>1, <4>2 DEF FoldStep
    <3> QED
      BY <3>1, <3>2
  <2>2. SUBSET S \subseteq Holding
    <3> HIDE DEF Holding
    <3> QED
      BY <2>1, SubsetInduction
  <2> QED
    BY <2>2
<1>10. SumOf(f, S) = Fold(f, S)[S]
  BY DEF SumOf, Fold, FoldStep, Pick, MapThenSumSet, MapThenFoldSet
<1> QED
  BY <1>7, <1>8, <1>9, <1>10

\* The sum over a subset is what the fold over the whole set says of it.
LEMMA FoldOfSubset ==
    ASSUME NEW S, IsFiniteSet(S), NEW f, \A x \in S : f[x] \in Nat, NEW T \in SUBSET S
    PROVE  SumOf(f, T) = Fold(f, S)[T]
<1> DEFINE Holding == {s \in SUBSET T : Fold(f, T)[s] = Fold(f, S)[s]}
<1>1. IsFiniteSet(T) /\ \A x \in T : f[x] \in Nat
  BY FS_Subset
<1>2. /\ \A s \in SUBSET T : Fold(f, T)[s] = FoldStep(f, Fold(f, T), s)
      /\ SumOf(f, T) = Fold(f, T)[T]
      /\ \A s \in SUBSET S : Fold(f, S)[s] = FoldStep(f, Fold(f, S), s)
  BY <1>1, FoldIs
<1>3. ASSUME NEW s \in SUBSET T, \A x \in s : s \ {x} \in Holding PROVE s \in Holding
  <2>1. s # {} => Pick(s) \in s
    BY PickIs
  <2> QED
    BY <1>2, <1>3, <2>1 DEF FoldStep
<1>4. SUBSET T \subseteq Holding
  <2> HIDE DEF Holding
  <2> QED
    BY <1>1, <1>3, SubsetInduction
<1> QED
  BY <1>2, <1>4

\* A sum of naturals is a natural.
LEMMA SumIsNat ==
    ASSUME NEW S, IsFiniteSet(S), NEW f, \A x \in S : f[x] \in Nat
    PROVE  SumOf(f, S) \in Nat
<1>1. Fold(f, S) \in [SUBSET S -> Nat] /\ SumOf(f, S) = Fold(f, S)[S]
  BY FoldIs
<1>2. S \in SUBSET S
  OBVIOUS
<1> QED
  BY <1>1, <1>2

\* The sum over no index is 0.
LEMMA SumOfNone == ASSUME NEW f PROVE SumOf(f, {}) = 0
<1>1. IsFiniteSet({}) /\ \A x \in {} : f[x] \in Nat
  BY FS_EmptySet
<1> QED
  BY <1>1, FoldIs DEF FoldStep

\* Any element may be taken out first.
LEMMA SumTakeOut ==
    ASSUME NEW S, IsFiniteSet(S), NEW f, \A x \in S : f[x] \in Nat, NEW x \in S
    PROVE  SumOf(f, S) = f[x] + SumOf(f, S \ {x})
<1> DEFINE F == Fold(f, S)
           Holding == {s \in SUBSET S : \A y \in s : F[s] = f[y] + F[s \ {y}]}
<1>1. F \in [SUBSET S -> Nat] /\ \A s \in SUBSET S : F[s] = FoldStep(f, F, s)
  BY FoldIs
<1>2. ASSUME NEW s \in SUBSET S, \A y \in s : s \ {y} \in Holding PROVE s \in Holding
  <2> SUFFICES ASSUME NEW y \in s PROVE F[s] = f[y] + F[s \ {y}]
    OBVIOUS
  <2> DEFINE z == Pick(s)
  <2>1. z \in s
    BY PickIs
  <2>2. F[s] = f[z] + F[s \ {z}]
    BY <1>1, <2>1 DEF FoldStep
  <2> HIDE DEF z, F
  <2>3. CASE y = z
    BY <2>2, <2>3
  <2>4. CASE y # z
    <3>1. PICK rest \in SUBSET S : rest = (s \ {z}) \ {y} /\ rest = (s \ {y}) \ {z}
      OBVIOUS
    <3>2. F[s \ {z}] = f[y] + F[rest]
      BY <1>2, <2>1, <2>4, <3>1
    <3>3. F[s \ {y}] = f[z] + F[rest]
      BY <1>2, <2>1, <2>4, <3>1
    <3>4. f[y] \in Nat /\ f[z] \in Nat /\ F[rest] \in Nat
      BY <1>1, <2>1, <3>1
    <3>5. f[z] + (f[y] + F[rest]) = f[y] + (f[z] + F[rest])
      BY <3>4
    <3> QED
      BY <2>2, <3>2, <3>3, <3>5
  <2> QED
    BY <2>3, <2>4
<1>3. SUBSET S \subseteq Holding
  <2> HIDE DEF Holding
  <2> QED
    BY <1>2, SubsetInduction
<1>4. F[S] = f[x] + F[S \ {x}]
  BY <1>3
<1> QED
  BY <1>4, FoldOfSubset

\* Two parts of a set that have nothing in common.
LEMMA SumOfUnion ==
    ASSUME NEW S, IsFiniteSet(S), NEW T, IsFiniteSet(T), S \cap T = {},
           NEW f, \A x \in S \cup T : f[x] \in Nat
    PROVE  SumOf(f, S \cup T) = SumOf(f, S) + SumOf(f, T)
<1> DEFINE Holding == {s \in SUBSET S : SumOf(f, s \cup T) = SumOf(f, s) + SumOf(f, T)}
<1>1. \A s \in SUBSET S : /\ IsFiniteSet(s) /\ IsFiniteSet(s \cup T)
                          /\ SumOf(f, s) \in Nat /\ SumOf(f, s \cup T) \in Nat
  <2> TAKE s \in SUBSET S
  <2>1. IsFiniteSet(s) /\ IsFiniteSet(s \cup T)
    BY FS_Subset, FS_Union
  <2> QED
    BY <2>1, SumIsNat
<1>2. SumOf(f, T) \in Nat
  BY SumIsNat
<1>3. ASSUME NEW s \in SUBSET S, \A x \in s : s \ {x} \in Holding PROVE s \in Holding
  <2>1. CASE s = {}
    <3>1. s \cup T = T /\ SumOf(f, s) = 0
      BY <2>1, SumOfNone
    <3> QED
      BY <1>2, <3>1
  <2>2. CASE s # {}
    <3>1. PICK x \in s : TRUE
      BY <2>2
    <3>2. SumOf(f, s) = f[x] + SumOf(f, s \ {x})
      BY <1>1, SumTakeOut
    <3>3. x \in s \cup T /\ \A y \in s \cup T : f[y] \in Nat
      OBVIOUS
    <3>4. SumOf(f, s \cup T) = f[x] + SumOf(f, (s \cup T) \ {x})
      BY <1>1, <3>3, SumTakeOut
    <3>5. (s \cup T) \ {x} = (s \ {x}) \cup T /\ s \ {x} \in SUBSET S /\ f[x] \in Nat
      OBVIOUS
    <3>6. SumOf(f, (s \ {x}) \cup T) = SumOf(f, s \ {x}) + SumOf(f, T)
      BY <1>3
    <3>7. SumOf(f, s \ {x}) \in Nat
      BY <1>1, <3>5
    <3> HIDE DEF Holding
    <3>8. SumOf(f, s \cup T) = f[x] + (SumOf(f, s \ {x}) + SumOf(f, T))
      BY <3>4, <3>5, <3>6
    <3>9. \A a, b, d \in Nat : a + (b + d) = (a + b) + d
      OBVIOUS
    <3>10. SumOf(f, s \cup T) = SumOf(f, s) + SumOf(f, T)
      BY <1>2, <3>2, <3>5, <3>7, <3>8, <3>9
    <3> QED
      BY <3>10 DEF Holding
  <2> QED
    BY <2>1, <2>2
<1>4. SUBSET S \subseteq Holding
  <2> HIDE DEF Holding
  <2> QED
    BY <1>3, SubsetInduction
<1> QED
  BY <1>4

\* What is nowhere more is not more in sum.
LEMMA SumGrows ==
    ASSUME NEW S, IsFiniteSet(S), NEW f, NEW g,
           \A x \in S : f[x] \in Nat /\ g[x] \in Nat /\ f[x] <= g[x]
    PROVE  SumOf(f, S) <= SumOf(g, S)
<1> DEFINE Holding == {s \in SUBSET S : SumOf(f, s) <= SumOf(g, s)}
<1>1. \A s \in SUBSET S : IsFiniteSet(s) /\ SumOf(f, s) \in Nat /\ SumOf(g, s) \in Nat
  <2> TAKE s \in SUBSET S
  <2>1. IsFiniteSet(s)
    BY FS_Subset
  <2> QED
    BY <2>1, SumIsNat
<1>2. ASSUME NEW s \in SUBSET S, \A x \in s : s \ {x} \in Holding PROVE s \in Holding
  <2>1. CASE s = {}
    BY <2>1, SumOfNone
  <2>2. CASE s # {}
    <3>1. PICK x \in s : TRUE
      BY <2>2
    <3>2. SumOf(f, s) = f[x] + SumOf(f, s \ {x}) /\ SumOf(g, s) = g[x] + SumOf(g, s \ {x})
      BY <1>1, SumTakeOut
    <3>3. SumOf(f, s \ {x}) <= SumOf(g, s \ {x})
      BY <1>2
    <3>4. SumOf(f, s \ {x}) \in Nat /\ SumOf(g, s \ {x}) \in Nat
      BY <1>1
    <3> HIDE DEF Holding
    <3>5. SumOf(f, s) <= SumOf(g, s)
      BY <3>2, <3>3, <3>4
    <3> QED
      BY <3>5 DEF Holding
  <2> QED
    BY <2>1, <2>2
<1>3. SUBSET S \subseteq Holding
  <2> HIDE DEF Holding
  <2> QED
    BY <1>2, SubsetInduction
<1> QED
  BY <1>3

\* A sum does not depend on what its terms are indexed by.
LEMMA SumReindexed ==
    ASSUME NEW S, IsFiniteSet(S), NEW c, NEW f, NEW g,
           \A x, y \in S : c[x] = c[y] => x = y,
           \A x \in S : f[c[x]] = g[x] /\ g[x] \in Nat
    PROVE  SumOf(f, {c[x] : x \in S}) = SumOf(g, S)
<1> DEFINE Im(s) == {c[x] : x \in s}
           Holding == {s \in SUBSET S : SumOf(f, Im(s)) = SumOf(g, s)}
<1>1. \A s \in SUBSET S : IsFiniteSet(s) /\ IsFiniteSet(Im(s))
  <2> TAKE s \in SUBSET S
  <2>1. IsFiniteSet(s)
    BY FS_Subset
  <2> DEFINE h == [x \in s |-> c[x]]
  <2>2. h \in Surjection(s, Im(s))
    BY DEF Surjection
  <2> QED
    BY <2>1, <2>2, FS_Surjection
<1>2. \A s \in SUBSET S : \A y \in Im(s) : f[y] \in Nat
  OBVIOUS
<1>3. ASSUME NEW s \in SUBSET S, \A x \in s : s \ {x} \in Holding PROVE s \in Holding
  <2>1. CASE s = {}
    <3>1. Im(s) = {}
      BY <2>1
    <3> QED
      BY <2>1, <3>1, SumOfNone
  <2>2. CASE s # {}
    <3>1. PICK x \in s : TRUE
      BY <2>2
    <3>2. SumOf(g, s) = g[x] + SumOf(g, s \ {x})
      BY <1>1, SumTakeOut
    <3>3. c[x] \in Im(s) /\ Im(s) \ {c[x]} = Im(s \ {x})
      OBVIOUS
    <3>4. SumOf(f, Im(s)) = f[c[x]] + SumOf(f, Im(s) \ {c[x]})
      <4> HIDE DEF Im
      <4> QED
        BY <1>1, <1>2, <3>3, SumTakeOut
    <3>5. SumOf(f, Im(s \ {x})) = SumOf(g, s \ {x})
      BY <1>3
    <3>6. f[c[x]] = g[x]
      OBVIOUS
    <3>7. SumOf(f, Im(s)) = SumOf(g, s)
      <4> HIDE DEF Im, Holding
      <4> QED
        BY <3>2, <3>3, <3>4, <3>5, <3>6
    <3> QED
      BY <3>7
  <2> QED
    BY <2>1, <2>2
<1>4. SUBSET S \subseteq Holding
  <2> HIDE DEF Holding
  <2> QED
    BY <1>3, SubsetInduction
<1> QED
  BY <1>4

\* The sum of the sums of the parts.
LEMMA SumOfParts ==
    ASSUME NEW S, IsFiniteSet(S), NEW K, IsFiniteSet(K), NEW label, NEW f, NEW part,
           \A x \in S : f[x] \in Nat /\ label[x] \in K,
           \A k \in K : part[k] = SumOf(f, {x \in S : label[x] = k})
    PROVE  SumOf(part, K) = SumOf(f, S)
<1> DEFINE Of(ks) == {x \in S : label[x] \in ks}
           Holding == {ks \in SUBSET K : SumOf(part, ks) = SumOf(f, Of(ks))}
<1>1. \A ks \in SUBSET K : IsFiniteSet(ks) /\ IsFiniteSet(Of(ks)) /\ \A x \in Of(ks) : f[x] \in Nat
  BY FS_Subset
<1>2. \A k \in K : Of({k}) = {x \in S : label[x] = k} /\ part[k] = SumOf(f, Of({k}))
  OBVIOUS
<1>3. \A ks \in SUBSET K : SumOf(f, Of(ks)) \in Nat
  <2> HIDE DEF Of
  <2> QED
    BY <1>1, SumIsNat
<1>4. \A k \in K : part[k] \in Nat
  <2> TAKE k \in K
  <2>1. {k} \in SUBSET K
    OBVIOUS
  <2> HIDE DEF Of
  <2> QED
    BY <1>2, <1>3, <2>1
<1>5. ASSUME NEW ks \in SUBSET K, \A k \in ks : ks \ {k} \in Holding PROVE ks \in Holding
  <2>1. CASE ks = {}
    <3>1. Of(ks) = {}
      BY <2>1
    <3> QED
      BY <2>1, <3>1, SumOfNone
  <2>2. CASE ks # {}
    <3>1. PICK k \in ks : TRUE
      BY <2>2
    <3>2. SumOf(part, ks) = part[k] + SumOf(part, ks \ {k})
      <4> HIDE DEF Of
      <4> QED
        BY <1>1, <1>4, SumTakeOut
    <3>3. /\ Of(ks) = Of({k}) \cup Of(ks \ {k}) /\ Of({k}) \cap Of(ks \ {k}) = {}
          /\ {k} \in SUBSET K /\ ks \ {k} \in SUBSET K
          /\ \A x \in Of({k}) \cup Of(ks \ {k}) : f[x] \in Nat
      OBVIOUS
    <3>4. SumOf(f, Of({k}) \cup Of(ks \ {k})) = SumOf(f, Of({k})) + SumOf(f, Of(ks \ {k}))
      <4>1. IsFiniteSet(Of({k})) /\ IsFiniteSet(Of(ks \ {k}))
        BY <1>1, <3>3
      <4> HIDE DEF Of
      <4> QED
        BY <4>1, <3>3, SumOfUnion
    <3>5. SumOf(part, ks \ {k}) = SumOf(f, Of(ks \ {k}))
      BY <1>5
    <3>6. SumOf(part, ks) = SumOf(f, Of(ks))
      <4> HIDE DEF Of, Holding
      <4> QED
        BY <1>2, <3>2, <3>3, <3>4, <3>5
    <3> QED
      BY <3>6
  <2> QED
    BY <2>1, <2>2
<1>6. SUBSET K \subseteq Holding
  <2> HIDE DEF Holding
  <2> QED
    BY <1>5, SubsetInduction
<1>7. Of(K) = S
  OBVIOUS
<1> QED
  BY <1>6, <1>7

\* Functions that agree on a set have the same sum over it.
LEMMA SumAgrees ==
    ASSUME NEW S, IsFiniteSet(S), NEW f, NEW g, \A x \in S : f[x] \in Nat /\ f[x] = g[x]
    PROVE  SumOf(f, S) = SumOf(g, S)
<1>1. SumOf(f, S) <= SumOf(g, S) /\ SumOf(g, S) <= SumOf(f, S)
  BY SumGrows
<1>2. SumOf(f, S) \in Nat /\ SumOf(g, S) \in Nat
  BY SumIsNat
<1> QED
  BY <1>1, <1>2

-----------------------------------------------------------------------------
(***************************************************************************)
(* Quotes and the router.                                                  *)
(***************************************************************************)
Failures ==
    {"MERCHANT_UNAUTHORIZED", "MERCHANT_KEY_UNAVAILABLE", "QUOTE_EXPIRED", "OUT_OF_STOCK",
     "SPEND_CAP_EXCEEDED", "SKU_UNAVAILABLE"}

Quote == [merchant : Merchants, skus : SUBSET Skus, total : Nat, expires : Nat,
          status : Failures \cup {"ELIGIBLE"}]

CatalogType == catalog \in [Skus -> CatalogRow] /\ clock \in Nat

\* What a choice of rows costs is a natural number.
LEMMA CartTotalIsNat ==
    ASSUME CatalogType, NEW basket_ \in [Products -> Nat], NEW choice \in [Requested(basket_) -> Skus]
    PROVE  CartTotal(choice, basket_) \in Nat
<1> DEFINE S == Requested(basket_)
           h == [p \in S |-> catalog[choice[p]].price * basket_[p]]
<1>1. S \subseteq Products /\ IsFiniteSet(S)
  BY FS_Subset, ProductsAssumption DEF Requested
<1>2. \A p \in S : catalog[choice[p]].price * basket_[p] \in Nat
  <2> TAKE p \in S
  <2>1. catalog[choice[p]] \in CatalogRow
    BY DEF CatalogType
  <2>2. catalog[choice[p]].price \in Nat /\ basket_[p] \in Nat
    BY <2>1, <1>1, PricesAssumption DEF CatalogRow
  <2> QED
    BY <2>2
<1>3. h \in [S -> Nat]
  BY <1>2
<1>4. SumOf(h, S) \in Nat
  <2> HIDE DEF h, S
  <2> QED
    BY <1>1, <1>3, SumIsNat
<1>5. MapThenSumSet(LAMBDA p : catalog[choice[p]].price * basket_[p], S) = SumOf(h, S)
  BY DEF SumOf, MapThenSumSet, MapThenFoldSet
<1> QED
  BY <1>4, <1>5 DEF CartTotal

\* Whatever a merchant answers is a quote of that merchant.
LEMMA SolicitedAreQuotes ==
    ASSUME CatalogType, NEW m \in Merchants, NEW b \in [Products -> Nat], NEW q \in SolicitedQuotes(m, b)
    PROVE  q \in Quote /\ q.merchant = m
<1>1. CASE \E failure \in Failures : q = FailedQuote(m, failure)
  BY <1>1 DEF FailedQuote, Quote
<1>2. CASE \E choice \in [Requested(b) -> Skus] : q = SignedQuote(m, choice, b)
  <2>1. PICK choice \in [Requested(b) -> Skus] : q = SignedQuote(m, choice, b)
    BY <1>2
  <2>2. CartTotal(choice, b) \in Nat
    BY CartTotalIsNat
  <2>3. clock + QuoteTTL \in Nat
    BY TTLAssumption DEF CatalogType
  <2>4. {choice[p] : p \in Requested(b)} \subseteq Skus
    OBVIOUS
  <2>5. q = [merchant |-> m, skus |-> {choice[p] : p \in Requested(b)},
             total |-> CartTotal(choice, b), expires |-> clock + QuoteTTL, status |-> "ELIGIBLE"]
    BY <2>1 DEF SignedQuote, SignedCart
  <2>6. \A sold \in SUBSET Skus, total, end \in Nat :
           [merchant |-> m, skus |-> sold, total |-> total, expires |-> end,
            status |-> "ELIGIBLE"] \in Quote
    BY DEF Quote
  <2>7. q \in Quote
    BY ONLY <2>2, <2>3, <2>4, <2>5, <2>6
  <2> QED
    BY <2>5, <2>7
<1>3. \/ \E failure \in Failures : q = FailedQuote(m, failure)
      \/ \E choice \in [Requested(b) -> Skus] : q = SignedQuote(m, choice, b)
  <2>1. CASE m \notin SigningKeys
    <3>1. q = FailedQuote(m, "MERCHANT_KEY_UNAVAILABLE")
      BY <2>1 DEF SolicitedQuotes
    <3> QED
      BY <3>1 DEF Failures
  <2>2. CASE m \in SigningKeys /\ \E p \in Requested(b) : Offers(m, p) = {}
    <3>1. q = FailedQuote(m, "SKU_UNAVAILABLE")
      BY <2>2 DEF SolicitedQuotes
    <3> QED
      BY <3>1 DEF Failures
  <2>3. CASE m \in SigningKeys /\ ~ \E p \in Requested(b) : Offers(m, p) = {}
    BY <2>3 DEF SolicitedQuotes
  <2> QED
    BY <2>1, <2>2, <2>3
<1> QED
  BY <1>1, <1>2, <1>3

\* A quote is eligible when it passes every gate.
LEMMA EligibleMeans ==
    ASSUME NEW q
    PROVE  Eligible(q) <=> /\ q.status = "ELIGIBLE"
                           /\ q.merchant \in ToSet(Allowlist)
                           /\ q.merchant \in TrustedKeys
                           /\ clock < q.expires
                           /\ \A s \in q.skus : catalog[s].inStock
                           /\ q.total <= SpendCap
<1>1. DOMAIN Gates(q) = 1 .. 6
  BY DEF Gates
<1>2. Eligible(q) <=> \A k \in 1 .. 6 : Gates(q)[k].passed
  BY <1>1 DEF Eligible, FailedGates
<1>3. /\ Gates(q)[1].passed = (q.status = "ELIGIBLE")
      /\ Gates(q)[2].passed = (q.merchant \in ToSet(Allowlist))
      /\ Gates(q)[3].passed = (q.merchant \in TrustedKeys)
      /\ Gates(q)[4].passed = (clock < q.expires)
      /\ Gates(q)[5].passed = (\A s \in q.skus : catalog[s].inStock)
      /\ Gates(q)[6].passed = (q.total <= SpendCap)
  BY DEF Gates
<1>4. (\A k \in 1 .. 6 : Gates(q)[k].passed) <=>
          /\ Gates(q)[1].passed /\ Gates(q)[2].passed /\ Gates(q)[3].passed
          /\ Gates(q)[4].passed /\ Gates(q)[5].passed /\ Gates(q)[6].passed
  <2>1. 1 .. 6 = {1, 2, 3, 4, 5, 6}
    OBVIOUS
  <2> QED
    BY <2>1
<1> QED
  BY <1>2, <1>3, <1>4

\* Classification changes nothing of an eligible quote, and no other quote comes
\* out of it as eligible.
LEMMA ClassifiedMeans ==
    ASSUME NEW q \in Quote
    PROVE  /\ Classified(q) \in Quote
           /\ Classified(q).merchant = q.merchant
           /\ Eligible(q) => Classified(q) = q
           /\ ~Eligible(q) => Classified(q).status # "ELIGIBLE"
<1>1. CASE Eligible(q)
  <2>1. q.status = "ELIGIBLE"
    BY <1>1, EligibleMeans
  <2>2. Classified(q) = [q EXCEPT !.status = "ELIGIBLE"]
    BY <1>1 DEF Classified
  <2>3. Classified(q) = q
    BY <2>1, <2>2 DEF Quote
  <2> QED
    BY <1>1, <2>3
<1>2. CASE ~Eligible(q)
  <2> DEFINE k == Min(FailedGates(q))
  <2>1. FailedGates(q) \in SUBSET Nat /\ FailedGates(q) # {}
    BY <1>2 DEF FailedGates, Eligible, Gates
  <2>2. \E n \in FailedGates(q) : \A m \in FailedGates(q) : n <= m
    BY <2>1, NatMin
  <2>3. k \in FailedGates(q)
    BY <2>2 DEF Min
  <2> HIDE DEF k
  <2>4. k \in 1 .. 6 /\ ~Gates(q)[k].passed
    BY <2>3 DEF FailedGates, Gates
  <2>5. Gates(q)[k].failure # "ELIGIBLE" /\ Gates(q)[k].failure \in Failures
    <3>1. CASE k = 1
      BY <3>1, <2>4 DEF Gates, Quote
    <3>2. CASE k # 1
      <4>1. k \in {2, 3, 4, 5, 6}
        BY <3>2, <2>4
      <4>2. /\ Gates(q)[2].failure = "MERCHANT_UNAUTHORIZED"
            /\ Gates(q)[3].failure = "MERCHANT_KEY_UNAVAILABLE"
            /\ Gates(q)[4].failure = "QUOTE_EXPIRED"
            /\ Gates(q)[5].failure = "OUT_OF_STOCK"
            /\ Gates(q)[6].failure = "SPEND_CAP_EXCEEDED"
        BY DEF Gates
      <4>3. \A j \in {2, 3, 4, 5, 6} :
               Gates(q)[j].failure \in Failures /\ Gates(q)[j].failure # "ELIGIBLE"
        BY <4>2 DEF Failures
      <4> QED
        BY <4>1, <4>3
    <3> QED
      BY <3>1, <3>2
  <2>6. Classified(q) = [q EXCEPT !.status = Gates(q)[k].failure]
    BY <1>2 DEF Classified, k
  <2> QED
    BY <1>2, <2>5, <2>6 DEF Quote
<1> QED
  BY <1>1, <1>2

\* Among quotes there is one that comes before all others, so the router finds
\* a quote whenever one of the pool is eligible.
LEMMA RouteMeans ==
    ASSUME NEW qs \in Seq(Quote), NEW pool \in SUBSET DOMAIN qs
    PROVE  /\ EligibleIn(qs, pool) = {} => Route(qs, pool) = 0
           /\ EligibleIn(qs, pool) # {} =>
                /\ Route(qs, pool) \in EligibleIn(qs, pool)
                /\ \A k \in EligibleIn(qs, pool) : Before(qs, Route(qs, pool), k)
                /\ Route(qs, pool) # 0
<1> DEFINE E == EligibleIn(qs, pool)
<1>1. CASE E = {}
  BY <1>1 DEF Route
<1>2. CASE E # {}
  <2>1. \A k \in E : k \in Nat \ {0} /\ qs[k].total \in Nat /\ qs[k].merchant \in Nat
    <3> TAKE k \in E
    <3>1. k \in DOMAIN qs /\ k \in 1 .. Len(qs)
      BY DEF EligibleIn
    <3>2. qs[k] \in Quote
      BY <3>1
    <3>3. qs[k].total \in Nat /\ qs[k].merchant \in Merchants
      BY <3>2 DEF Quote
    <3>4. k \in Nat \ {0}
      BY <3>1
    <3> QED
      BY <3>3, <3>4, MerchantsAssumption
  <2> HIDE DEF E
  <2> DEFINE Totals == {qs[k].total : k \in E}
  <2>2. PICK t \in Totals : \A u \in Totals : t <= u
    <3>1. Totals \in SUBSET Nat /\ Totals # {}
      BY <1>2, <2>1
    <3> HIDE DEF Totals
    <3> QED
      BY <3>1, NatMin
  <2> DEFINE Names == {qs[k].merchant : k \in {j \in E : qs[j].total = t}}
  <2>3. PICK n \in Names : \A u \in Names : n <= u
    <3>1. Names \in SUBSET Nat /\ Names # {}
      BY <2>1, <2>2
    <3> HIDE DEF Names
    <3> QED
      BY <3>1, NatMin
  <2> DEFINE Places == {k \in E : qs[k].total = t /\ qs[k].merchant = n}
  <2>4. PICK j \in Places : \A u \in Places : j <= u
    <3>1. Places \in SUBSET Nat /\ Places # {}
      BY <2>1, <2>3
    <3> HIDE DEF Places
    <3> QED
      BY <3>1, NatMin
  <2>5. \A k \in E : Before(qs, j, k)
    <3> TAKE k \in E
    <3>1. CASE qs[k].total # t
      <4>1. qs[k].total \in Totals /\ qs[j].total = t
        BY <2>4
      <4>2. t <= qs[k].total /\ t \in Nat /\ qs[k].total \in Nat
        BY <4>1, <2>1, <2>2
      <4> QED
        BY <3>1, <4>1, <4>2 DEF Before
    <3>2. CASE qs[k].total = t /\ qs[k].merchant # n
      <4>1. qs[k].merchant \in Names
        BY <3>2
      <4>2. n <= qs[k].merchant /\ n \in Nat /\ qs[k].merchant \in Nat
        BY <4>1, <2>1, <2>3
      <4> QED
        BY <3>2, <4>2, <2>4 DEF Before
    <3>3. CASE qs[k].total = t /\ qs[k].merchant = n
      BY <3>3, <2>4 DEF Before
    <3> QED
      BY <3>1, <3>2, <3>3
  <2>6. Route(qs, pool) = CHOOSE i \in E : \A k \in E : Before(qs, i, k)
    BY <1>2 DEF Route, E
  <2>7. Route(qs, pool) \in E /\ \A k \in E : Before(qs, Route(qs, pool), k)
    BY <2>4, <2>5, <2>6
  <2> QED
    BY <1>2, <2>1, <2>7 DEF E
<1> QED
  BY <1>1, <1>2

-----------------------------------------------------------------------------
(***************************************************************************)
(* The planner.                                                            *)
(***************************************************************************)
\* What every requested product costs in the row chosen for it.
Cost(choice, b) == [p \in Requested(b) |-> catalog[choice[p]].price * b[p]]

\* The total of a cart is the sum of the costs of its products.
LEMMA TotalIsSum ==
    ASSUME CatalogType, NEW b \in [Products -> Nat], NEW choice,
           \A p \in Requested(b) : choice[p] \in Skus
    PROVE  /\ Requested(b) \subseteq Products /\ IsFiniteSet(Requested(b))
           /\ \A p \in Requested(b) : Cost(choice, b)[p] \in Nat
           /\ CartTotal(choice, b) = SumOf(Cost(choice, b), Requested(b))
<1>1. Requested(b) \subseteq Products /\ IsFiniteSet(Requested(b))
  BY FS_Subset, ProductsAssumption DEF Requested
<1>2. \A p \in Requested(b) : Cost(choice, b)[p] \in Nat
  <2> TAKE p \in Requested(b)
  <2>1. catalog[choice[p]] \in CatalogRow
    BY DEF CatalogType
  <2>2. catalog[choice[p]].price \in Nat /\ b[p] \in Nat
    BY <1>1, <2>1, PricesAssumption DEF CatalogRow
  <2>3. Cost(choice, b)[p] = catalog[choice[p]].price * b[p]
    BY DEF Cost
  <2> QED
    BY <2>2, <2>3
<1>3. CartTotal(choice, b) = SumOf(Cost(choice, b), Requested(b))
  BY DEF CartTotal, Cost, SumOf, MapThenSumSet, MapThenFoldSet
<1> QED
  BY <1>1, <1>2, <1>3

\* A product with a candidate has a first one.
LEMMA BestIsFirst ==
    ASSUME CatalogType, NEW p, Candidates(p) # {}
    PROVE  /\ BestCandidate(p) \in Candidates(p)
           /\ \A t \in Candidates(p) : catalog[BestCandidate(p)].price <= catalog[t].price
<1> DEFINE C == Candidates(p)
<1>1. \A s \in C : catalog[s].price \in Nat /\ SellerOf[s] \in Nat /\ s \in Nat
  <2> TAKE s \in C
  <2>1. s \in Skus
    BY DEF Candidates
  <2>2. catalog[s] \in CatalogRow
    BY <2>1 DEF CatalogType
  <2> QED
    BY <2>1, <2>2, PricesAssumption, SkusAssumption, MerchantsAssumption DEF CatalogRow
<1> HIDE DEF C
<1> DEFINE Costs == {catalog[s].price : s \in C}
<1>2. PICK cost \in Costs : \A n \in Costs : cost <= n
  <2>1. Costs \in SUBSET Nat /\ Costs # {}
    BY <1>1 DEF C
  <2> HIDE DEF Costs
  <2> QED
    BY <2>1, NatMin
<1> DEFINE Names == {SellerOf[s] : s \in {t \in C : catalog[t].price = cost}}
<1>3. PICK name \in Names : \A n \in Names : name <= n
  <2>1. Names \in SUBSET Nat /\ Names # {}
    BY <1>1, <1>2
  <2> HIDE DEF Names
  <2> QED
    BY <2>1, NatMin
<1> DEFINE Rows == {s \in C : catalog[s].price = cost /\ SellerOf[s] = name}
<1>4. PICK best \in Rows : \A n \in Rows : best <= n
  <2>1. Rows \in SUBSET Nat /\ Rows # {}
    BY <1>1, <1>3
  <2> HIDE DEF Rows
  <2> QED
    BY <2>1, NatMin
<1>5. \A t \in C : Preferred(best, t)
  <2> TAKE t \in C
  <2>1. best \in C /\ catalog[best].price = cost /\ SellerOf[best] = name
    BY <1>4
  <2>2. catalog[t].price \in Costs
    OBVIOUS
  <2>3. cost <= catalog[t].price /\ cost \in Nat /\ catalog[t].price \in Nat
    BY <1>1, <1>2, <2>2
  <2>4. CASE catalog[t].price # cost
    BY <2>1, <2>3, <2>4 DEF Preferred
  <2>5. CASE catalog[t].price = cost
    <3>1. SellerOf[t] \in Names
      BY <2>5
    <3>2. name <= SellerOf[t] /\ name \in Nat /\ SellerOf[t] \in Nat
      BY <1>1, <1>3, <3>1
    <3>3. CASE SellerOf[t] # name
      BY <2>1, <2>5, <3>2, <3>3 DEF Preferred
    <3>4. CASE SellerOf[t] = name
      <4>1. best <= t
        BY <1>4, <2>5, <3>4
      <4> QED
        BY <2>1, <2>5, <3>4, <4>1 DEF Preferred
    <3> QED
      BY <3>3, <3>4
  <2> QED
    BY <2>4, <2>5
<1>6. BestCandidate(p) \in C /\ \A t \in C : Preferred(BestCandidate(p), t)
  BY <1>4, <1>5 DEF BestCandidate, C
<1>7. \A t \in C : catalog[BestCandidate(p)].price <= catalog[t].price
  BY <1>1, <1>6 DEF Preferred
<1> QED
  BY <1>6, <1>7 DEF C

\* A number of pieces at a lower price costs no more.
LEMMA TimesGrows == \A low, high, n \in Nat : low <= high => low * n <= high * n
<1> SUFFICES ASSUME NEW low \in Nat, NEW high \in Nat, NEW n \in Nat, low <= high
             PROVE  low * n <= high * n
  OBVIOUS
<1>1. PICK more \in Nat : high = low + more
  <2>1. high - low \in Nat /\ high = low + (high - low)
    OBVIOUS
  <2> QED
    BY <2>1
<1>2. high * n = low * n + more * n /\ low * n \in Nat /\ more * n \in Nat
  BY <1>1
<1> QED
  BY <1>2

\* No choice of candidates costs less than the planner's.
LEMMA AllocationIsCheapest ==
    ASSUME CatalogType, NEW b \in [Products -> Nat],
           NEW c, \A p \in Requested(b) : c[p] \in Candidates(p)
    PROVE  /\ \A p \in Requested(b) : Allocation(b)[p] \in Candidates(p)
           /\ CartTotal(Allocation(b), b) <= CartTotal(c, b)
<1> DEFINE R == Requested(b)
           a == Allocation(b)
<1>1. \A p \in R : /\ a[p] \in Candidates(p)
                   /\ catalog[a[p]].price <= catalog[c[p]].price
  <2> TAKE p \in R
  <2>1. a[p] = BestCandidate(p) /\ c[p] \in Candidates(p)
    BY DEF Allocation
  <2> QED
    BY <2>1, BestIsFirst
<1>2. \A p \in R : a[p] \in Skus /\ c[p] \in Skus
  BY <1>1 DEF Candidates
<1> HIDE DEF a, R
<1>3. /\ R \subseteq Products /\ IsFiniteSet(R)
      /\ \A p \in R : Cost(a, b)[p] \in Nat /\ Cost(c, b)[p] \in Nat
      /\ CartTotal(a, b) = SumOf(Cost(a, b), R)
      /\ CartTotal(c, b) = SumOf(Cost(c, b), R)
  BY <1>2, TotalIsSum DEF R
<1>4. \A p \in R : Cost(a, b)[p] <= Cost(c, b)[p]
  <2> TAKE p \in R
  <2>1. /\ Cost(a, b)[p] = catalog[a[p]].price * b[p]
        /\ Cost(c, b)[p] = catalog[c[p]].price * b[p]
    BY DEF Cost, R
  <2>2. catalog[a[p]] \in CatalogRow /\ catalog[c[p]] \in CatalogRow
    BY <1>2 DEF CatalogType
  <2>3. catalog[a[p]].price \in Nat /\ catalog[c[p]].price \in Nat /\ b[p] \in Nat
    BY <1>3, <2>2, PricesAssumption DEF CatalogRow
  <2> QED
    BY <1>1, <2>1, <2>3, TimesGrows
<1>5. SumOf(Cost(a, b), R) <= SumOf(Cost(c, b), R)
  BY <1>3, <1>4, SumGrows
<1> QED
  BY <1>1, <1>3, <1>5 DEF a, R

\* The part of a basket that is allocated to merchant m.
Part(b, m) ==
    [p \in Products |->
        IF p \in Requested(b) THEN IF SellerOf[Allocation(b)[p]] = m THEN b[p] ELSE 0 ELSE 0]

Sellers(b) == {SellerOf[Allocation(b)[p]] : p \in Requested(b)}

\* What a merchant's part of a basket asks for.
LEMMA PartIs ==
    ASSUME NEW b \in [Products -> Nat], NEW m
    PROVE  /\ Part(b, m) \in [Products -> Nat]
           /\ Requested(Part(b, m)) = {p \in Requested(b) : SellerOf[Allocation(b)[p]] = m}
           /\ \A p \in Requested(Part(b, m)) : Part(b, m)[p] = b[p]
BY DEF Part, Requested

\* The planner's legs are the carts the sellers sign for their parts.
LEMMA LegsArePartCarts ==
    ASSUME NEW b
    PROVE  PlannedLegs(b) = {SignedCart(m, Allocation(b), Part(b, m)) : m \in Sellers(b)}
BY DEF PlannedLegs, Part, Sellers

\* The totals of the legs add up to what the whole allocation costs.
LEMMA PlanTotalIs ==
    ASSUME CatalogType, NEW b \in [Products -> Nat],
           \A p \in Requested(b) : Allocation(b)[p] \in Candidates(p)
    PROVE  MapThenSumSet(LAMBDA leg : leg.total, PlannedLegs(b)) = CartTotal(Allocation(b), b)
<1> DEFINE R == Requested(b)
           a == Allocation(b)
           M == Sellers(b)
           label == [p \in R |-> SellerOf[a[p]]]
           part == [m \in M |-> CartTotal(a, Part(b, m))]
           cart == [m \in M |-> SignedCart(m, a, Part(b, m))]
           paid == [leg \in PlannedLegs(b) |-> leg.total]
           cost == Cost(a, b)
<1>1. \A p \in R : a[p] \in Skus
  BY DEF Candidates
<1>2. /\ R \subseteq Products /\ IsFiniteSet(R)
      /\ \A p \in R : cost[p] \in Nat
      /\ CartTotal(a, b) = SumOf(cost, R)
  BY <1>1, TotalIsSum
<1>3. IsFiniteSet(M)
  <2>1. M = {label[p] : p \in R}
    BY DEF Sellers
  <2>2. label \in Surjection(R, M)
    BY <2>1 DEF Surjection
  <2> HIDE DEF label, M, R
  <2> QED
    BY <1>2, <2>2, FS_Surjection
<1>4. \A m \in M : part[m] = SumOf(cost, {p \in R : label[p] = m}) /\ part[m] \in Nat
  <2> TAKE m \in M
  <2> DEFINE bm == Part(b, m)
             Rm == {p \in R : label[p] = m}
  <2>1. bm \in [Products -> Nat] /\ Requested(bm) = Rm /\ \A p \in Rm : bm[p] = b[p]
    BY PartIs
  <2> HIDE DEF bm
  <2>2. Rm \subseteq R /\ \A p \in Rm : cost[p] = Cost(a, bm)[p]
    BY <2>1 DEF Cost
  <2> HIDE DEF Rm, R, label, a, cost
  <2>3. /\ IsFiniteSet(Rm) /\ \A p \in Rm : Cost(a, bm)[p] \in Nat
        /\ CartTotal(a, bm) = SumOf(Cost(a, bm), Rm)
    BY <1>1, <2>1, <2>2, TotalIsSum
  <2>4. SumOf(cost, Rm) = SumOf(Cost(a, bm), Rm) /\ SumOf(cost, Rm) \in Nat
    BY <2>2, <2>3, SumAgrees, SumIsNat
  <2>5. part[m] = CartTotal(a, bm)
    BY DEF bm
  <2> HIDE DEF part
  <2> QED
    BY <2>3, <2>4, <2>5 DEF Rm
<1>5. SumOf(part, M) = SumOf(cost, R)
  <2>1. \A p \in R : label[p] \in M
    BY DEF Sellers
  <2> HIDE DEF part, cost, label, M, R
  <2> QED
    BY <1>2, <1>3, <1>4, <2>1, SumOfParts
<1>6. SumOf(paid, {cart[m] : m \in M}) = SumOf(part, M)
  <2>1. \A m, n \in M : cart[m] = cart[n] => m = n
    BY DEF SignedCart
  <2>2. \A m \in M : cart[m] \in PlannedLegs(b) /\ cart[m].total = part[m]
    BY LegsArePartCarts DEF SignedCart
  <2>3. \A m \in M : paid[cart[m]] = part[m] /\ part[m] \in Nat
    BY <1>4, <2>2
  <2> HIDE DEF paid, cart, part, M
  <2> QED
    BY <1>3, <2>1, <2>3, SumReindexed
<1>7. PlannedLegs(b) = {cart[m] : m \in M}
  BY LegsArePartCarts
<1>8. MapThenSumSet(LAMBDA leg : leg.total, PlannedLegs(b)) = SumOf(paid, PlannedLegs(b))
  BY DEF SumOf, MapThenSumSet, MapThenFoldSet
<1> HIDE DEF paid, cart, part, M, R, cost, a, label
<1> QED
  BY <1>2, <1>5, <1>6, <1>7, <1>8 DEF a

\* The plan for a basket: there is one exactly when every product has a candidate,
\* its total is that of its allocation, and nothing else costs less.
LEMMA PlanIs ==
    ASSUME CatalogType, NEW b \in Baskets
    PROVE  /\ PlanMixedBasket(b).feasible <=> \A p \in Requested(b) : Candidates(p) # {}
           /\ PlanMixedBasket(b).feasible \in BOOLEAN
           /\ PlanMixedBasket(b).feasible =>
                 /\ \A p \in Requested(b) : Allocation(b)[p] \in Candidates(p)
                 /\ PlanMixedBasket(b).total = CartTotal(Allocation(b), b)
                 /\ PlanMixedBasket(b).legs = PlannedLegs(b)
                 /\ PlanMixedBasket(b).total \in Nat
           /\ ~PlanMixedBasket(b).feasible => PlanMixedBasket(b).legs = {}
<1>1. b \in [Products -> Nat] /\ Requested(b) # {}
  BY BasketsAssumption
<1>2. Unavailable(b) = {} <=> \A p \in Requested(b) : Candidates(p) # {}
  BY DEF Unavailable
<1>3. CASE Unavailable(b) # {}
  <2>1. PlanMixedBasket(b) = NoPlanYet
    BY <1>3 DEF PlanMixedBasket
  <2> QED
    BY <1>2, <1>3, <2>1 DEF NoPlanYet
<1>4. CASE Unavailable(b) = {}
  <2>1. PlanMixedBasket(b) =
            [feasible |-> TRUE, legs |-> PlannedLegs(b),
             total |-> MapThenSumSet(LAMBDA leg : leg.total, PlannedLegs(b))]
    BY <1>1, <1>4 DEF PlanMixedBasket
  <2>2. \A p \in Requested(b) : Allocation(b)[p] \in Candidates(p)
    <3> TAKE p \in Requested(b)
    <3>1. Allocation(b)[p] = BestCandidate(p) /\ Candidates(p) # {}
      BY <1>2, <1>4 DEF Allocation
    <3> QED
      BY <3>1, BestIsFirst
  <2>3. MapThenSumSet(LAMBDA leg : leg.total, PlannedLegs(b)) = CartTotal(Allocation(b), b)
    BY <1>1, <2>2, PlanTotalIs
  <2>4. CartTotal(Allocation(b), b) \in Nat
    <3>1. \A p \in Requested(b) : Allocation(b)[p] \in Skus
      BY <2>2 DEF Candidates
    <3> QED
      BY <1>1, <3>1, TotalIsSum, SumIsNat
  <2>5. /\ PlanMixedBasket(b).feasible
        /\ PlanMixedBasket(b).legs = PlannedLegs(b)
        /\ PlanMixedBasket(b).total = CartTotal(Allocation(b), b)
    BY <2>1, <2>3
  <2> QED
    BY <1>2, <1>4, <2>2, <2>4, <2>5
<1> QED
  BY <1>3, <1>4

\* A cart of a plan, with the basket it was planned for: its rows are in stock,
\* and cost what the cart says.
Sound(rows, leg) ==
    /\ \A s \in leg.cart.skus : rows[s].inStock
    /\ AskedIn(rows, leg) = leg.cart.total

\* The carts of a plan, at the prices it was made with, are sound.
LEMMA PlannedCartsAreSound ==
    ASSUME CatalogType, NEW b \in Baskets, NEW leg,
           leg.cart \in PlanMixedBasket(b).legs, leg.basket = b
    PROVE  Sound(catalog, leg)
<1> DEFINE a == Allocation(b)
<1>1. /\ b \in [Products -> Nat]
      /\ \A p \in Requested(b) : a[p] \in Candidates(p)
      /\ leg.cart \in PlannedLegs(b)
  BY PlanIs, BasketsAssumption
<1>2. PICK m \in Sellers(b) : leg.cart = SignedCart(m, a, Part(b, m))
  BY <1>1, LegsArePartCarts
<1> DEFINE bm == Part(b, m)
           S == Requested(bm)
           price == [s \in leg.cart.skus |-> catalog[s].price * b[ProductOf[s]]]
<1>3. bm \in [Products -> Nat] /\ S \subseteq Requested(b) /\ \A p \in S : bm[p] = b[p]
  BY <1>1, PartIs
<1>4. \A p \in S : a[p] \in Candidates(p) /\ a[p] \in Skus /\ ProductOf[a[p]] = p
                   /\ catalog[a[p]].inStock
  BY <1>1, <1>3 DEF Candidates
<1>5. leg.cart.skus = {a[p] : p \in S} /\ leg.cart.total = CartTotal(a, bm)
  BY <1>2 DEF SignedCart
<1>6. /\ IsFiniteSet(S)
      /\ \A p \in S : Cost(a, bm)[p] \in Nat
      /\ CartTotal(a, bm) = SumOf(Cost(a, bm), S)
  BY <1>3, <1>4, TotalIsSum
<1>7. \A p \in S : price[a[p]] = Cost(a, bm)[p]
  <2> TAKE p \in S
  <2>1. a[p] \in leg.cart.skus /\ ProductOf[a[p]] = p
    BY <1>4, <1>5
  <2>2. price[a[p]] = catalog[a[p]].price * b[p]
    BY <2>1
  <2>3. Cost(a, bm)[p] = catalog[a[p]].price * bm[p]
    BY DEF Cost
  <2> QED
    BY <1>3, <2>2, <2>3
<1>8. \A p, q \in S : a[p] = a[q] => p = q
  BY <1>4
<1>9. AskedIn(catalog, leg) = SumOf(price, leg.cart.skus)
  BY DEF AskedIn, SumOf, MapThenSumSet, MapThenFoldSet
<1> HIDE DEF a, bm, S, price
<1>10. SumOf(price, {a[p] : p \in S}) = SumOf(Cost(a, bm), S)
  BY <1>6, <1>7, <1>8, SumReindexed
<1>11. AskedIn(catalog, leg) = leg.cart.total
  BY <1>5, <1>6, <1>9, <1>10
<1>12. \A s \in leg.cart.skus : catalog[s].inStock
  BY <1>4, <1>5
<1> QED
  BY <1>11, <1>12 DEF Sound

-----------------------------------------------------------------------------
(***************************************************************************)
(* The request. While it is routed, a merchant whose quotes have lasted is *)
(* eligible and was never dropped; when the orchestrator found no quote,   *)
(* no quote is left that could become eligible again.                      *)
(***************************************************************************)
Stages == {"idle", "collect", "route", "revalidate", "authorize", "done", "planned"}
Routing == {"route", "revalidate", "authorize"}
Chosen == {"revalidate", "authorize"}

RequestType ==
    /\ CatalogType
    /\ stage \in Stages
    /\ basket \in Baskets
    /\ quotes \in Seq(Quote)
    /\ Len(quotes) <= Len(Allowlist)
    /\ \A k \in DOMAIN quotes : quotes[k].merchant = Allowlist[k]
    /\ winner \in {0} \cup DOMAIN quotes
    /\ lasting \subseteq ToSet(Allowlist)

Collecting == stage = "collect" => lasting = {} /\ dropped = {} /\ winner = 0

LastingStay ==
    stage \in Routing =>
        /\ Len(quotes) = Len(Allowlist)
        /\ lasting \cap dropped = {}
        /\ \A m \in lasting : AllEligible(m)

RoutingAgrees ==
    stage \in Routing /\ agentStatus # "COMPLETED" =>
        \A k \in DOMAIN quotes : quotes[k].status # "ELIGIBLE"

WinnerIsFirst ==
    /\ stage = "route" => winner = 0
    /\ stage \in Chosen =>
          /\ winner # 0
          /\ agentStatus = "COMPLETED"
          /\ \A k \in DOMAIN quotes : quotes[k].merchant \in lasting => Before(quotes, winner, k)

RequestInv ==
    /\ RequestType
    /\ Collecting
    /\ LastingStay
    /\ RoutingAgrees
    /\ WinnerIsFirst
    /\ NoLastingQuoteIsMissed

\* Before any request there is nothing to tell of one.
LEMMA RequestInit == Init => RequestInv
<1> SUFFICES ASSUME Init PROVE RequestInv
  OBVIOUS
<1>1. stage = "idle" /\ quotes = <<>> /\ winner = 0 /\ lasting = {} /\ clock = 0
  BY DEF Init
<1>2. <<>> \in Seq(Quote) /\ Len(<<>>) = 0 /\ DOMAIN <<>> = {}
  OBVIOUS
<1>3. Len(Allowlist) \in Nat
  BY AllowlistAssumption
<1>4. RequestType
  BY <1>1, <1>2, <1>3 DEF Init, RequestType, CatalogType, Stages
<1> QED
  BY <1>1, <1>4 DEF RequestInv, Collecting, LastingStay, RoutingAgrees, WinnerIsFirst, Routing,
     Chosen, NoLastingQuoteIsMissed

\* What the world does to a request: quotes may stop to be eligible, and the
\* history notes it.
LEMMA WorldStep ==
    ASSUME RequestInv, World, CatalogType'
    PROVE  RequestInv'
<1>1. UNCHANGED <<stage, basket, quotes, agentStatus, suggestion, dropped, winner, status, ordered,
                  plan>>
  BY DEF World
<1>2. lasting' = IF stage \in Resting THEN lasting ELSE {m \in lasting : AllEligible(m)'}
  BY DEF World
<1>3. lasting' \subseteq lasting
  BY <1>2
<1>4. RequestType'
  BY <1>1, <1>3 DEF RequestInv, RequestType
<1>5. LastingStay'
  <2> SUFFICES ASSUME (stage \in Routing)'
               PROVE  (/\ Len(quotes) = Len(Allowlist)
                       /\ lasting \cap dropped = {}
                       /\ \A m \in lasting : AllEligible(m))'
    BY DEF LastingStay
  <2>1. stage \in Routing /\ stage \notin Resting
    BY <1>1 DEF Routing, Resting
  <2>2. \A m \in lasting' : AllEligible(m)'
    BY <1>2, <2>1
  <2> QED
    BY <1>1, <1>3, <2>1, <2>2 DEF RequestInv, LastingStay
<1>6. WinnerIsFirst'
  BY <1>1, <1>3 DEF RequestInv, WinnerIsFirst, Before
<1>7. NoLastingQuoteIsMissed' /\ Collecting' /\ RoutingAgrees'
  BY <1>1, <1>3 DEF RequestInv, NoLastingQuoteIsMissed, Collecting, RoutingAgrees
<1> QED
  BY <1>4, <1>5, <1>6, <1>7 DEF RequestInv

\* Nothing becomes or stops to be eligible while catalog and clock stand still.
LEMMA EligibleStays ==
    ASSUME UNCHANGED <<catalog, clock, quotes>>
    PROVE  \A m : AllEligible(m)' = AllEligible(m)
<1>1. \A k : Eligible(quotes[k])' = Eligible(quotes[k])
  BY DEF Eligible, FailedGates, Gates
<1> QED
  BY <1>1 DEF AllEligible

\* A step of the buyer agent, or of the world, keeps the requests' invariant.
LEMMA RequestSteps ==
    ASSUME RequestInv, Next
    PROVE  RequestInv'
<1> USE DEF RequestInv
<1>1. ASSUME NEW b \in Baskets, Deliberate(b) PROVE RequestInv'
  <2>1. <<>> \in Seq(Quote) /\ Len(<<>>) = 0 /\ DOMAIN <<>> = {} /\ Len(Allowlist) \in Nat
    BY AllowlistAssumption
  <2>2. RequestType'
    BY <1>1, <2>1 DEF Deliberate, RequestType, CatalogType, Stages
  <2> QED
    BY <1>1, <2>2 DEF Deliberate, Collecting, LastingStay, RoutingAgrees, WinnerIsFirst,
       Routing, Chosen, NoLastingQuoteIsMissed
<1>2. ASSUME NEW b \in Baskets, PlanAndEvaluateBasket(b) PROVE RequestInv'
  <2>1. <<>> \in Seq(Quote) /\ Len(<<>>) = 0 /\ DOMAIN <<>> = {} /\ Len(Allowlist) \in Nat
    BY AllowlistAssumption
  <2>2. RequestType'
    BY <1>2, <2>1 DEF PlanAndEvaluateBasket, RequestType, CatalogType, Stages
  <2> QED
    BY <1>2, <2>2 DEF PlanAndEvaluateBasket, Collecting, LastingStay, RoutingAgrees, WinnerIsFirst,
       Routing, Chosen, NoLastingQuoteIsMissed
<1>3. ASSUME CollectQuote PROVE RequestInv'
  <2> DEFINE k == Len(quotes) + 1
  <2>1. PICK q \in SolicitedQuotes(Allowlist[Len(quotes) + 1], basket) : quotes' = Append(quotes, q)
    BY <1>3 DEF CollectQuote
  <2>2. k \in DOMAIN Allowlist /\ Allowlist[k] \in Merchants
    BY <1>3, AllowlistAssumption DEF CollectQuote, RequestType
  <2>3. basket \in [Products -> Nat]
    BY BasketsAssumption DEF RequestType
  <2>4. q \in Quote /\ q.merchant = Allowlist[k]
    BY <2>1, <2>2, <2>3, SolicitedAreQuotes DEF RequestType
  <2>5. quotes' \in Seq(Quote) /\ Len(quotes') = k /\ k <= Len(Allowlist)
    BY <1>3, <2>1, <2>4, AllowlistAssumption DEF CollectQuote, RequestType
  <2>6. \A j \in DOMAIN quotes' : quotes'[j].merchant = Allowlist[j]
    BY <2>1, <2>4, <2>5 DEF RequestType
  <2>7. stage = "collect" /\ UNCHANGED <<catalog, clock, stage, basket, agentStatus, dropped, winner,
                                         lasting>>
    BY <1>3 DEF CollectQuote
  <2>8. winner = 0
    BY <2>7 DEF Collecting
  <2>9. RequestType'
    BY <2>5, <2>6, <2>7, <2>8 DEF RequestType, CatalogType
  <2> QED
    BY <2>7, <2>8, <2>9 DEF Collecting, LastingStay, RoutingAgrees, WinnerIsFirst,
       Routing, Chosen, NoLastingQuoteIsMissed
<1>4. ASSUME Orchestrate PROVE RequestInv'
  <2>1. /\ stage = "collect" /\ stage' = "route" /\ Len(quotes) = Len(Allowlist)
        /\ quotes' = [k \in DOMAIN quotes |-> Classified(quotes[k])]
        /\ lasting' = {m \in ToSet(Allowlist) : AllEligible(m)}
        /\ UNCHANGED <<catalog, clock, basket, dropped, winner>>
    BY <1>4 DEF Orchestrate, VerifyAndClassifyQuotes
  <2>2. \A k \in DOMAIN quotes :
            /\ quotes[k] \in Quote
            /\ quotes'[k] = Classified(quotes[k])
            /\ Eligible(quotes[k]) => quotes'[k] = quotes[k]
            /\ ~Eligible(quotes[k]) => quotes'[k].status # "ELIGIBLE"
            /\ quotes'[k] \in Quote
            /\ quotes'[k].merchant = quotes[k].merchant
    <3> TAKE k \in DOMAIN quotes
    <3>1. quotes[k] \in Quote
      BY DEF RequestType
    <3> QED
      BY <2>1, <3>1, ClassifiedMeans
  <2>3. quotes' \in Seq(Quote) /\ DOMAIN quotes' = DOMAIN quotes /\ Len(quotes') = Len(quotes)
    <3>1. DOMAIN quotes = 1 .. Len(quotes) /\ Len(quotes) \in Nat
      BY DEF RequestType
    <3>2. quotes' = [k \in 1 .. Len(quotes) |-> Classified(quotes[k])]
      BY <2>1, <3>1
    <3> QED
      BY <2>2, <3>1, <3>2
  <2>4. RequestType'
    BY <2>1, <2>2, <2>3 DEF RequestType, CatalogType, Stages, Collecting
  <2>5. \A m \in lasting' : AllEligible(m)'
    <3> SUFFICES ASSUME NEW m \in lasting', NEW k \in DOMAIN quotes', quotes'[k].merchant = m
                 PROVE  Eligible(quotes[k])'
      BY DEF AllEligible
    <3>1. Eligible(quotes[k]) /\ quotes'[k] = quotes[k]
      BY <2>1, <2>2, <2>3 DEF AllEligible
    <3> QED
      BY <2>1, <3>1 DEF Eligible, FailedGates, Gates
  <2>6. LastingStay'
    BY <2>1, <2>3, <2>5 DEF LastingStay, Collecting
  <2>7. RoutingAgrees'
    <3> SUFFICES ASSUME agentStatus' # "COMPLETED", NEW k \in DOMAIN quotes
                 PROVE  quotes'[k].status # "ELIGIBLE"
      BY <2>3 DEF RoutingAgrees
    <3>1. Route(quotes, DOMAIN quotes) = 0
      BY <1>4 DEF Orchestrate
    <3>2. EligibleIn(quotes, DOMAIN quotes) = {}
      BY <3>1, RouteMeans DEF RequestType
    <3> QED
      BY <2>2, <3>2 DEF EligibleIn
  <2> QED
    BY <2>1, <2>4, <2>6, <2>7 DEF Collecting, WinnerIsFirst, NoLastingQuoteIsMissed, Chosen
<1>5. ASSUME RouteRound PROVE RequestInv'
  <2>1. /\ stage = "route" /\ stage' = "revalidate" /\ winner' = Route(quotes, RemainingPool)
        /\ Route(quotes, RemainingPool) # 0
        /\ UNCHANGED <<catalog, clock, basket, quotes, agentStatus, dropped, lasting>>
    BY <1>5 DEF RouteRound
  <2>2. RemainingPool \in SUBSET DOMAIN quotes
    BY DEF RemainingPool
  <2>3. winner' \in EligibleIn(quotes, RemainingPool)
        /\ \A k \in EligibleIn(quotes, RemainingPool) : Before(quotes, winner', k)
    BY <2>1, <2>2, RouteMeans DEF RequestType
  <2>4. winner' \in DOMAIN quotes /\ Eligible(quotes[winner'])
    BY <2>2, <2>3 DEF EligibleIn
  <2>5. agentStatus = "COMPLETED"
    BY <2>1, <2>4, EligibleMeans DEF RoutingAgrees, Routing
  <2>6. \A k \in DOMAIN quotes : quotes[k].merchant \in lasting => Before(quotes, winner', k)
    <3> SUFFICES ASSUME NEW k \in DOMAIN quotes, quotes[k].merchant \in lasting
                 PROVE  k \in EligibleIn(quotes, RemainingPool)
      BY <2>3
    <3> QED
      BY <2>1 DEF LastingStay, Routing, AllEligible, EligibleIn, RemainingPool
  <2>7. winner' # 0
    BY <2>1
  <2>8. \A m : AllEligible(m)' = AllEligible(m)
    BY <2>1, EligibleStays
  <2>9. RequestType' /\ LastingStay' /\ RoutingAgrees'
    BY <2>1, <2>4, <2>8 DEF RequestType, CatalogType, Stages, LastingStay, RoutingAgrees, Routing
  <2>10. WinnerIsFirst'
    BY <2>1, <2>5, <2>6, <2>7 DEF WinnerIsFirst, Before
  <2> QED
    BY <2>1, <2>9, <2>10 DEF Collecting, NoLastingQuoteIsMissed
<1>6. ASSUME NoWinner PROVE RequestInv'
  <2>1. /\ stage = "route" /\ stage' = "done" /\ Route(quotes, RemainingPool) = 0
        /\ UNCHANGED <<catalog, clock, basket, quotes, agentStatus, dropped, winner, lasting>>
    BY <1>6 DEF NoWinner
  <2>2. EligibleIn(quotes, RemainingPool) = {}
    <3>1. RemainingPool \in SUBSET DOMAIN quotes
      BY DEF RemainingPool
    <3> QED
      BY <2>1, <3>1, RouteMeans DEF RequestType
  <2>3. lasting = {}
    <3> SUFFICES ASSUME NEW m \in lasting PROVE FALSE
      OBVIOUS
    <3>1. PICK k \in DOMAIN Allowlist : Allowlist[k] = m
      BY DEF RequestType, ToSet
    <3>2. DOMAIN quotes = DOMAIN Allowlist
      BY <2>1, AllowlistAssumption DEF LastingStay, Routing, RequestType
    <3>3. k \in DOMAIN quotes /\ quotes[k].merchant = m
      BY <3>1, <3>2 DEF RequestType
    <3>4. k \in EligibleIn(quotes, RemainingPool)
      BY <2>1, <3>3 DEF LastingStay, Routing, AllEligible, EligibleIn, RemainingPool
    <3> QED
      BY <2>2, <3>4
  <2>4. RequestType'
    BY <2>1 DEF RequestType, CatalogType, Stages
  <2> QED
    BY <2>1, <2>3, <2>4 DEF Collecting, NoLastingQuoteIsMissed, LastingStay, RoutingAgrees,
       WinnerIsFirst, Routing, Chosen
<1>7. ASSUME Revalidate PROVE RequestInv'
  <2>1. /\ stage = "revalidate"
        /\ UNCHANGED <<catalog, clock, basket, quotes, agentStatus, lasting>>
    BY <1>7 DEF Revalidate
  <2>2. \A m : AllEligible(m)' = AllEligible(m)
    BY <2>1, EligibleStays
  <2>3. CASE Eligible(quotes[winner])
    <3>1. stage' = "authorize" /\ UNCHANGED <<dropped, winner>>
      BY <1>7, <2>3 DEF Revalidate
    <3>2. RequestType' /\ LastingStay' /\ RoutingAgrees'
      BY <2>1, <2>2, <3>1 DEF RequestType, CatalogType, Stages, LastingStay, RoutingAgrees, Routing
    <3>3. WinnerIsFirst'
      BY <2>1, <3>1 DEF WinnerIsFirst, Chosen, Before
    <3> QED
      BY <3>1, <3>2, <3>3 DEF Collecting, NoLastingQuoteIsMissed
  <2>4. CASE ~Eligible(quotes[winner])
    <3>1. /\ stage' = "route" /\ winner' = 0
          /\ dropped' = dropped \cup {quotes[winner].merchant}
      BY <1>7, <2>4 DEF Revalidate, DropMerchant
    <3>2. winner \in DOMAIN quotes
      BY <2>1 DEF WinnerIsFirst, Chosen, RequestType
    <3>3. quotes[winner].merchant \notin lasting
      BY <2>1, <2>4, <3>2 DEF LastingStay, Routing, AllEligible
    <3>4. LastingStay'
      BY <2>1, <2>2, <3>1, <3>3 DEF LastingStay, Routing
    <3>5. RequestType' /\ RoutingAgrees' /\ WinnerIsFirst'
      BY <2>1, <3>1 DEF RequestType, CatalogType, Stages, RoutingAgrees, Routing, WinnerIsFirst, Chosen
    <3> QED
      BY <3>1, <3>4, <3>5 DEF Collecting, NoLastingQuoteIsMissed
  <2> QED
    BY <2>3, <2>4
<1>8. ASSUME AuthorizeWinner \/ EscalateAndPay PROVE RequestInv'
  <2>1. /\ stage \in {"authorize", "done"} /\ stage' = "done"
        /\ UNCHANGED <<catalog, clock, basket, quotes, agentStatus, dropped, winner, lasting>>
    BY <1>8 DEF AuthorizeWinner, EscalateAndPay
  <2>2. RequestType'
    BY <2>1 DEF RequestType, CatalogType, Stages
  <2>3. NoLastingQuoteIsMissed'
    BY <2>1 DEF NoLastingQuoteIsMissed, WinnerIsFirst, Chosen
  <2> QED
    BY <2>1, <2>2, <2>3 DEF Collecting, LastingStay, RoutingAgrees, WinnerIsFirst, Routing, Chosen
<1>9. ASSUME \/ \E s \in Skus : ChangeStock(s) \/ \E price \in Prices : ChangePrice(s, price)
             \/ Tick
      PROVE  RequestInv'
  <2>1. World
    BY <1>9 DEF ChangeStock, ChangePrice, Tick
  <2>2. CatalogType'
    <3>1. ASSUME NEW s \in Skus, ChangeStock(s) PROVE CatalogType'
      BY <3>1 DEF ChangeStock, CatalogType, CatalogRow, RequestType
    <3>2. ASSUME NEW s \in Skus, NEW price \in Prices, ChangePrice(s, price) PROVE CatalogType'
      BY <3>2 DEF ChangePrice, CatalogType, CatalogRow, RequestType
    <3>3. ASSUME Tick PROVE CatalogType'
      BY <3>3 DEF Tick, CatalogType, RequestType
    <3> QED
      BY <1>9, <3>1, <3>2, <3>3
  <2> QED
    BY <2>1, <2>2, WorldStep
<1> QED
  BY <1>1, <1>2, <1>3, <1>4, <1>5, <1>6, <1>7, <1>8, <1>9 DEF Next, Work

-----------------------------------------------------------------------------
(***************************************************************************)
(* The legs of a plan. A leg that waits was authorized while its cart was  *)
(* in force, and remembers no time older than the signing of that cart;    *)
(* when its rows cost what was authorized, either its merchant asks that   *)
(* much now, or the cart is still in force.                                *)
(***************************************************************************)
PlanIsRecent ==
    stage = "planned" => \A cart \in plan.legs : cart.expires \in Nat /\ cart.expires <= clock + QuoteTTL

LegFacts(leg) ==
    /\ leg.cart.expires \in Nat
    /\ leg.created \in Nat
    /\ leg.created < leg.cart.expires
    /\ leg.cart.expires <= leg.created + QuoteTTL
    /\ leg.asked \in Int
    /\ leg.asked >= leg.cart.expires - QuoteTTL
    /\ leg.asked <= clock
    /\ leg.created <= clock
    /\ AskedIn(catalog, leg) = leg.cart.total => leg.asked = clock \/ clock < leg.cart.expires

LegFields == {"cart", "basket", "created", "status", "answer", "asked", "age", "kept"}

LegsInv ==
    /\ RequestInv
    /\ PlanIsRecent
    /\ \A m \in DOMAIN legs : DOMAIN legs[m] = LegFields
    /\ \A m \in Waiting : LegFacts(legs[m])
    /\ OrderedPriceIsRecent

\* A cart the planner has signed is in force for QuoteTTL.
LEMMA PlansAreRecent ==
    ASSUME CatalogType, NEW b, NEW cart \in PlanMixedBasket(b).legs
    PROVE  cart.expires \in Nat /\ cart.expires <= clock + QuoteTTL
<1>1. PICK m, choice, part : cart = SignedCart(m, choice, part)
  BY DEF PlanMixedBasket, NoPlanYet, PlannedLegs
<1>2. cart.expires = clock + QuoteTTL
  BY <1>1 DEF SignedCart
<1> QED
  BY <1>2, TTLAssumption DEF CatalogType

\* Before any plan there is no leg.
LEMMA LegsInit == InitLegs => LegsInv
<1> SUFFICES ASSUME InitLegs PROVE LegsInv
  OBVIOUS
<1>1. RequestInv /\ stage = "idle"
  BY RequestInit DEF InitLegs, Init
<1>2. DOMAIN legs = {}
  BY DEF InitLegs, NoLegs
<1> QED
  BY <1>1, <1>2 DEF LegsInv, PlanIsRecent, Waiting, OrderedPriceIsRecent

\* A request that is planned holds carts signed in the instant of the plan.
LEMMA PlanStaysRecent ==
    ASSUME RequestInv, PlanIsRecent, Next
    PROVE  PlanIsRecent' /\ clock' \in Nat /\ clock <= clock'
<1>0. CatalogType
  BY DEF RequestInv, RequestType
<1>1. CASE \E b \in Baskets : PlanAndEvaluateBasket(b)
  <2>1. PICK b \in Baskets : PlanAndEvaluateBasket(b)
    BY <1>1
  <2>2. plan' = PlanMixedBasket(b) /\ UNCHANGED clock
    BY <2>1 DEF PlanAndEvaluateBasket
  <2> QED
    BY <1>0, <2>2, PlansAreRecent DEF PlanIsRecent, CatalogType
<1>2. CASE \/ \E s \in Skus : ChangeStock(s) \/ \E price \in Prices : ChangePrice(s, price)
           \/ Tick
  <2>1. UNCHANGED <<stage, plan>>
    BY <1>2 DEF ChangeStock, ChangePrice, Tick, World
  <2>2. clock' \in {clock, clock + 1}
    BY <1>2 DEF ChangeStock, ChangePrice, Tick
  <2> QED
    BY <1>0, <2>1, <2>2, TTLAssumption DEF PlanIsRecent, CatalogType
<1>3. CASE Work \/ EscalateAndPay \/ \E b \in Baskets : Deliberate(b)
  <2>1. UNCHANGED clock
    BY <1>3 DEF Work, CollectQuote, Orchestrate, RouteRound, NoWinner, Revalidate, AuthorizeWinner,
       EscalateAndPay, Deliberate
  <2>2. stage' # "planned"
    BY <1>3 DEF Work, CollectQuote, Orchestrate, RouteRound, NoWinner, Revalidate, AuthorizeWinner,
       EscalateAndPay, Deliberate
  <2> QED
    BY <1>0, <2>1, <2>2 DEF PlanIsRecent, CatalogType
<1> QED
  BY <1>1, <1>2, <1>3 DEF Next

\* The legs of a new plan: every cart is in force, and so was the plan's price.
LEMMA LegsAreNew ==
    ASSUME LegsInv, AuthorizePlannedBasket
    PROVE  LegsInv'
<1>1. /\ stage = "planned" /\ stage' = "idle"
      /\ UNCHANGED <<catalog, clock, basket, quotes, winner, status, plan, lasting>>
      /\ legs' = [m \in {cart.merchant : cart \in plan.legs} |->
                     NewLeg(CHOOSE cart \in plan.legs : cart.merchant = m)]
  BY DEF AuthorizePlannedBasket
<1>2. RequestInv'
  BY <1>1 DEF LegsInv, RequestInv, RequestType, CatalogType, Stages, Collecting, LastingStay,
     RoutingAgrees, WinnerIsFirst, Routing, Chosen, NoLastingQuoteIsMissed
<1>3. \A m \in DOMAIN legs' : \E cart \in plan.legs : legs'[m] = NewLeg(cart)
  BY <1>1
<1>4. ASSUME NEW cart \in plan.legs
      PROVE  /\ DOMAIN NewLeg(cart) = LegFields
             /\ NewLeg(cart).status = "RESERVED"
             /\ LegFacts(NewLeg(cart))
  <2>1. /\ cart.expires \in Nat /\ cart.expires <= clock + QuoteTTL /\ clock < cart.expires
        /\ clock \in Nat /\ QuoteTTL \in Nat
    BY <1>1, TTLAssumption DEF LegsInv, PlanIsRecent, AuthorizePlannedBasket, RequestInv, RequestType,
       CatalogType
  <2>2. /\ NewLeg(cart).cart = cart /\ NewLeg(cart).created = clock
        /\ NewLeg(cart).asked = cart.expires - QuoteTTL
        /\ NewLeg(cart).status = "RESERVED"
        /\ DOMAIN NewLeg(cart) = LegFields
    BY DEF NewLeg, LegFields
  <2> HIDE DEF LegsInv
  <2> QED
    BY <2>1, <2>2 DEF LegFacts
<1>5. \A m \in DOMAIN legs' :
          /\ DOMAIN legs'[m] = LegFields
          /\ legs'[m].status = "RESERVED"
          /\ LegFacts(legs'[m])
  BY <1>3, <1>4
<1>6. \A m \in DOMAIN legs' : LegFacts(legs[m])'
  <2>1. \A leg : LegFacts(leg)' = LegFacts(leg)
    BY <1>1 DEF LegFacts, AskedIn, MapThenSumSet, MapThenFoldSet
  <2>2. SUFFICES ASSUME NEW m \in DOMAIN legs', NEW leg, leg = legs'[m]
                 PROVE  LegFacts(leg)'
    OBVIOUS
  <2> QED
    BY <1>5, <2>1, <2>2
<1> QED
  BY <1>1, <1>2, <1>5, <1>6 DEF LegsInv, PlanIsRecent, Waiting, OrderedPriceIsRecent

\* While legs wait, the history follows what their rows cost.
LEMMA LegsWait ==
    ASSUME LegsInv, WorldMovesOn
    PROVE  LegsInv'
<1>1. /\ Next
      /\ legs' = [m \in DOMAIN legs |->
                     IF m \in Waiting /\ AskedIn(catalog', legs[m]) = legs[m].cart.total
                     THEN [legs[m] EXCEPT !.asked = clock'] ELSE legs[m]]
  BY DEF WorldMovesOn, Next
<1>2. RequestInv' /\ PlanIsRecent' /\ clock' \in Nat /\ clock <= clock' /\ clock \in Nat
  BY <1>1, RequestSteps, PlanStaysRecent DEF LegsInv, RequestInv, RequestType, CatalogType
<1>3. ASSUME NEW m \in DOMAIN legs
      PROVE  /\ DOMAIN legs'[m] = LegFields
             /\ \A field \in LegFields \ {"asked"} : legs'[m][field] = legs[m][field]
  BY <1>1 DEF LegsInv, LegFields
<1>4. DOMAIN legs' = DOMAIN legs /\ Waiting' = Waiting
  BY <1>1, <1>3 DEF Waiting, LegFields
<1>5. ASSUME NEW m \in Waiting PROVE LegFacts(legs[m])'
  <2>1. m \in DOMAIN legs /\ LegFacts(legs[m]) /\ DOMAIN legs[m] = LegFields
    BY <1>5 DEF LegsInv, Waiting
  <2>2. PICK leg, old : leg = legs'[m] /\ old = legs[m]
    OBVIOUS
  <2>3. leg.cart = old.cart /\ leg.created = old.created /\ leg.basket = old.basket
    BY <1>3, <2>1, <2>2 DEF LegFields
  <2>4. AskedIn(catalog', leg) = AskedIn(catalog', old)
    BY <2>3 DEF AskedIn, MapThenSumSet, MapThenFoldSet
  <2>5. CASE AskedIn(catalog', old) = old.cart.total
    <3>1. leg.asked = clock'
      BY <1>1, <1>5, <2>1, <2>2, <2>5 DEF LegFields
    <3>2. clock' >= old.cart.expires - QuoteTTL
      BY <1>2, <2>1, <2>2, TTLAssumption DEF LegFacts
    <3>3. LegFacts(leg)'
      BY <1>2, <2>1, <2>2, <2>3, <3>1, <3>2 DEF LegFacts
    <3> QED
      BY <2>2, <3>3
  <2>6. CASE AskedIn(catalog', old) # old.cart.total
    <3>1. leg.asked = old.asked
      BY <1>1, <1>5, <2>1, <2>2, <2>6
    <3>2. AskedIn(catalog', leg) # leg.cart.total
      BY <2>3, <2>4, <2>6
    <3>3. LegFacts(leg)'
      BY <1>2, <2>1, <2>2, <2>3, <3>1, <3>2 DEF LegFacts
    <3> QED
      BY <2>2, <3>3
  <2> QED
    BY <2>5, <2>6
<1>6. OrderedPriceIsRecent'
  BY <1>3, <1>4 DEF OrderedPriceIsRecent, LegsInv, LegFields
<1> QED
  BY <1>2, <1>3, <1>4, <1>5, <1>6 DEF LegsInv

\* What an execution or a rejection does to one leg leaves all else alone.
LEMMA LegsAnswered ==
    ASSUME LegsInv, NEW m \in Waiting, UNCHANGED <<vars, disturbed>>,
           DOMAIN legs' = DOMAIN legs,
           \A n \in DOMAIN legs \ {m} : legs'[n] = legs[n],
           DOMAIN legs'[m] = LegFields,
           legs'[m].status = "ORDER_CREATED" =>
               legs'[m].age < QuoteTTL + (IF legs'[m].kept THEN 0 ELSE LegTTL),
           legs'[m].status = "RESERVED" =>
               \A field \in {"cart", "basket", "created", "asked"} : legs'[m][field] = legs[m][field]
    PROVE  LegsInv'
<1>1. UNCHANGED <<catalog, clock, stage, basket, quotes, agentStatus, suggestion, dropped, winner,
                  status, ordered, plan, lasting>>
  BY DEF vars, requestVars
<1>2. RequestInv' /\ PlanIsRecent'
  <2>1. \A n : AllEligible(n)' = AllEligible(n)
    BY <1>1, EligibleStays
  <2> QED
    BY <1>1, <2>1 DEF LegsInv, RequestInv, RequestType, CatalogType, Collecting, LastingStay,
       RoutingAgrees, WinnerIsFirst, Before, NoLastingQuoteIsMissed, PlanIsRecent
<1>3. m \in DOMAIN legs
  BY DEF Waiting
<1>4. \A leg : LegFacts(leg)' = LegFacts(leg)
  BY <1>1 DEF LegFacts, AskedIn, MapThenSumSet, MapThenFoldSet
<1>5. ASSUME NEW n \in Waiting' PROVE LegFacts(legs[n])'
  <2>1. PICK leg, old : leg = legs'[n] /\ old = legs[n]
    OBVIOUS
  <2>2. n \in DOMAIN legs /\ leg.status = "RESERVED"
    BY <2>1 DEF Waiting
  <2>3. n \in Waiting /\ LegFacts(old)
    BY <2>1, <2>2 DEF Waiting, LegsInv
  <2>4. LegFacts(leg)
    <3>1. CASE n # m
      BY <2>1, <2>2, <2>3, <3>1
    <3>2. CASE n = m
      <4>1. /\ leg.cart = old.cart /\ leg.basket = old.basket /\ leg.created = old.created
            /\ leg.asked = old.asked
        BY <2>1, <2>2, <3>2
      <4>2. AskedIn(catalog, leg) = AskedIn(catalog, old)
        BY <4>1 DEF AskedIn, MapThenSumSet, MapThenFoldSet
      <4> QED
        BY <2>3, <4>1, <4>2 DEF LegFacts
    <3> QED
      BY <3>1, <3>2
  <2> QED
    BY <1>4, <2>1, <2>4
<1>6. \A n \in DOMAIN legs' : DOMAIN legs'[n] = LegFields
  BY DEF LegsInv
<1>7. OrderedPriceIsRecent'
  BY DEF OrderedPriceIsRecent, LegsInv
<1> QED
  BY <1>2, <1>5, <1>6, <1>7 DEF LegsInv

\* A leg that is found valid is ordered for a price that is recent.
LEMMA ValidPriceIsRecent ==
    ASSUME LegsInv, NEW leg, LegFacts(leg), NEW haveCart \in BOOLEAN, NEW haveKey \in BOOLEAN,
           Revalidated(leg, haveCart, haveKey) = "VALID"
    PROVE  clock - leg.asked < QuoteTTL + (IF haveCart THEN 0 ELSE LegTTL)
<1>1. /\ clock \in Nat /\ QuoteTTL \in Nat /\ LegTTL \in Nat
      /\ leg.cart.expires \in Nat /\ leg.created \in Nat /\ leg.asked \in Int
      /\ leg.created < leg.cart.expires
      /\ leg.cart.expires <= leg.created + QuoteTTL
      /\ leg.asked >= leg.cart.expires - QuoteTTL
  BY TTLAssumption, LegTTLAssumption DEF LegsInv, RequestInv, RequestType, CatalogType, LegFacts
<1>2. CASE InForce(leg, haveCart)
  BY <1>1, <1>2 DEF InForce
<1>3. CASE ~InForce(leg, haveCart)
  <2>1. FreshTotal(leg) = leg.cart.total
    BY <1>3 DEF Revalidated
  <2>2. leg.asked = clock \/ clock < leg.cart.expires
    BY <2>1 DEF FreshTotal, LegFacts
  <2> QED
    BY <1>1, <2>2
<1> QED
  BY <1>2, <1>3

\* Every step keeps the invariant of the legs.
LEMMA LegsStep == LegsInv /\ [NextLegs]_legVars => LegsInv'
<1> SUFFICES ASSUME LegsInv, [NextLegs]_legVars PROVE LegsInv'
  OBVIOUS
<1>1. CASE Requesting
  <2>1. Next /\ DOMAIN legs' = {}
    BY <1>1 DEF Requesting, NoLegs
  <2>2. RequestInv' /\ PlanIsRecent'
    BY <2>1, RequestSteps, PlanStaysRecent DEF LegsInv
  <2> QED
    BY <2>1, <2>2 DEF LegsInv, Waiting, OrderedPriceIsRecent
<1>2. CASE AuthorizePlannedBasket
  BY <1>2, LegsAreNew
<1>3. CASE WorldMovesOn
  BY <1>3, LegsWait
<1>4. ASSUME NEW m \in Waiting, NEW newStatus \in {"RELEASED", "RESERVED"}, NEW answer,
             Answer(m, newStatus, answer)
      PROVE  LegsInv'
  <2>1. m \in DOMAIN legs /\ DOMAIN legs[m] = LegFields
    BY DEF Waiting, LegsInv
  <2>2. UNCHANGED <<vars, disturbed>>
    BY <1>4 DEF Answer
  <2>3. /\ DOMAIN legs' = DOMAIN legs
        /\ \A n \in DOMAIN legs \ {m} : legs'[n] = legs[n]
        /\ legs'[m] = [legs[m] EXCEPT !.status = newStatus, !.answer = answer]
    BY <1>4, <2>1 DEF Answer
  <2>4. /\ DOMAIN legs'[m] = LegFields
        /\ legs'[m].status = newStatus
        /\ \A field \in {"cart", "basket", "created", "asked"} : legs'[m][field] = legs[m][field]
    BY <2>1, <2>3 DEF LegFields
  <2> QED
    BY <2>2, <2>3, <2>4, LegsAnswered
<1>5. ASSUME NEW m \in Waiting, NEW haveCart \in BOOLEAN, NEW haveKey \in BOOLEAN,
             Revalidated(legs[m], haveCart, haveKey) = "VALID", CreateOrder(m, haveCart)
      PROVE  LegsInv'
  <2>1. m \in DOMAIN legs /\ DOMAIN legs[m] = LegFields /\ LegFacts(legs[m])
    BY DEF Waiting, LegsInv
  <2>2. UNCHANGED <<vars, disturbed>>
    BY <1>5 DEF CreateOrder
  <2>3. /\ DOMAIN legs' = DOMAIN legs
        /\ \A n \in DOMAIN legs \ {m} : legs'[n] = legs[n]
        /\ legs'[m] = [legs[m] EXCEPT !.status = "ORDER_CREATED", !.answer = "ORDER_CREATED",
                                      !.kept = haveCart, !.age = clock - legs[m].asked]
    BY <1>5, <2>1 DEF CreateOrder
  <2>4. /\ DOMAIN legs'[m] = LegFields
        /\ legs'[m].status = "ORDER_CREATED"
        /\ legs'[m].kept = haveCart
        /\ legs'[m].age = clock - legs[m].asked
    BY <2>1, <2>3 DEF LegFields
  <2>5. clock - legs[m].asked < QuoteTTL + (IF haveCart THEN 0 ELSE LegTTL)
    BY <1>5, <2>1, ValidPriceIsRecent
  <2> QED
    BY <2>2, <2>3, <2>4, <2>5, LegsAnswered
<1>6. ASSUME NEW m \in DOMAIN legs, RejectLeg(m) PROVE LegsInv'
  BY <1>4, <1>6 DEF RejectLeg
<1>7. ASSUME NEW m \in DOMAIN legs, NEW haveCart \in BOOLEAN, NEW haveKey \in BOOLEAN,
             ExecutePlanLeg(m, haveCart, haveKey)
      PROVE  LegsInv'
  BY <1>4, <1>5, <1>7 DEF ExecutePlanLeg
<1>8. CASE UNCHANGED legVars
  <2>1. /\ UNCHANGED <<catalog, clock, stage, basket, quotes, agentStatus, suggestion, dropped, winner,
                       status, ordered, plan, lasting>>
        /\ UNCHANGED legs
    BY <1>8 DEF legVars, vars, requestVars
  <2>2. \A n : AllEligible(n)' = AllEligible(n)
    BY <2>1, EligibleStays
  <2>3. RequestInv' /\ PlanIsRecent'
    BY <2>1, <2>2 DEF LegsInv, RequestInv, RequestType, CatalogType, Collecting, LastingStay,
       RoutingAgrees, WinnerIsFirst, Before, NoLastingQuoteIsMissed, PlanIsRecent
  <2>4. \A leg : LegFacts(leg)' = LegFacts(leg)
    BY <2>1 DEF LegFacts, AskedIn, MapThenSumSet, MapThenFoldSet
  <2>5. \A m \in Waiting' : LegFacts(legs[m])'
    <3> SUFFICES ASSUME NEW m \in Waiting', NEW leg, leg = legs[m]
                 PROVE  LegFacts(leg)'
      BY <2>1
    <3> QED
      BY <2>1, <2>4 DEF Waiting, LegsInv
  <2> QED
    BY <2>1, <2>3, <2>5 DEF LegsInv, OrderedPriceIsRecent
<1> QED
  BY <1>1, <1>2, <1>3, <1>6, <1>7, <1>8 DEF NextLegs

\* A plan is made by the planner alone.
LEMMA OnlyThePlannerPlans ==
    ASSUME [NextLegs]_legVars, ~UNCHANGED requestVars, stage' = "planned", LegsInv
    PROVE  \E b \in Baskets : PlanAndEvaluateBasket(b)
<1>1. ~UNCHANGED legVars
  BY DEF legVars, vars
<1>2. ASSUME World PROVE FALSE
  <2>1. UNCHANGED <<stage, basket, quotes, agentStatus, suggestion, dropped, winner, status, ordered,
                    plan>>
    BY <1>2 DEF World
  <2>2. lasting' = lasting
    BY <1>2, <2>1 DEF World, Resting
  <2> QED
    BY <2>1, <2>2 DEF requestVars
<1>3. ASSUME NEW s \in Skus, ChangeStock(s) \/ \E price \in Prices : ChangePrice(s, price) PROVE FALSE
  BY <1>2, <1>3 DEF ChangeStock, ChangePrice
<1>4. ASSUME Tick PROVE FALSE
  BY <1>2, <1>4 DEF Tick
<1>5. ASSUME Work \/ EscalateAndPay \/ \E b \in Baskets : Deliberate(b) PROVE FALSE
  BY <1>5 DEF Work, CollectQuote, Orchestrate, RouteRound, NoWinner, Revalidate, AuthorizeWinner,
     EscalateAndPay, Deliberate
<1>6. ASSUME AuthorizePlannedBasket PROVE FALSE
  BY <1>6 DEF AuthorizePlannedBasket
<1>7. ASSUME NEW m \in DOMAIN legs,
             \/ RejectLeg(m)
             \/ \E haveCart, haveKey \in BOOLEAN : ExecutePlanLeg(m, haveCart, haveKey)
      PROVE  FALSE
  BY <1>7 DEF RejectLeg, ExecutePlanLeg, Answer, CreateOrder, vars
<1>8. CASE Requesting
  BY <1>3, <1>4, <1>5, <1>8 DEF Requesting, Next
<1>9. CASE WorldMovesOn
  BY <1>3, <1>4, <1>9 DEF WorldMovesOn
<1> QED
  BY <1>1, <1>6, <1>7, <1>8, <1>9 DEF NextLegs

-----------------------------------------------------------------------------
(***************************************************************************)
(* A catalog that stays as it was. Until it changes, every cart of a plan  *)
(* and of a waiting leg is in stock and costs what it says.                *)
(***************************************************************************)
UndisturbedInv ==
    /\ LegsInv
    /\ ~disturbed /\ stage = "planned" =>
           \A cart \in plan.legs : \A leg : leg.cart = cart /\ leg.basket = basket => Sound(catalog, leg)
    /\ ~disturbed => \A m \in Waiting : Sound(catalog, legs[m])
    /\ \A m \in DOMAIN legs : legs[m].cart.expires \in Nat
    /\ UndisturbedLegsHold

\* Whether a leg is sound depends on the catalog alone ...
LEMMA SoundStays ==
    ASSUME UNCHANGED catalog
    PROVE  \A leg : Sound(catalog, leg)' = Sound(catalog, leg)
BY DEF Sound, AskedIn, MapThenSumSet, MapThenFoldSet

\* ... and on the leg's cart and basket.
LEMMA SoundMeans ==
    \A rows, leg, old : leg.cart = old.cart /\ leg.basket = old.basket =>
        Sound(rows, leg) = Sound(rows, old)
BY DEF Sound, AskedIn, MapThenSumSet, MapThenFoldSet

\* A step of Next keeps a plan's carts sound, or says that it disturbed them.
LEMMA PlanStaysSound ==
    ASSUME UndisturbedInv, Requesting
    PROVE  UndisturbedInv'
<1>1. LegsInv' /\ DOMAIN legs' = {} /\ CatalogType
  <2>1. [NextLegs]_legVars
    BY DEF NextLegs
  <2> QED
    BY <2>1, LegsStep DEF UndisturbedInv, Requesting, NoLegs, LegsInv, RequestInv, RequestType
<1>2. ASSUME ~disturbed', stage' = "planned", NEW leg, leg.cart \in plan'.legs, leg.basket = basket'
      PROVE  Sound(catalog, leg)'
  <2>1. catalog' = catalog
    BY <1>2 DEF Requesting
  <2>2. CASE \E b \in Baskets : PlanAndEvaluateBasket(b)
    <3>1. PICK b \in Baskets : PlanAndEvaluateBasket(b)
      BY <2>2
    <3>2. plan' = PlanMixedBasket(b) /\ basket' = b
      BY <3>1 DEF PlanAndEvaluateBasket
    <3>3. Sound(catalog, leg)
      BY <1>1, <1>2, <3>2, PlannedCartsAreSound
    <3> QED
      BY <2>1, <3>3, SoundStays
  <2>3. CASE \/ \E s \in Skus : ChangeStock(s) \/ \E price \in Prices : ChangePrice(s, price)
             \/ Tick
    <3>1. UNCHANGED <<stage, plan, basket>>
      BY <2>3 DEF ChangeStock, ChangePrice, Tick, World
    <3>2. ~disturbed
      BY <1>2, <2>1, <3>1 DEF Requesting
    <3>3. Sound(catalog, leg)
      BY <1>2, <3>1, <3>2 DEF UndisturbedInv
    <3> QED
      BY <2>1, <3>3, SoundStays
  <2>4. CASE Work \/ EscalateAndPay \/ \E b \in Baskets : Deliberate(b)
    BY <1>2, <2>4 DEF Work, CollectQuote, Orchestrate, RouteRound, NoWinner, Revalidate,
       AuthorizeWinner, EscalateAndPay, Deliberate
  <2> QED
    BY <2>2, <2>3, <2>4 DEF Requesting, Next
<1> QED
  BY <1>1, <1>2 DEF UndisturbedInv, Waiting, UndisturbedLegsHold

\* The legs of an undisturbed plan are sound when they are made.
LEMMA NewLegsAreSound ==
    ASSUME UndisturbedInv, AuthorizePlannedBasket
    PROVE  UndisturbedInv'
<1>1. LegsInv'
  BY LegsAreNew DEF UndisturbedInv
<1>2. /\ stage = "planned" /\ stage' = "idle" /\ UNCHANGED <<catalog, clock, disturbed>>
      /\ legs' = [m \in {cart.merchant : cart \in plan.legs} |->
                     NewLeg(CHOOSE cart \in plan.legs : cart.merchant = m)]
  BY DEF AuthorizePlannedBasket
<1>3. ASSUME NEW m \in DOMAIN legs'
      PROVE  /\ legs'[m].answer = "NONE" /\ legs'[m].cart.expires \in Nat
             /\ ~disturbed => Sound(catalog, legs[m])'
  <2>1. PICK cart \in plan.legs : legs'[m] = NewLeg(cart)
    BY <1>2
  <2>0. cart.expires \in Nat
    BY <1>2 DEF UndisturbedInv, LegsInv, PlanIsRecent
  <2>2. PICK leg : leg = legs'[m]
    OBVIOUS
  <2>3. leg.cart = cart /\ leg.basket = basket /\ leg.answer = "NONE"
    BY <2>1, <2>2 DEF NewLeg
  <2>4. ~disturbed => Sound(catalog, leg)
    BY <1>2, <2>3 DEF UndisturbedInv
  <2>5. Sound(catalog, leg)' = Sound(catalog, leg)
    BY <1>2, SoundStays
  <2> QED
    BY <2>0, <2>2, <2>3, <2>4, <2>5
<1> QED
  BY <1>1, <1>2, <1>3 DEF UndisturbedInv, Waiting, UndisturbedLegsHold

\* They stay sound while nothing disturbs the catalog.
LEMMA WaitingLegsStaySound ==
    ASSUME UndisturbedInv, WorldMovesOn
    PROVE  UndisturbedInv'
<1>1. LegsInv' /\ clock <= clock' /\ clock \in Nat /\ clock' \in Nat
  <2>1. Next
    BY DEF WorldMovesOn, Next
  <2> QED
    BY <2>1, LegsWait, PlanStaysRecent DEF UndisturbedInv, LegsInv, RequestInv, RequestType, CatalogType
<1>2. /\ disturbed' = (disturbed \/ catalog' # catalog)
      /\ UNCHANGED <<stage, plan, basket>>
      /\ legs' = [m \in DOMAIN legs |->
                     IF m \in Waiting /\ AskedIn(catalog', legs[m]) = legs[m].cart.total
                     THEN [legs[m] EXCEPT !.asked = clock'] ELSE legs[m]]
  BY DEF WorldMovesOn, ChangeStock, ChangePrice, Tick, World
<1>3. /\ DOMAIN legs' = DOMAIN legs
      /\ \A m \in DOMAIN legs :
            /\ legs'[m].cart = legs[m].cart /\ legs'[m].basket = legs[m].basket
            /\ legs'[m].status = legs[m].status /\ legs'[m].answer = legs[m].answer
  BY <1>2 DEF UndisturbedInv, LegsInv, LegFields
<1>4. ASSUME ~disturbed'
      PROVE  /\ ~disturbed /\ UNCHANGED catalog
             /\ \A m \in Waiting' : Sound(catalog, legs[m])'
             /\ stage' = "planned" => \A cart \in plan'.legs : \A leg :
                    leg.cart = cart /\ leg.basket = basket' => Sound(catalog, leg)'
  <2>1. ~disturbed /\ UNCHANGED catalog
    BY <1>2, <1>4
  <2>2. \A leg : Sound(catalog, leg)' = Sound(catalog, leg)
    BY <2>1, SoundStays
  <2>3. ASSUME NEW m \in Waiting' PROVE Sound(catalog, legs[m])'
    <3>1. m \in Waiting
      BY <1>3 DEF Waiting
    <3>2. PICK leg, old : leg = legs'[m] /\ old = legs[m]
      OBVIOUS
    <3>3. Sound(catalog, old) /\ leg.cart = old.cart /\ leg.basket = old.basket
      BY <1>3, <2>1, <3>1, <3>2 DEF UndisturbedInv, Waiting
    <3>4. Sound(catalog, leg)
      BY <3>3, SoundMeans
    <3> QED
      BY <2>2, <3>2, <3>4
  <2> QED
    BY <1>2, <2>1, <2>2, <2>3 DEF UndisturbedInv
<1>5. UndisturbedLegsHold'
  <2> SUFFICES ASSUME ~disturbed', NEW m \in DOMAIN legs
               PROVE  /\ legs'[m].answer # "REQUIRES_REAUTH"
                      /\ legs'[m].answer = "MERCHANT_UNAVAILABLE" => clock' >= legs'[m].cart.expires
    BY <1>3 DEF UndisturbedLegsHold
  <2>1. /\ legs[m].answer # "REQUIRES_REAUTH"
        /\ legs[m].answer = "MERCHANT_UNAVAILABLE" => clock >= legs[m].cart.expires
    BY <1>4 DEF UndisturbedInv, UndisturbedLegsHold
  <2>2. legs[m].cart.expires \in Nat
    BY DEF UndisturbedInv
  <2> QED
    BY <1>1, <1>3, <2>1, <2>2
<1>6. \A m \in DOMAIN legs' : legs'[m].cart.expires \in Nat
  BY <1>3 DEF UndisturbedInv
<1> QED
  BY <1>1, <1>4, <1>5, <1>6 DEF UndisturbedInv

\* A leg that is sound is neither re-quoted for another total nor missed in stock.
LEMMA SoundLegsHold ==
    ASSUME LegsInv, NEW leg, LegFacts(leg), Sound(catalog, leg), QuoteTTL <= LegTTL,
           NEW haveCart \in BOOLEAN, NEW haveKey \in BOOLEAN
    PROVE  /\ Revalidated(leg, haveCart, haveKey) # "REQUIRES_REAUTH"
           /\ Revalidated(leg, haveCart, haveKey) = "MERCHANT_UNAVAILABLE" =>
                 clock >= leg.cart.expires
<1>1. Available(leg) /\ FreshTotal(leg) = leg.cart.total
  BY DEF Sound, Available, FreshTotal
<1>2. /\ clock \in Nat /\ QuoteTTL \in Nat /\ LegTTL \in Nat
      /\ leg.cart.expires \in Nat /\ leg.created \in Nat
      /\ leg.cart.expires <= leg.created + QuoteTTL
  BY TTLAssumption, LegTTLAssumption DEF LegsInv, RequestInv, RequestType, CatalogType, LegFacts
<1>3. ~InForce(leg, haveCart) => clock >= leg.cart.expires
  BY <1>2 DEF InForce
<1> HIDE DEF LegsInv
<1>4. CASE InForce(leg, haveCart)
  <2>1. Revalidated(leg, haveCart, haveKey) = "VALID"
    BY <1>1, <1>4 DEF Revalidated
  <2> QED
    BY <2>1
<1>5. CASE ~InForce(leg, haveCart) /\ ~haveKey
  <2>1. Revalidated(leg, haveCart, haveKey) = "MERCHANT_UNAVAILABLE"
    BY <1>1, <1>5 DEF Revalidated
  <2> QED
    BY <1>3, <1>5, <2>1
<1>6. CASE ~InForce(leg, haveCart) /\ haveKey
  <2>1. Revalidated(leg, haveCart, haveKey) = "VALID"
    BY <1>1, <1>6 DEF Revalidated
  <2> QED
    BY <2>1
<1> QED
  BY <1>4, <1>5, <1>6

\* An execution or a rejection of one leg says nothing wrong of an undisturbed one.
LEMMA AnsweredLegsHold ==
    ASSUME UndisturbedInv, LegsInv', NEW m \in Waiting, UNCHANGED <<vars, disturbed>>,
           DOMAIN legs' = DOMAIN legs,
           \A n \in DOMAIN legs \ {m} : legs'[n] = legs[n],
           legs'[m].cart = legs[m].cart, legs'[m].basket = legs[m].basket,
           ~disturbed => /\ legs'[m].answer # "REQUIRES_REAUTH"
                         /\ legs'[m].answer = "MERCHANT_UNAVAILABLE" => clock >= legs[m].cart.expires
    PROVE  UndisturbedInv'
<1>1. UNCHANGED <<catalog, clock, stage, basket, plan>>
  BY DEF vars, requestVars
<1>2. \A leg : Sound(catalog, leg)' = Sound(catalog, leg)
  BY <1>1, SoundStays
<1>3. ASSUME ~disturbed, NEW n \in Waiting' PROVE Sound(catalog, legs[n])'
  <2>1. PICK leg, old : leg = legs'[n] /\ old = legs[n]
    OBVIOUS
  <2>2. n \in Waiting /\ leg.cart = old.cart /\ leg.basket = old.basket
    BY <2>1 DEF Waiting
  <2>3. Sound(catalog, old)
    BY <1>3, <2>1, <2>2 DEF UndisturbedInv
  <2>4. Sound(catalog, leg)
    BY <2>2, <2>3, SoundMeans
  <2> QED
    BY <1>2, <2>1, <2>4
<1>4. UndisturbedLegsHold'
  BY <1>1 DEF UndisturbedInv, UndisturbedLegsHold
<1>5. \A n \in DOMAIN legs' : legs'[n].cart.expires \in Nat
  BY DEF UndisturbedInv
<1>6. ~disturbed' /\ stage' = "planned" =>
          \A cart \in plan'.legs : \A leg :
              leg.cart = cart /\ leg.basket = basket' => Sound(catalog, leg)'
  BY <1>1, <1>2 DEF UndisturbedInv
<1> QED
  BY <1>3, <1>4, <1>5, <1>6 DEF UndisturbedInv

\* Every step keeps the invariant of the undisturbed legs.
LEMMA UndisturbedStep ==
    ASSUME QuoteTTL <= LegTTL
    PROVE  UndisturbedInv /\ [NextLegs]_legVars => UndisturbedInv'
<1> SUFFICES ASSUME UndisturbedInv, [NextLegs]_legVars PROVE UndisturbedInv'
  OBVIOUS
<1>0. LegsInv'
  BY LegsStep DEF UndisturbedInv
<1>1. CASE Requesting
  BY <1>1, PlanStaysSound
<1>2. CASE AuthorizePlannedBasket
  BY <1>2, NewLegsAreSound
<1>3. CASE WorldMovesOn
  BY <1>3, WaitingLegsStaySound
<1>4. ASSUME NEW m \in Waiting, NEW newStatus, NEW answer, Answer(m, newStatus, answer),
             ~disturbed => /\ answer # "REQUIRES_REAUTH"
                           /\ answer = "MERCHANT_UNAVAILABLE" => clock >= legs[m].cart.expires
      PROVE  UndisturbedInv'
  <2>1. m \in DOMAIN legs /\ DOMAIN legs[m] = LegFields
    BY DEF Waiting, UndisturbedInv, LegsInv
  <2>2. UNCHANGED <<vars, disturbed>>
    BY <1>4 DEF Answer
  <2>3. /\ DOMAIN legs' = DOMAIN legs
        /\ \A n \in DOMAIN legs \ {m} : legs'[n] = legs[n]
        /\ legs'[m] = [legs[m] EXCEPT !.status = newStatus, !.answer = answer]
    BY <1>4, <2>1 DEF Answer
  <2>4. legs'[m].cart = legs[m].cart /\ legs'[m].basket = legs[m].basket /\ legs'[m].answer = answer
    BY <2>1, <2>3 DEF LegFields
  <2> QED
    BY <1>0, <1>4, <2>2, <2>3, <2>4, AnsweredLegsHold
<1>5. ASSUME NEW m \in Waiting, NEW haveCart \in BOOLEAN, CreateOrder(m, haveCart)
      PROVE  UndisturbedInv'
  <2>1. m \in DOMAIN legs /\ DOMAIN legs[m] = LegFields
    BY DEF Waiting, UndisturbedInv, LegsInv
  <2>2. UNCHANGED <<vars, disturbed>>
    BY <1>5 DEF CreateOrder
  <2>3. /\ DOMAIN legs' = DOMAIN legs
        /\ \A n \in DOMAIN legs \ {m} : legs'[n] = legs[n]
        /\ legs'[m] = [legs[m] EXCEPT !.status = "ORDER_CREATED", !.answer = "ORDER_CREATED",
                                      !.kept = haveCart, !.age = clock - legs[m].asked]
    BY <1>5, <2>1 DEF CreateOrder
  <2>4. /\ legs'[m].cart = legs[m].cart /\ legs'[m].basket = legs[m].basket
        /\ legs'[m].answer = "ORDER_CREATED"
    BY <2>1, <2>3 DEF LegFields
  <2> QED
    BY <1>0, <2>2, <2>3, <2>4, AnsweredLegsHold
<1>6. ASSUME NEW m \in DOMAIN legs, RejectLeg(m) PROVE UndisturbedInv'
  BY <1>4, <1>6 DEF RejectLeg
<1>7. ASSUME NEW m \in DOMAIN legs, NEW haveCart \in BOOLEAN, NEW haveKey \in BOOLEAN,
             ExecutePlanLeg(m, haveCart, haveKey)
      PROVE  UndisturbedInv'
  <2>1. m \in Waiting
    BY <1>7 DEF ExecutePlanLeg
  <2>2. ~disturbed =>
            /\ Revalidated(legs[m], haveCart, haveKey) # "REQUIRES_REAUTH"
            /\ Revalidated(legs[m], haveCart, haveKey) = "MERCHANT_UNAVAILABLE" =>
                  clock >= legs[m].cart.expires
    BY <2>1, SoundLegsHold DEF UndisturbedInv, LegsInv
  <2> DEFINE verdict == Revalidated(legs[m], haveCart, haveKey)
  <2> HIDE DEF verdict
  <2>3. \/ Answer(m, "RELEASED", "POLICY_INTENT_EXPIRED")
        \/ verdict = "MERCHANT_UNAVAILABLE" /\ Answer(m, "RELEASED", verdict)
        \/ verdict = "REQUIRES_REAUTH" /\ Answer(m, "RESERVED", verdict)
        \/ CreateOrder(m, haveCart)
        \/ Answer(m, "RELEASED", "GATEWAY_ORDER_CREATION_FAILED")
    BY <1>7 DEF ExecutePlanLeg, verdict
  <2>4. ~disturbed => /\ verdict # "REQUIRES_REAUTH"
                      /\ verdict = "MERCHANT_UNAVAILABLE" => clock >= legs[m].cart.expires
    BY <2>2 DEF verdict
  <2> QED
    BY <1>4, <1>5, <2>1, <2>3, <2>4
<1>8. CASE UNCHANGED legVars
  <2>1. UNCHANGED <<catalog, clock, stage, basket, plan, legs, disturbed>>
    BY <1>8 DEF legVars, vars, requestVars
  <2>2. \A leg : Sound(catalog, leg)' = Sound(catalog, leg)
    BY <2>1, SoundStays
  <2>3. \A m \in Waiting' : ~disturbed => Sound(catalog, legs[m])'
    <3> SUFFICES ASSUME NEW m \in Waiting', ~disturbed, NEW leg, leg = legs[m]
                 PROVE  Sound(catalog, leg)'
      BY <2>1
    <3> QED
      BY <2>1, <2>2 DEF Waiting, UndisturbedInv
  <2> QED
    BY <1>0, <2>1, <2>2, <2>3 DEF UndisturbedInv, UndisturbedLegsHold
<1> QED
  BY <1>1, <1>2, <1>3, <1>6, <1>7, <1>8 DEF NextLegs

-----------------------------------------------------------------------------
(***************************************************************************)
(* The theorems.                                                           *)
(***************************************************************************)
\* The inductive invariant holds throughout.
LEMMA LegsInvHolds == SpecLegs => []LegsInv
<1>1. InitLegs => LegsInv
  BY LegsInit
<1>2. LegsInv /\ [NextLegs]_legVars => LegsInv'
  BY LegsStep
<1> QED
  BY <1>1, <1>2, PTL DEF SpecLegs

\* route_with_fallback() returns a quote no dearer than any that was eligible all
\* along, whatever merchants do to the catalog between two rounds.
THEOREM CheapestWins == SpecLegs => []CheapestLastingQuoteWins
<1>1. LegsInv => CheapestLastingQuoteWins
  <2> SUFFICES ASSUME LegsInv, stage = "authorize",
                      NEW k \in DOMAIN quotes, quotes[k].merchant \in lasting
               PROVE  \/ quotes[winner].total < quotes[k].total
                      \/ /\ quotes[winner].total = quotes[k].total
                         /\ quotes[winner].merchant <= quotes[k].merchant
    BY DEF CheapestLastingQuoteWins
  <2>1. Before(quotes, winner, k) /\ winner \in DOMAIN quotes
    BY DEF LegsInv, RequestInv, RequestType, WinnerIsFirst, Chosen
  <2>2. quotes[winner] \in Quote /\ quotes[k] \in Quote
    BY <2>1 DEF LegsInv, RequestInv, RequestType
  <2>3. quotes[winner].merchant \in Nat /\ quotes[k].merchant \in Nat
    BY <2>2, MerchantsAssumption DEF Quote
  <2> QED
    BY <2>1, <2>3 DEF Before
<1> QED
  BY <1>1, LegsInvHolds, PTL

\* route_with_fallback() returns None only when no quote was eligible all along.
THEOREM NoneIsMissed == SpecLegs => []NoLastingQuoteIsMissed
<1>1. LegsInv => NoLastingQuoteIsMissed
  BY DEF LegsInv, RequestInv
<1> QED
  BY <1>1, LegsInvHolds, PTL

\* deliberate_goal(): whenever the endpoint's routing has a winner, the agent's own
\* routing had one, so its run ended COMPLETED and the winner is paid.
THEOREM RoutingsAgree == SpecLegs => []SecondRoutingAgrees
<1>1. LegsInv => SecondRoutingAgrees
  BY DEF LegsInv, RequestInv, WinnerIsFirst, Chosen, SecondRoutingAgrees
<1> QED
  BY <1>1, LegsInvHolds, PTL

\* revalidate_or_requote_leg(): a leg is ordered only for a total its merchant asked
\* within the life of a cart, and of the waiting mandate when the cart was not kept.
THEOREM PriceIsRecent == SpecLegs => []OrderedPriceIsRecent
<1>1. LegsInv => OrderedPriceIsRecent
  BY DEF LegsInv
<1> QED
  BY <1>1, LegsInvHolds, PTL

\* plan_mixed_basket(): for every catalog and basket a plan is found exactly when
\* every product is in stock at an allowed merchant that can sign, and no choice of
\* rows costs less, although each product is decided alone and each leg priced alone.
THEOREM PlansOptimal == SpecLegs => PlansAreOptimal
<1> DEFINE InStock(p) == {s \in Skus : /\ ProductOf[s] = p /\ catalog[s].inStock
                                       /\ \E k \in DOMAIN Allowlist : SellerOf[s] = Allowlist[k]
                                       /\ SellerOf[s] \in SigningKeys}
           choices(b) == {c \in [Requested(b) -> Skus] : \A p \in Requested(b) : c[p] \in InStock(p)}
           Optimal(b, made) ==
               /\ made.feasible <=> choices(b) # {}
               /\ made.feasible => \E c \in choices(b) : made.total = CartTotal(c, b)
               /\ made.feasible => \A c \in choices(b) : made.total <= CartTotal(c, b)
<1>1. ASSUME CatalogType, NEW b \in Baskets PROVE Optimal(b, PlanMixedBasket(b))
  <2> DEFINE made == PlanMixedBasket(b)
  <2>1. b \in [Products -> Nat]
    BY BasketsAssumption
  <2>2. \A p : InStock(p) = Candidates(p)
    BY DEF Candidates, ToSet
  <2>3. \A p : Candidates(p) \subseteq Skus
    BY DEF Candidates
  <2>4. choices(b) = {c \in [Requested(b) -> Skus] : \A p \in Requested(b) : c[p] \in Candidates(p)}
    BY <2>2
  <2> HIDE DEF choices, InStock
  <2>5. ASSUME made.feasible
        PROVE  Allocation(b) \in choices(b) /\ made.total = CartTotal(Allocation(b), b)
    <3>1. \A p \in Requested(b) : Allocation(b)[p] \in Candidates(p)
      BY <1>1, <2>5, PlanIs
    <3>2. Allocation(b) \in [Requested(b) -> Skus]
      BY <2>3, <3>1 DEF Allocation
    <3> QED
      BY <1>1, <2>4, <2>5, <3>1, <3>2, PlanIs
  <2>6. ASSUME NEW c \in choices(b)
        PROVE  made.feasible /\ CartTotal(Allocation(b), b) <= CartTotal(c, b)
    <3>1. \A p \in Requested(b) : c[p] \in Candidates(p)
      BY <2>4
    <3>2. made.feasible
      BY <1>1, <3>1, PlanIs
    <3> QED
      BY <1>1, <2>1, <3>1, <3>2, AllocationIsCheapest
  <2> HIDE DEF made
  <2>7. Optimal(b, made)
    BY <2>5, <2>6
  <2> QED
    BY <2>7 DEF made
<1> HIDE DEF Optimal
<1>2. LegsInv /\ [NextLegs]_legVars =>
          [stage' = "planned" => Optimal(basket', plan')]_requestVars
  <2> SUFFICES ASSUME LegsInv, [NextLegs]_legVars, ~UNCHANGED requestVars, stage' = "planned"
               PROVE  Optimal(basket', plan')
    OBVIOUS
  <2>1. CatalogType
    BY DEF LegsInv, RequestInv, RequestType
  <2>2. PICK b \in Baskets : PlanAndEvaluateBasket(b)
    BY OnlyThePlannerPlans
  <2> QED
    BY <1>1, <2>1, <2>2 DEF PlanAndEvaluateBasket
<1>3. LegsInv /\ [NextLegs]_legVars =>
          [stage' = "planned" =>
              LET InStock_(p) == {s \in Skus : /\ ProductOf[s] = p /\ catalog[s].inStock
                                               /\ \E k \in DOMAIN Allowlist : SellerOf[s] = Allowlist[k]
                                               /\ SellerOf[s] \in SigningKeys}
                  choices_ == {c \in [Requested(basket') -> Skus] :
                                  \A p \in Requested(basket') : c[p] \in InStock_(p)}
              IN /\ plan'.feasible <=> choices_ # {}
                 /\ plan'.feasible => \E c \in choices_ : plan'.total = CartTotal(c, basket')
                 /\ plan'.feasible => \A c \in choices_ : plan'.total <= CartTotal(c, basket')
             ]_requestVars
  BY <1>2 DEF Optimal, choices, InStock
<1> HIDE DEF choices, InStock
<1> QED
  BY <1>3, LegsInvHolds, PTL DEF SpecLegs, PlansAreOptimal

\* plan_mixed_basket() against solicit_quote() and the router's gates: whatever one
\* merchant could have delivered within the budget is planned and authorized for no
\* more.
THEOREM PlanBeatsQuotes == SpecLegs => PlanBeatsEverySingleQuote
<1> DEFINE Beats(b, made, verdict) ==
               \A m \in ToSet(Allowlist) : \A q \in SolicitedQuotes(m, b) :
                   Eligible(q) => made.feasible /\ made.total <= q.total /\ verdict = "AUTHORIZED"
<1>1. ASSUME CatalogType, NEW b \in Baskets
      PROVE  Beats(b, PlanMixedBasket(b), EvaluateBasketAuthorization(PlanMixedBasket(b)))
  <2> DEFINE made == PlanMixedBasket(b)
  <2> SUFFICES ASSUME NEW m \in ToSet(Allowlist), NEW q \in SolicitedQuotes(m, b), Eligible(q)
               PROVE  /\ made.feasible /\ made.total <= q.total
                      /\ EvaluateBasketAuthorization(made) = "AUTHORIZED"
    OBVIOUS
  <2>1. b \in [Products -> Nat] /\ m \in Merchants
    BY BasketsAssumption, AllowlistAssumption DEF ToSet
  <2>2. q.status = "ELIGIBLE" /\ (\A s \in q.skus : catalog[s].inStock) /\ q.total <= SpendCap
    BY EligibleMeans
  <2>3. /\ m \in SigningKeys
        /\ \E c \in [Requested(b) -> Skus] :
               (\A p \in Requested(b) : c[p] \in Offers(m, p)) /\ q = SignedQuote(m, c, b)
    BY <2>2 DEF SolicitedQuotes, FailedQuote
  <2>4. PICK c \in [Requested(b) -> Skus] :
            (\A p \in Requested(b) : c[p] \in Offers(m, p)) /\ q = SignedQuote(m, c, b)
    BY <2>3
  <2>5. q.skus = {c[p] : p \in Requested(b)} /\ q.total = CartTotal(c, b)
    BY <2>4 DEF SignedQuote, SignedCart
  <2>6. \A p \in Requested(b) : c[p] \in Candidates(p)
    BY <2>2, <2>3, <2>4, <2>5 DEF Candidates, Offers
  <2>7. made.feasible /\ made.total \in Nat /\ made.total <= q.total
    BY <1>1, <2>1, <2>5, <2>6, PlanIs, AllocationIsCheapest
  <2>8. q.total \in Nat
    BY <1>1, <2>1, <2>4, <2>5, CartTotalIsNat
  <2>9. made.total <= SpendCap
    BY <2>2, <2>7, <2>8, SpendCapAssumption
  <2> HIDE DEF made
  <2>10. EvaluateBasketAuthorization(made) = "AUTHORIZED"
    BY <2>7, <2>9, SpendCapAssumption DEF EvaluateBasketAuthorization
  <2> QED
    BY <2>7, <2>10
<1> HIDE DEF Beats
<1>2. LegsInv /\ [NextLegs]_legVars =>
          [stage' = "planned" => Beats(basket', plan', status')]_requestVars
  <2> SUFFICES ASSUME LegsInv, [NextLegs]_legVars, ~UNCHANGED requestVars, stage' = "planned"
               PROVE  Beats(basket', plan', status')
    OBVIOUS
  <2>1. CatalogType
    BY DEF LegsInv, RequestInv, RequestType
  <2>2. PICK b \in Baskets : PlanAndEvaluateBasket(b)
    BY OnlyThePlannerPlans
  <2>3. basket' = b /\ plan' = PlanMixedBasket(b)
        /\ status' = EvaluateBasketAuthorization(PlanMixedBasket(b))
    BY <2>2 DEF PlanAndEvaluateBasket, EvaluateBasketAuthorization
  <2> QED
    BY <1>1, <2>1, <2>3
<1>3. SpecLegs => [][stage' = "planned" => Beats(basket', plan', status')]_requestVars
  BY <1>2, LegsInvHolds, PTL DEF SpecLegs
<1> QED
  BY <1>3 DEF PlanBeatsEverySingleQuote, Beats

\* The planner, the policy engine and the re-quotation agree on what a leg is: in a
\* catalog that stays as it was no leg needs a new authorization, and none is lost for
\* want of its goods before its cart has run out. Both lifetimes are 300 seconds in
\* the code; the age limit of a mandate must not be the shorter one.
THEOREM UndisturbedHold ==
    ASSUME QuoteTTL <= LegTTL
    PROVE  SpecLegs => []UndisturbedLegsHold
<1>1. InitLegs => UndisturbedInv
  <2> SUFFICES ASSUME InitLegs PROVE UndisturbedInv
    OBVIOUS
  <2>1. LegsInv /\ DOMAIN legs = {} /\ stage = "idle"
    BY LegsInit DEF InitLegs, NoLegs, Init
  <2> QED
    BY <2>1 DEF UndisturbedInv, Waiting, UndisturbedLegsHold
<1>2. UndisturbedInv /\ [NextLegs]_legVars => UndisturbedInv'
  BY UndisturbedStep
<1>3. UndisturbedInv => UndisturbedLegsHold
  BY DEF UndisturbedInv
<1> QED
  BY <1>1, <1>2, <1>3, PTL DEF SpecLegs

=============================================================================
