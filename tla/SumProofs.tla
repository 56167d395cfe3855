----------------------------- MODULE SumProofs -----------------------------
(***************************************************************************)
(* Facts about natural numbers, finite sets and sums that the proofs of    *)
(* the components rest on.  Induction is over sets: the least number, or a *)
(* smallest subset, for which a statement fails.                           *)
(***************************************************************************)
EXTENDS Integers, Functions, FiniteSetTheorems, TLAPS

\* A non-empty set of natural numbers has a least element.
LEMMA LeastNatural ==
    ASSUME NEW T \in SUBSET Nat, T # {}
    PROVE  \E n \in T : \A m \in T : n <= m
<1> DEFINE Less == {ss \in Nat \X Nat : ss[1] < ss[2]}
<1>1. OpToRel(<, Nat) = Less
  BY Zenon DEF OpToRel
<1>2. IsWellFoundedOn(Less, Nat)
  BY <1>1, NatLessThanWellFounded, Zenon
<1>3. \A m, n \in Nat : <<m, n>> \in Less <=> m < n
  OBVIOUS
<1> HIDE DEF Less
<1>4. PICK n \in T : \A m \in T : ~(<<m, n>> \in Less)
  BY <1>2, WFMin
<1>5. \A m \in T : ~(m < n)
  BY <1>3, <1>4
<1> QED
  BY <1>5

\* A non-empty set of subsets of a finite set has a smallest member.
LEMMA SmallestSubset ==
    ASSUME NEW S, IsFiniteSet(S), NEW T \in SUBSET SUBSET S, T # {}
    PROVE  \E U \in T : \A W \in SUBSET U : W # U => W \notin T
<1>1. IsWellFoundedOn(StrictSubsetOrdering(S), SUBSET S)
  BY FS_StrictSubsetOrderingWellFounded, FS_FiniteSubsetsOfFinite
<1>2. PICK U \in T : \A W \in T : ~(<<W, U>> \in StrictSubsetOrdering(S))
  BY <1>1, WFMin
<1> QED
  BY <1>2 DEF StrictSubsetOrdering

----------------------------------------------------------------------------
(* A sum over a finite set, unfolded.                                      *)

Some(S) == CHOOSE x \in S : TRUE

LEMMA SomeIn == ASSUME NEW S, S # {} PROVE Some(S) \in S
BY DEF Some

\* f adds up g over the subsets of S.
SumsUp(g, S, f) ==
    f = [s \in SUBSET S |-> IF s = {} THEN 0 ELSE g[Some(s)] + f[s \ {Some(s)}]]

Sums(g, S) == CHOOSE f : SumsUp(g, S, f)

LEMMA SumIsChosen ==
    ASSUME NEW g, NEW S
    PROVE  SumFunctionOnSet(g, S) = Sums(g, S)[S]
BY Zenon DEF SumFunctionOnSet, FoldFunctionOnSet, MapThenFoldSet, Sums, SumsUp, Some

LEMMA SumsChosen ==
    ASSUME NEW g, NEW S, \E f : SumsUp(g, S, f)
    PROVE  SumsUp(g, S, Sums(g, S))
BY Zenon DEF Sums

LEMMA SumsStep ==
    ASSUME NEW g, NEW S, NEW f, SumsUp(g, S, f), NEW s \in SUBSET S
    PROVE  f[s] = IF s = {} THEN 0 ELSE g[Some(s)] + f[s \ {Some(s)}]
BY DEF SumsUp

LEMMA SumsAgree ==
    ASSUME NEW g, NEW S, NEW U \in SUBSET S, IsFiniteSet(U),
           NEW f, SumsUp(g, S, f), NEW h, SumsUp(g, U, h),
           NEW s \in SUBSET U
    PROVE  f[s] = h[s]
<1> DEFINE Differ == {t \in SUBSET U : f[t] # h[t]}
<1>1. SUFFICES ASSUME Differ # {} PROVE FALSE
  OBVIOUS
<1>2. PICK t \in Differ : \A w \in SUBSET t : w # t => w \notin Differ
  <2>1. Differ \in SUBSET SUBSET U
    OBVIOUS
  <2> HIDE DEF Differ
  <2> QED
    BY <1>1, <2>1, SmallestSubset
<1>3. t \in SUBSET U /\ t \in SUBSET S /\ f[t] # h[t]
  BY <1>2
<1>4. t # {} => f[t \ {Some(t)}] = h[t \ {Some(t)}]
  <2>1. t # {} => Some(t) \in t
    BY SomeIn
  <2> QED
    BY <1>2, <1>3, <2>1
<1> HIDE DEF Differ
<1>5. f[t] = IF t = {} THEN 0 ELSE g[Some(t)] + f[t \ {Some(t)}]
  BY <1>3, Zenon DEF SumsUp
<1>6. h[t] = IF t = {} THEN 0 ELSE g[Some(t)] + h[t \ {Some(t)}]
  BY <1>3, Zenon DEF SumsUp
<1> QED
  BY <1>3, <1>4, <1>5, <1>6

LEMMA SumExists ==
    ASSUME NEW g, NEW S, IsFiniteSet(S)
    PROVE  \E f : SumsUp(g, S, f)
<1> DEFINE Lacking == {U \in SUBSET S : ~\E f : SumsUp(g, U, f)}
<1>1. SUFFICES ASSUME Lacking # {} PROVE FALSE
  OBVIOUS
<1>2. PICK U \in Lacking : \A W \in SUBSET U : W # U => W \notin Lacking
  <2>1. Lacking \in SUBSET SUBSET S
    OBVIOUS
  <2> HIDE DEF Lacking
  <2> QED
    BY <1>1, <2>1, SmallestSubset
<1>3. \A W \in SUBSET U : W # U => SumsUp(g, W, Sums(g, W))
  BY <1>2, SumsChosen
<1>4. \A W \in SUBSET U : IsFiniteSet(W)
  BY <1>2, FS_Subset
<1>5. ASSUME NEW W \in SUBSET U, W # U
      PROVE  Sums(g, W)[W] = IF W = {} THEN 0 ELSE g[Some(W)] + Sums(g, W \ {Some(W)})[W \ {Some(W)}]
  <2>1. CASE W = {}
    BY <1>3, <1>5, <2>1, SumsStep
  <2>2. CASE W # {}
    <3>1. W \ {Some(W)} \in SUBSET U /\ W \ {Some(W)} # U
      BY <1>5, <2>2, SomeIn
    <3>2. Sums(g, W)[W \ {Some(W)}] = Sums(g, W \ {Some(W)})[W \ {Some(W)}]
      BY <1>3, <1>4, <1>5, <3>1, SumsAgree
    <3>3. SumsUp(g, W, Sums(g, W)) /\ W \in SUBSET W
      BY <1>3, <1>5
    <3> QED
      BY <2>2, <3>2, <3>3, SumsStep
  <2> QED
    BY <2>1, <2>2
<1> DEFINE F == [s \in SUBSET U |-> IF s = {} THEN 0
                                   ELSE g[Some(s)] + Sums(g, s \ {Some(s)})[s \ {Some(s)}]]
<1>6. ASSUME NEW s \in SUBSET U, s # {}
      PROVE  F[s \ {Some(s)}] = Sums(g, s \ {Some(s)})[s \ {Some(s)}]
  BY <1>5, <1>6, SomeIn
<1>7. SumsUp(g, U, F)
  BY <1>6 DEF SumsUp
<1> QED
  BY <1>2, <1>7

\* The sum over a finite set: one element, and the sum of the others.
LEMMA SumUnfolds ==
    ASSUME NEW g, NEW S, IsFiniteSet(S)
    PROVE  /\ SumFunctionOnSet(g, {}) = 0
           /\ S # {} => SumFunctionOnSet(g, S) =
                          g[Some(S)] + SumFunctionOnSet(g, S \ {Some(S)})
<1>1. \A U : IsFiniteSet(U) => SumsUp(g, U, Sums(g, U))
  BY SumExists, SumsChosen
<1>2. SumFunctionOnSet(g, {}) = 0
  BY <1>1, FS_EmptySet, SumIsChosen DEF SumsUp
<1>3. ASSUME S # {}
      PROVE  SumFunctionOnSet(g, S) = g[Some(S)] + SumFunctionOnSet(g, S \ {Some(S)})
  <2>1. IsFiniteSet(S \ {Some(S)})
    BY FS_Subset
  <2> DEFINE W == S \ {Some(S)}
  <2>2. /\ SumsUp(g, S, Sums(g, S)) /\ SumsUp(g, W, Sums(g, W)) /\ IsFiniteSet(W)
        /\ W \in SUBSET S /\ W \in SUBSET W /\ S \in SUBSET S
    BY <1>1, <2>1
  <2>3. Sums(g, S)[W] = Sums(g, W)[W]
    <3> HIDE DEF W
    <3> QED
      BY <2>2, SumsAgree
  <2>4. Sums(g, S)[S] = g[Some(S)] + Sums(g, S)[W]
    BY <1>3, <2>2, SumsStep
  <2> QED
    BY <2>3, <2>4, SumIsChosen
<1> QED
  BY <1>2, <1>3

\* The empty sum.
LEMMA SumOfNone == ASSUME NEW g PROVE SumFunctionOnSet(g, {}) = 0
BY SumUnfolds, FS_EmptySet

\* A sum of naturals is a natural.
LEMMA SumType ==
    ASSUME NEW S, IsFiniteSet(S), NEW g, \A x \in S : g[x] \in Nat
    PROVE  SumFunctionOnSet(g, S) \in Nat
<1> DEFINE Bad == {U \in SUBSET S : SumFunctionOnSet(g, U) \notin Nat}
<1>1. SUFFICES ASSUME Bad # {} PROVE FALSE
  OBVIOUS
<1>2. PICK U \in Bad : \A W \in SUBSET U : W # U => W \notin Bad
  <2>1. Bad \in SUBSET SUBSET S
    OBVIOUS
  <2> HIDE DEF Bad
  <2> QED
    BY <1>1, <2>1, SmallestSubset
<1>3. IsFiniteSet(U) /\ U \subseteq S
  BY <1>2, FS_Subset
<1>4. U # {}
  <2>1. SumFunctionOnSet(g, {}) \in Nat
    BY SumOfNone
  <2>2. SumFunctionOnSet(g, U) \notin Nat
    BY <1>2
  <2> QED
    BY <2>1, <2>2
<1>5. Some(U) \in U
  BY <1>4, SomeIn
<1>6. SumFunctionOnSet(g, U \ {Some(U)}) \in Nat
  <2>1. U \ {Some(U)} \in SUBSET U /\ U \ {Some(U)} # U /\ U \ {Some(U)} \in SUBSET S
    BY <1>3, <1>5
  <2> QED
    BY <1>2, <2>1
<1>7. SumFunctionOnSet(g, U) = g[Some(U)] + SumFunctionOnSet(g, U \ {Some(U)})
  BY <1>3, <1>4, SumUnfolds
<1> QED
  BY <1>2, <1>3, <1>5, <1>6, <1>7

\* Any element may be taken out of a sum.
LEMMA SumRemove ==
    ASSUME NEW S, IsFiniteSet(S), NEW g, \A y \in S : g[y] \in Nat, NEW x \in S
    PROVE  SumFunctionOnSet(g, S) = g[x] + SumFunctionOnSet(g, S \ {x})
<1> DEFINE Sum(U) == SumFunctionOnSet(g, U)
           Bad == {U \in SUBSET S : \E y \in U : Sum(U) # g[y] + Sum(U \ {y})}
<1>1. SUFFICES ASSUME Bad # {} PROVE FALSE
  OBVIOUS
<1>2. PICK U \in Bad : \A W \in SUBSET U : W # U => W \notin Bad
  <2>1. Bad \in SUBSET SUBSET S
    OBVIOUS
  <2> HIDE DEF Bad
  <2> QED
    BY <1>1, <2>1, SmallestSubset
<1>3. PICK y \in U : Sum(U) # g[y] + Sum(U \ {y})
  BY <1>2
<1> DEFINE c == Some(U)
<1>4. U \in SUBSET S /\ c \in U
  BY <1>2, <1>3, SomeIn
<1>5. \A W \in SUBSET U : IsFiniteSet(W) /\ Sum(W) \in Nat
  BY <1>4, FS_Subset, SumType
<1>6. Sum(U) = g[c] + Sum(U \ {c})
  BY <1>4, <1>5, SumUnfolds
<1>7. y # c
  BY <1>3, <1>6
<1>8. \A W \in SUBSET U : W # U => \A z \in W : Sum(W) = g[z] + Sum(W \ {z})
  BY <1>2, <1>4
<1> DEFINE V == (U \ {c}) \ {y}
<1>9. Sum(U \ {c}) = g[y] + Sum(V)
  <2>1. U \ {c} \in SUBSET U /\ U \ {c} # U /\ y \in U \ {c}
    BY <1>3, <1>4, <1>7
  <2> HIDE DEF Sum, c
  <2> QED
    BY <1>8, <2>1
<1>10. Sum(U \ {y}) = g[c] + Sum(V)
  <2>1. U \ {y} \in SUBSET U /\ U \ {y} # U /\ c \in U \ {y} /\ V = (U \ {y}) \ {c}
    BY <1>3, <1>4, <1>7
  <2> HIDE DEF Sum, c, V
  <2> QED
    BY <1>8, <2>1
<1>11. Sum(V) \in Nat /\ g[c] \in Nat /\ g[y] \in Nat
  BY <1>3, <1>4, <1>5
<1> HIDE DEF Sum, c, V
<1> QED
  BY <1>3, <1>6, <1>9, <1>10, <1>11

\* Only the elements summed matter.
LEMMA SumSame ==
    ASSUME NEW S, IsFiniteSet(S), NEW g, NEW h, \A x \in S : g[x] = h[x]
    PROVE  SumFunctionOnSet(g, S) = SumFunctionOnSet(h, S)
<1> DEFINE Bad == {U \in SUBSET S : SumFunctionOnSet(g, U) # SumFunctionOnSet(h, U)}
<1>1. SUFFICES ASSUME Bad # {} PROVE FALSE
  OBVIOUS
<1>2. PICK U \in Bad : \A W \in SUBSET U : W # U => W \notin Bad
  <2>1. Bad \in SUBSET SUBSET S
    OBVIOUS
  <2> HIDE DEF Bad
  <2> QED
    BY <1>1, <2>1, SmallestSubset
<1>3. IsFiniteSet(U) /\ U \subseteq S
  BY <1>2, FS_Subset
<1>4. U # {}
  BY <1>2, SumOfNone
<1>5. Some(U) \in U
  BY <1>4, SomeIn
<1>6. SumFunctionOnSet(g, U \ {Some(U)}) = SumFunctionOnSet(h, U \ {Some(U)})
  <2>1. U \ {Some(U)} \in SUBSET U /\ U \ {Some(U)} # U /\ U \ {Some(U)} \in SUBSET S
    BY <1>3, <1>5
  <2> QED
    BY <1>2, <2>1
<1>7. \A f : SumFunctionOnSet(f, U) = f[Some(U)] + SumFunctionOnSet(f, U \ {Some(U)})
  BY <1>3, <1>4, SumUnfolds
<1>8. g[Some(U)] = h[Some(U)]
  BY <1>3, <1>5
<1>9. SumFunctionOnSet(g, U) = SumFunctionOnSet(h, U)
  BY <1>6, <1>7, <1>8
<1> QED
  BY <1>2, <1>9

\* A sum of at most M each.
LEMMA SumBound ==
    ASSUME NEW S, IsFiniteSet(S), NEW M \in Nat,
           NEW g, \A x \in S : g[x] \in Nat /\ g[x] <= M
    PROVE  SumFunctionOnSet(g, S) <= Cardinality(S) * M
<1> DEFINE Sum(U) == SumFunctionOnSet(g, U)
           Bad == {U \in SUBSET S : ~(Sum(U) <= Cardinality(U) * M)}
<1>1. SUFFICES ASSUME Bad # {} PROVE FALSE
  OBVIOUS
<1>2. PICK U \in Bad : \A W \in SUBSET U : W # U => W \notin Bad
  <2>1. Bad \in SUBSET SUBSET S
    OBVIOUS
  <2> HIDE DEF Bad
  <2> QED
    BY <1>1, <2>1, SmallestSubset
<1>3. IsFiniteSet(U) /\ U \subseteq S
  BY <1>2, FS_Subset
<1>4. U # {}
  <2>1. SUFFICES ASSUME U = {} PROVE FALSE
    OBVIOUS
  <2>2. Sum(U) = 0 /\ Cardinality(U) = 0
    BY <2>1, SumOfNone, FS_EmptySet
  <2> QED
    BY <1>2, <2>2
<1> DEFINE c == Some(U)
           W == U \ {c}
<1>5. c \in U
  BY <1>4, SomeIn
<1>6. Sum(W) <= Cardinality(W) * M
  <2>1. W \in SUBSET U /\ W # U /\ W \in SUBSET S
    BY <1>3, <1>5
  <2> HIDE DEF W, Sum
  <2> QED
    BY <1>2, <2>1
<1>7. Sum(U) = g[c] + Sum(W)
  BY <1>3, <1>4, SumUnfolds
<1>8. Cardinality(U) = Cardinality(W) + 1 /\ Cardinality(W) \in Nat
  <2>1. IsFiniteSet(W) /\ Cardinality(W) = Cardinality(U) - 1
    BY <1>3, <1>5, FS_RemoveElement
  <2>2. Cardinality(W) \in Nat /\ Cardinality(U) \in Nat
    BY <1>3, <2>1, FS_CardinalityType
  <2> QED
    BY <2>1, <2>2
<1>9. Sum(W) \in Nat /\ g[c] \in Nat /\ g[c] <= M
  BY <1>3, <1>5, FS_Subset, SumType
<1> HIDE DEF Sum, c, W
<1>10. \A n, a, b \in Nat : (a <= n * M /\ b <= M) => b + a <= (n + 1) * M
  OBVIOUS
<1>11. Sum(U) <= Cardinality(U) * M
  BY <1>6, <1>7, <1>8, <1>9, <1>10
<1> QED
  BY <1>2, <1>11
=============================================================================
