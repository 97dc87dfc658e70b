-------------------------------- MODULE Sums --------------------------------
(***************************************************************************)
(* Sums over finite sets.  MapThenSumSet takes the elements in the order   *)
(* that CHOOSE gives; for integers the order makes no difference.  The     *)
(* terms are those of a function, so that each fact is a statement about   *)
(* values; Total(f, S) is a sum of the terms e(x) of an expression where   *)
(* f[x] = e(x) on S, by the definition of the fold and PickIn.             *)
(***************************************************************************)
EXTENDS Integers, FiniteSets, FiniteSetsExt, FiniteSetTheorems, WellFoundedInduction, TLAPS

Pick(s) == CHOOSE x \in s : TRUE

(* The sum of f[x] over the elements of S.                                 *)
Total(f, S) == MapThenSumSet(LAMBDA x : f[x], S)

(* g sums f over every subset of S, in the order of CHOOSE.                *)
Sums(g, f, S) == g = [s \in SUBSET S |-> IF s = {} THEN 0 ELSE f[Pick(s)] + g[s \ {Pick(s)}]]

Terms(f, S) == \A x \in S : f[x] \in Int

LEMMA PickIn == ASSUME NEW s, s # {} PROVE Pick(s) \in s
  BY DEF Pick

(* Of the subsets of S that are in Bad, one has no smaller one in Bad.     *)
LEMMA Smallest ==
    ASSUME NEW S, IsFiniteSet(S), NEW Bad, Bad \subseteq SUBSET S, Bad # {}
    PROVE  \E T \in Bad : \A U \in SUBSET T : U # T => U \notin Bad
<1>1. FiniteSubsetsOf(S) = SUBSET S
  BY FS_FiniteSubsetsOfFinite
<1>2. IsWellFoundedOn(StrictSubsetOrdering(S), SUBSET S)
  BY <1>1, FS_StrictSubsetOrderingWellFounded
<1> HIDE DEF IsWellFoundedOn
<1>3. PICK T \in Bad : \A U \in Bad : <<U, T>> \notin StrictSubsetOrdering(S)
  BY <1>2, WFMin
<1>4. ASSUME NEW U \in SUBSET T, U # T, U \in Bad PROVE FALSE
  <2>1. <<U, T>> \in (SUBSET S) \X (SUBSET S)
    BY <1>4
  <2> QED BY <1>3, <1>4, <2>1 DEF StrictSubsetOrdering
<1> QED BY <1>4

(* Two functions that sum f agree where both are defined.                  *)
LEMMA SumsAgree ==
    ASSUME NEW S, IsFiniteSet(S), NEW f, NEW T, NEW U, S \subseteq T, S \subseteq U,
           NEW g, Sums(g, f, T), NEW h, Sums(h, f, U)
    PROVE  g[S] = h[S]
<1> DEFINE Bad == {s \in SUBSET S : g[s] # h[s]}
<1> SUFFICES ASSUME Bad # {} PROVE FALSE
  OBVIOUS
<1>1. PICK s \in Bad : \A u \in SUBSET s : u # s => u \notin Bad
  <2>1. Bad \subseteq SUBSET S
    OBVIOUS
  <2> HIDE DEF Bad
  <2> QED BY <2>1, Smallest
<1>2. s \in SUBSET T /\ s \in SUBSET U /\ g[s] # h[s]
  OBVIOUS
<1>3. g[s] = (IF s = {} THEN 0 ELSE f[Pick(s)] + g[s \ {Pick(s)}])
  BY <1>2 DEF Sums
<1>4. h[s] = (IF s = {} THEN 0 ELSE f[Pick(s)] + h[s \ {Pick(s)}])
  BY <1>2 DEF Sums
<1>5. s # {}
  BY <1>2, <1>3, <1>4
<1>6. Pick(s) \in s
  BY <1>5, PickIn
<1>7. g[s \ {Pick(s)}] = h[s \ {Pick(s)}]
  BY <1>1, <1>6
<1> QED BY <1>2, <1>3, <1>4, <1>7

(* There is such a function.                                               *)
LEMMA SumsExist ==
    ASSUME NEW S, IsFiniteSet(S), NEW f
    PROVE  \E g : Sums(g, f, S)
<1> DEFINE Bad == {s \in SUBSET S : \A g : ~Sums(g, f, s)}
<1> SUFFICES ASSUME Bad # {} PROVE FALSE
  OBVIOUS
<1>1. PICK T \in Bad : \A u \in SUBSET T : u # T => u \notin Bad
  <2>1. Bad \subseteq SUBSET S
    OBVIOUS
  <2> HIDE DEF Bad
  <2> QED BY <2>1, Smallest
<1> DEFINE Of(s) == CHOOSE g : Sums(g, f, s)
           v == [s \in SUBSET T |-> Of(s)[s]]
           g == [s \in SUBSET T |-> IF s # T THEN v[s] ELSE IF T = {} THEN 0 ELSE f[Pick(T)] + v[T \ {Pick(T)}]]
<1>2. ASSUME NEW s \in SUBSET T, s # T PROVE Sums(Of(s), f, s)
  <2>1. s \in SUBSET S /\ s \notin Bad
    BY <1>1, <1>2
  <2>2. \E h : Sums(h, f, s)
    BY <2>1
  <2> QED BY <2>2
<1>3. ASSUME NEW s \in SUBSET T PROVE g[s] = IF s = {} THEN 0 ELSE f[Pick(s)] + g[s \ {Pick(s)}]
  <2>1. CASE s = T
    <3>1. T # {} => Pick(T) \in T
      BY PickIn
    <3>2. T # {} => g[T \ {Pick(T)}] = v[T \ {Pick(T)}]
      BY <3>1
    <3> QED BY <2>1, <3>2
  <2>2. CASE s # T /\ s = {}
    <3>1. Sums(Of(s), f, s)
      BY <1>2, <2>2
    <3>2. Of(s)[s] = 0
      BY <2>2, <3>1 DEF Sums
    <3> QED BY <2>2, <3>2
  <2>3. CASE s # T /\ s # {}
    <3> DEFINE u == s \ {Pick(s)}
    <3>1. Pick(s) \in s /\ u \in SUBSET T /\ u # T /\ u \subseteq s
      BY <2>3, PickIn
    <3>2. Sums(Of(s), f, s) /\ Sums(Of(u), f, u)
      BY <1>2, <2>3, <3>1
    <3>3. IsFiniteSet(u)
      BY <3>1, FS_Subset
    <3>4. Of(s)[u] = Of(u)[u]
      <4> HIDE DEF Of, u
      <4> QED BY <3>1, <3>2, <3>3, SumsAgree
    <3>5. Of(s)[s] = f[Pick(s)] + Of(s)[u]
      <4> HIDE DEF Of
      <4> QED BY <2>3, <3>2 DEF Sums
    <3>6. g[s] = Of(s)[s] /\ g[u] = Of(u)[u]
      <4> HIDE DEF Of, u
      <4> QED BY <2>3, <3>1
    <3> HIDE DEF Of, g
    <3> QED BY <2>3, <3>4, <3>5, <3>6
  <2> QED BY <2>1, <2>2, <2>3
<1>4. Sums(g, f, T)
  <2>1. g = [s \in SUBSET T |-> g[s]]
    OBVIOUS
  <2> HIDE DEF g
  <2> QED BY <1>3, <2>1 DEF Sums
<1> QED BY <1>4

(* Total is the value of any such function.                                *)
LEMMA TotalIs ==
    ASSUME NEW S, IsFiniteSet(S), NEW f, NEW g, Sums(g, f, S)
    PROVE  Total(f, S) = g[S]
<1> DEFINE h == CHOOSE k : Sums(k, f, S)
<1>1. Sums(h, f, S)
  OBVIOUS
<1>2. Total(f, S) = h[S]
  BY DEF Total, MapThenSumSet, MapThenFoldSet, Sums, Pick
<1> HIDE DEF h
<1>3. h[S] = g[S]
  BY <1>1, SumsAgree
<1> QED BY <1>2, <1>3

(* The facts a reader expects of a sum.                                    *)
LEMMA TotalEmpty == ASSUME NEW f PROVE Total(f, {}) = 0
<1>1. IsFiniteSet({})
  BY FS_EmptySet
<1>2. PICK g : Sums(g, f, {})
  BY <1>1, SumsExist
<1> QED BY <1>1, <1>2, TotalIs DEF Sums

LEMMA TotalPick ==
    ASSUME NEW S, IsFiniteSet(S), S # {}, NEW f
    PROVE  Total(f, S) = f[Pick(S)] + Total(f, S \ {Pick(S)})
<1>1. PICK g : Sums(g, f, S)
  BY SumsExist
<1>2. IsFiniteSet(S \ {Pick(S)})
  BY FS_Subset
<1>3. PICK h : Sums(h, f, S \ {Pick(S)})
  BY <1>2, SumsExist
<1>4. g[S \ {Pick(S)}] = h[S \ {Pick(S)}]
  BY <1>1, <1>2, <1>3, SumsAgree
<1>5. g[S] = f[Pick(S)] + g[S \ {Pick(S)}]
  BY <1>1 DEF Sums
<1> QED BY <1>1, <1>2, <1>3, <1>4, <1>5, TotalIs

(* What holds of no terms, and of T if of T without Pick(T), holds.        *)
LEMMA TotalInt ==
    ASSUME NEW S, IsFiniteSet(S), NEW f, Terms(f, S)
    PROVE  Total(f, S) \in Int
<1> DEFINE Bad == {s \in SUBSET S : Total(f, s) \notin Int}
<1> SUFFICES ASSUME Bad # {} PROVE FALSE
  OBVIOUS
<1>1. PICK T \in Bad : \A u \in SUBSET T : u # T => u \notin Bad
  <2>1. Bad \subseteq SUBSET S
    OBVIOUS
  <2> HIDE DEF Bad
  <2> QED BY <2>1, Smallest
<1>2. T \in SUBSET S /\ Total(f, T) \notin Int /\ IsFiniteSet(T)
  BY FS_Subset
<1>3. T # {}
  BY <1>2, TotalEmpty
<1>4. Pick(T) \in T
  BY <1>3, PickIn
<1>5. Total(f, T \ {Pick(T)}) \in Int
  BY <1>1, <1>2, <1>4
<1>6. f[Pick(T)] \in Int
  BY <1>2, <1>4 DEF Terms
<1>7. Total(f, T) = f[Pick(T)] + Total(f, T \ {Pick(T)})
  BY <1>2, <1>3, TotalPick
<1> QED BY <1>2, <1>5, <1>6, <1>7

(* The order makes no difference.                                          *)
LEMMA TotalRemove ==
    ASSUME NEW S, IsFiniteSet(S), NEW f, Terms(f, S), NEW x \in S
    PROVE  Total(f, S) = f[x] + Total(f, S \ {x})
<1> DEFINE Bad == {s \in SUBSET S : \E y \in s : Total(f, s) # f[y] + Total(f, s \ {y})}
<1> SUFFICES ASSUME Bad # {} PROVE FALSE
  OBVIOUS
<1>1. PICK T \in Bad : \A u \in SUBSET T : u # T => u \notin Bad
  <2>1. Bad \subseteq SUBSET S
    OBVIOUS
  <2> HIDE DEF Bad
  <2> QED BY <2>1, Smallest
<1>2. PICK y \in T : Total(f, T) # f[y] + Total(f, T \ {y})
  OBVIOUS
<1> DEFINE p == Pick(T)
<1>3. T \in SUBSET S /\ IsFiniteSet(T) /\ T # {} /\ p \in T
  BY <1>2, FS_Subset, PickIn
<1> HIDE DEF p
<1>4. Total(f, T) = f[p] + Total(f, T \ {p})
  BY <1>3, TotalPick DEF p
<1>5. y # p
  BY <1>2, <1>4
<1>6. /\ T \ {p} \notin Bad /\ T \ {y} \notin Bad
      /\ y \in T \ {p} /\ p \in T \ {y}
      /\ T \ {p} \in SUBSET S /\ T \ {y} \in SUBSET S
  BY <1>1, <1>3, <1>5
<1> DEFINE rest == (T \ {p}) \ {y}
<1>7. rest = (T \ {y}) \ {p}
  OBVIOUS
<1>8. Total(f, T \ {p}) = f[y] + Total(f, rest) /\ Total(f, T \ {y}) = f[p] + Total(f, rest)
  BY <1>6, <1>7
<1>9. Total(f, rest) \in Int /\ f[y] \in Int /\ f[p] \in Int
  BY <1>3, FS_Subset, TotalInt DEF Terms
<1> HIDE DEF Bad, rest
<1> QED BY <1>2, <1>4, <1>8, <1>9

(* Equal terms, equal sums; smaller terms, smaller sums.                   *)
LEMMA TotalMonotonic ==
    ASSUME NEW S, IsFiniteSet(S), NEW f, NEW g, Terms(f, S), Terms(g, S), \A x \in S : f[x] <= g[x]
    PROVE  Total(f, S) <= Total(g, S)
<1> DEFINE Bad == {s \in SUBSET S : ~(Total(f, s) <= Total(g, s))}
<1> SUFFICES ASSUME Bad # {} PROVE FALSE
  OBVIOUS
<1>1. PICK T \in Bad : \A u \in SUBSET T : u # T => u \notin Bad
  <2>1. Bad \subseteq SUBSET S
    OBVIOUS
  <2> HIDE DEF Bad
  <2> QED BY <2>1, Smallest
<1>2. T \in SUBSET S /\ ~(Total(f, T) <= Total(g, T)) /\ IsFiniteSet(T)
  BY FS_Subset
<1>3. T # {}
  BY <1>2, TotalEmpty
<1> DEFINE p == Pick(T)
           U == T \ {Pick(T)}
<1>4. p \in T /\ U \in SUBSET T /\ U # T /\ IsFiniteSet(U)
  BY <1>2, <1>3, PickIn, FS_Subset
<1>5. Total(f, U) <= Total(g, U) /\ Total(f, U) \in Int /\ Total(g, U) \in Int
  <2>1. Total(f, U) <= Total(g, U)
    BY <1>1, <1>2, <1>4
  <2>2. Terms(f, U) /\ Terms(g, U)
    BY <1>2 DEF Terms
  <2> HIDE DEF U
  <2> QED BY <1>4, <2>1, <2>2, TotalInt
<1>6. Total(f, T) = f[p] + Total(f, U) /\ Total(g, T) = g[p] + Total(g, U)
  BY <1>2, <1>3, TotalPick
<1>7. f[p] \in Int /\ g[p] \in Int /\ f[p] <= g[p]
  BY <1>2, <1>4 DEF Terms
<1> HIDE DEF p, U
<1> QED BY <1>2, <1>5, <1>6, <1>7

LEMMA TotalSame ==
    ASSUME NEW S, IsFiniteSet(S), NEW f, NEW g, Terms(f, S), \A x \in S : f[x] = g[x]
    PROVE  Total(f, S) = Total(g, S)
<1>1. Terms(g, S) /\ \A x \in S : f[x] <= g[x] /\ g[x] <= f[x]
  BY DEF Terms
<1> QED BY <1>1, TotalMonotonic, TotalInt

(* A sum of which one term changes.                                        *)
LEMMA TotalChange ==
    ASSUME NEW S, IsFiniteSet(S), NEW f, NEW g, Terms(f, S), Terms(g, S),
           NEW x \in S, \A y \in S \ {x} : g[y] = f[y]
    PROVE  Total(g, S) = Total(f, S) + g[x] - f[x]
<1>1. IsFiniteSet(S \ {x}) /\ Terms(f, S \ {x})
  BY FS_Subset DEF Terms
<1>2. Total(g, S \ {x}) = Total(f, S \ {x}) /\ Total(f, S \ {x}) \in Int
  BY <1>1, TotalSame, TotalInt
<1>3. f[x] \in Int /\ g[x] \in Int
  BY DEF Terms
<1> QED BY <1>2, <1>3, TotalRemove

LEMMA TotalZero ==
    ASSUME NEW S, IsFiniteSet(S)
    PROVE  Total([x \in S |-> 0], S) = 0
<1> DEFINE Bad == {s \in SUBSET S : Total([x \in S |-> 0], s) # 0}
<1> SUFFICES ASSUME Bad # {} PROVE FALSE
  OBVIOUS
<1>1. PICK T \in Bad : \A u \in SUBSET T : u # T => u \notin Bad
  <2>1. Bad \subseteq SUBSET S
    OBVIOUS
  <2> HIDE DEF Bad
  <2> QED BY <2>1, Smallest
<1>2. T \in SUBSET S /\ Total([x \in S |-> 0], T) # 0 /\ IsFiniteSet(T)
  BY FS_Subset
<1>3. T # {}
  BY <1>2, TotalEmpty
<1>4. Pick(T) \in T
  BY <1>3, PickIn
<1>5. Total([x \in S |-> 0], T \ {Pick(T)}) = 0
  BY <1>1, <1>2, <1>4
<1> QED BY <1>2, <1>3, <1>4, <1>5, TotalPick

LEMMA TotalNat ==
    ASSUME NEW S, IsFiniteSet(S), NEW f, \A x \in S : f[x] \in Nat
    PROVE  Total(f, S) \in Nat
<1>1. Terms(f, S) /\ Terms([x \in S |-> 0], S) /\ \A x \in S : [y \in S |-> 0][x] <= f[x]
  BY DEF Terms
<1>2. Total([x \in S |-> 0], S) <= Total(f, S)
  BY <1>1, TotalMonotonic
<1> QED BY <1>1, <1>2, TotalZero, TotalInt

(* A common factor.                                                        *)
LEMMA TotalScaled ==
    ASSUME NEW S, IsFiniteSet(S), NEW f, Terms(f, S), NEW c \in Int, NEW g, \A x \in S : g[x] = f[x] * c
    PROVE  Total(g, S) = Total(f, S) * c
<1> DEFINE Bad == {s \in SUBSET S : Total(g, s) # Total(f, s) * c}
<1> SUFFICES ASSUME Bad # {} PROVE FALSE
  OBVIOUS
<1>1. PICK T \in Bad : \A u \in SUBSET T : u # T => u \notin Bad
  <2>1. Bad \subseteq SUBSET S
    OBVIOUS
  <2> HIDE DEF Bad
  <2> QED BY <2>1, Smallest
<1>2. T \in SUBSET S /\ Total(g, T) # Total(f, T) * c /\ IsFiniteSet(T)
  BY FS_Subset
<1>3. T # {}
  <2>1. 0 * c = 0
    OBVIOUS
  <2> QED BY <1>2, <2>1, TotalEmpty
<1> DEFINE p == Pick(T)
           U == T \ {Pick(T)}
<1>4. p \in T /\ U \in SUBSET T /\ U # T /\ IsFiniteSet(U)
  BY <1>2, <1>3, PickIn, FS_Subset
<1>5. Total(g, U) = Total(f, U) * c /\ Total(f, U) \in Int
  <2>1. Total(g, U) = Total(f, U) * c
    BY <1>1, <1>2, <1>4
  <2>2. Terms(f, U)
    BY <1>2 DEF Terms
  <2> HIDE DEF U
  <2> QED BY <1>4, <2>1, <2>2, TotalInt
<1>6. Total(f, T) = f[p] + Total(f, U) /\ Total(g, T) = g[p] + Total(g, U)
  BY <1>2, <1>3, TotalPick
<1>7. f[p] \in Int /\ g[p] = f[p] * c
  BY <1>2, <1>4 DEF Terms
<1> HIDE DEF p, U
<1>8. \A a, b \in Int : (a + b) * c = a * c + b * c
  OBVIOUS
<1> QED BY <1>2, <1>5, <1>6, <1>7, <1>8

(* Each term off by e at most, the sum by e for each.                      *)
LEMMA TotalNear ==
    ASSUME NEW S, IsFiniteSet(S), NEW f, NEW g, Terms(f, S), Terms(g, S), NEW k \in Nat, NEW e \in Nat,
           \A x \in S : k * f[x] - g[x] \in (-e)..e
    PROVE  k * Total(f, S) - Total(g, S) \in (-(e * Cardinality(S)))..(e * Cardinality(S))
<1> DEFINE Fits(s) == k * Total(f, s) - Total(g, s) \in (-(e * Cardinality(s)))..(e * Cardinality(s))
           Bad == {s \in SUBSET S : ~Fits(s)}
<1> SUFFICES ASSUME Bad # {} PROVE FALSE
  OBVIOUS
<1>1. PICK T \in Bad : \A u \in SUBSET T : u # T => u \notin Bad
  <2>1. Bad \subseteq SUBSET S
    OBVIOUS
  <2> HIDE DEF Bad
  <2> QED BY <2>1, Smallest
<1>2. T \in SUBSET S /\ ~Fits(T) /\ IsFiniteSet(T)
  BY FS_Subset
<1>3. T # {}
  <2>1. k * 0 - 0 = 0 /\ e * 0 = 0
    OBVIOUS
  <2> QED BY <1>2, <2>1, TotalEmpty, FS_EmptySet
<1> DEFINE p == Pick(T)
           U == T \ {Pick(T)}
<1>4. p \in T /\ U \in SUBSET T /\ U # T /\ IsFiniteSet(U)
  BY <1>2, <1>3, PickIn, FS_Subset
<1>5. Cardinality(T) = Cardinality(U) + 1 /\ Cardinality(U) \in Nat
  BY <1>2, <1>4, FS_RemoveElement, FS_CardinalityType
<1>6. Fits(U) /\ Total(f, U) \in Int /\ Total(g, U) \in Int
  <2>1. Fits(U)
    BY <1>1, <1>2, <1>4
  <2>2. Terms(f, U) /\ Terms(g, U)
    BY <1>2 DEF Terms
  <2> HIDE DEF U
  <2> QED BY <1>4, <2>1, <2>2, TotalInt
<1>7. Total(f, T) = f[p] + Total(f, U) /\ Total(g, T) = g[p] + Total(g, U)
  BY <1>2, <1>3, TotalPick
<1>8. f[p] \in Int /\ g[p] \in Int /\ k * f[p] - g[p] \in (-e)..e
  BY <1>2, <1>4 DEF Terms
<1> HIDE DEF p, U
<1>9. \A a, b \in Int : k * (a + b) = k * a + k * b /\ k * a \in Int
  OBVIOUS
<1>10. e * (Cardinality(U) + 1) = e * Cardinality(U) + e /\ e * Cardinality(U) \in Nat
  BY <1>5
<1>11. k * Total(f, T) - Total(g, T) = (k * Total(f, U) - Total(g, U)) + (k * f[p] - g[p])
  BY <1>6, <1>7, <1>8, <1>9
<1>12. k * Total(f, T) - Total(g, T) \in (-(e * Cardinality(U) + e))..(e * Cardinality(U) + e)
  BY <1>6, <1>8, <1>10, <1>11
<1> QED BY <1>2, <1>5, <1>10, <1>12
=============================================================================
