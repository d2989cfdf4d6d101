----------------------------- MODULE FoldLemmas -----------------------------
(***************************************************************************)
(* Facts about the natural numbers and about folds, for the proofs of what *)
(* the code computes with a loop over a list or a map.  An induction over  *)
(* the natural numbers, or over the subsets of a finite set, is an         *)
(* argument about least elements: strict inclusion is well-founded on the  *)
(* finite subsets of a set.                                                *)
(***************************************************************************)
EXTENDS Integers, Sequences, SequencesExt, FiniteSetTheorems, TLAPS

-----------------------------------------------------------------------------
(* Induction.                                                              *)

(* A set of natural numbers has a least element: of the intervals that end *)
(* in it, one is contained in all others.                                  *)
LEMMA LeastNat ==
  ASSUME NEW T \in SUBSET Nat, T # {}
  PROVE  \E m \in T : \A k \in T : m <= k
  <1> DEFINE R == StrictSubsetOrdering(Nat)
             F == FiniteSubsetsOf(Nat)
             U == {s \in F : \E n \in T : s = 1..n}
  <1>1. IsWellFoundedOn(R, F)
    BY FS_StrictSubsetOrderingWellFounded
  <1>2. \A n \in Nat : 1..n \in F
    BY FS_Interval DEF FiniteSubsetsOf
  <1>3. U \subseteq F /\ U # {}
    BY <1>2
  <1>4. \E x \in U : \A y \in U : ~(<<y, x>> \in R)
    <2> HIDE DEF R, U, F
    <2> QED
      BY ONLY <1>1, <1>3, WFMin
  <1>5. PICK m \in T : \A y \in U : ~(<<y, 1..m>> \in R)
    BY <1>4
  <1>6. ASSUME NEW k \in T, k < m PROVE FALSE
    <2>1. 1..k \in U
      BY <1>2
    <2>2. 1..k \subseteq 1..m /\ m \in 1..m /\ m \notin 1..k
      BY <1>6
    <2>3. 1..k \in SUBSET Nat /\ 1..m \in SUBSET Nat
      OBVIOUS
    <2>4. <<1..k, 1..m>> \in R
      BY <2>2, <2>3 DEF StrictSubsetOrdering
    <2> QED
      BY <1>5, <2>1, <2>4
  <1> QED
    BY <1>6

(* Induction: a set that holds 0, and the successor of each number it      *)
(* holds, holds every natural number.                                      *)
LEMMA NatInduct ==
  ASSUME NEW T \in SUBSET Nat, 0 \in T, \A n \in T : n + 1 \in T
  PROVE  T = Nat
  <1>1. SUFFICES ASSUME Nat \ T # {} PROVE FALSE
    OBVIOUS
  <1>2. PICK m \in Nat \ T : \A k \in Nat \ T : m <= k
    BY <1>1, LeastNat
  <1>3. m - 1 \in Nat /\ ~(m <= m - 1) /\ (m - 1) + 1 = m
    BY <1>2
  <1> QED
    BY <1>2, <1>3

(* Max returns the greatest number of a set that has a bound.              *)
LEMMA GreatestBounded ==
  ASSUME NEW n \in Nat, NEW T \in SUBSET (1..n), T # {}
  PROVE  Max(T) \in T /\ \A k \in T : k <= Max(T)
  <1> DEFINE U == {k \in Nat : n - k \in T}
  <1>1. U # {}
    <2>1. PICK k \in T : TRUE
      OBVIOUS
    <2>2. n - k \in Nat /\ n - (n - k) = k
      BY <2>1
    <2> QED
      BY <2>2
  <1>2. PICK m \in U : \A k \in U : m <= k
    BY <1>1, LeastNat
  <1>3. n - m \in T /\ \A k \in T : k <= n - m
    <2> SUFFICES ASSUME NEW k \in T PROVE k <= n - m
      BY <1>2
    <2>1. n - k \in Nat /\ n - (n - k) = k
      OBVIOUS
    <2>2. m <= n - k
      BY <1>2, <2>1
    <2> QED
      BY <2>2
  <1>4. \A k \in T : n - m >= k
    BY <1>3
  <1>5. Max(T) \in T /\ \A k \in T : Max(T) >= k
    BY <1>3, <1>4 DEF Max
  <1> QED
    BY <1>5

(* Induction over the subsets of a finite set: one holds once all hold     *)
(* that have an element less.                                              *)
LEMMA SubsetInduct ==
  ASSUME NEW D, IsFiniteSet(D), NEW T \in SUBSET SUBSET D,
         \A s \in SUBSET D : (\A x \in s : s \ {x} \in T) => s \in T
  PROVE  T = SUBSET D
  <1>1. SUFFICES ASSUME (SUBSET D) \ T # {} PROVE FALSE
    OBVIOUS
  <1> DEFINE R == StrictSubsetOrdering(D)
             F == FiniteSubsetsOf(D)
             U == (SUBSET D) \ T
  <1>2. IsWellFoundedOn(R, F)
    BY FS_StrictSubsetOrderingWellFounded
  <1>3. U \subseteq F
    BY FS_Subset DEF FiniteSubsetsOf
  <1>4. \E s \in U : \A y \in U : ~(<<y, s>> \in R)
    <2> HIDE DEF R, U, F
    <2> QED
      BY ONLY <1>1, <1>2, <1>3, WFMin DEF U
  <1>5. PICK s \in U : \A y \in U : ~(<<y, s>> \in R)
    BY <1>4
  <1>6. ASSUME NEW x \in s PROVE s \ {x} \in T
    <2>1. <<s \ {x}, s>> \in R
      BY DEF StrictSubsetOrdering
    <2> QED
      BY <1>5, <2>1
  <1> QED
    BY <1>6

-----------------------------------------------------------------------------
(* Folds.                                                                  *)

(* A fold over a finite set D takes the elements of D one at a time: c     *)
(* tells which one goes last, G what it does to the result for the others. *)
ChoosesFrom(c, D) == \A s \in SUBSET D : s # {} => c[s] \in s

StepsIn(G, D, V) == \A s \in SUBSET D, v \in V : s # {} => G[s][v] \in V

FoldOf(g, D, b, c, G) ==
  \A s \in SUBSET D :
    g[s] = IF s = {} THEN b ELSE G[s][g[s \ {c[s]}]]

(* The equation of a fold over a finite set has a solution, whatever the   *)
(* order in which the elements are taken.                                  *)
LEMMA FoldExists ==
  ASSUME NEW D, IsFiniteSet(D), NEW V, NEW b \in V,
         NEW c, ChoosesFrom(c, D), NEW G, StepsIn(G, D, V)
  PROVE  \E g \in [SUBSET D -> V] : FoldOf(g, D, b, c, G)
  <1> USE DEF ChoosesFrom, StepsIn, FoldOf
  <1> DEFINE Upto(n) == {s \in SUBSET D : Cardinality(s) <= n}
             Folds(n, g) == \A s \in Upto(n) :
               g[s] = IF s = {} THEN b ELSE G[s][g[s \ {c[s]}]]
             T == {n \in Nat : \E g \in [Upto(n) -> V] : Folds(n, g)}
  <1>1. \A s \in SUBSET D : IsFiniteSet(s) /\ Cardinality(s) \in Nat
    BY FS_Subset, FS_CardinalityType
  <1>2. \A s \in SUBSET D : s # {} =>
          /\ s \ {c[s]} \in SUBSET D
          /\ Cardinality(s \ {c[s]}) = Cardinality(s) - 1
    BY <1>1, FS_RemoveElement
  <1>3. \A s \in SUBSET D : Cardinality(s) = 0 <=> s = {}
    BY <1>1, FS_EmptySet
  <1>4. 0 \in T
    <2>1. Upto(0) = {{}}
      <3>1. \A s \in SUBSET D : Cardinality(s) <= 0 <=> s = {}
        BY <1>1, <1>3
      <3> QED BY <3>1
    <2> DEFINE g == [s \in Upto(0) |-> b]
    <2>2. g \in [Upto(0) -> V] /\ Folds(0, g)
      BY <2>1
    <2> QED BY <2>2
  <1>5. ASSUME NEW n \in T PROVE n + 1 \in T
    <2>1. PICK g \in [Upto(n) -> V] : Folds(n, g)
      OBVIOUS
    <2> DEFINE f == [s \in Upto(n + 1) |->
                       IF s \in Upto(n) THEN g[s] ELSE G[s][g[s \ {c[s]}]]]
    <2>2. \A s \in Upto(n + 1) : s # {} => s \ {c[s]} \in Upto(n)
      BY <1>1, <1>2
    <2>3. \A s \in Upto(n) : s \in Upto(n + 1)
      BY <1>1
    <2>4. \A s \in Upto(n + 1) : s \in Upto(n) \/ s # {}
      <3>1. {} \in Upto(n)
        BY <1>3
      <3> QED BY <3>1
    <2>5. f \in [Upto(n + 1) -> V]
      BY <2>1, <2>2, <2>4
    <2>6. \A s \in Upto(n + 1) : s # {} => f[s \ {c[s]}] = g[s \ {c[s]}]
      BY <2>2, <2>3
    <2>7. Folds(n + 1, f)
      <3> SUFFICES ASSUME NEW s \in Upto(n + 1)
                   PROVE  f[s] = IF s = {} THEN b ELSE G[s][f[s \ {c[s]}]]
        OBVIOUS
      <3>1. CASE s \in Upto(n)
        BY <2>1, <2>6, <3>1
      <3>2. CASE s \notin Upto(n)
        BY <2>4, <2>6, <3>2
      <3> QED BY <3>1, <3>2
    <2>8. n + 1 \in Nat /\ \E h \in [Upto(n + 1) -> V] : Folds(n + 1, h)
      <3> HIDE DEF f, Upto, Folds
      <3> QED BY <2>5, <2>7
    <2> QED BY <2>8
  <1>6. T = Nat
    <2>1. T \in SUBSET Nat
      OBVIOUS
    <2> HIDE DEF T
    <2> QED BY <1>4, <1>5, <2>1, NatInduct
  <1>7. Upto(Cardinality(D)) = SUBSET D
    BY <1>1, FS_Subset
  <1>8. Cardinality(D) \in T
    BY <1>1, <1>6
  <1> QED BY <1>7, <1>8

(* The last index of a list of i elements, and the indices before it.      *)
LEMMA LastOfPrefix ==
  ASSUME NEW i \in Nat, i # 0
  PROVE  1..i # {} /\ Max(1..i) = i /\ (1..i) \ {i} = 1..(i - 1)
  <1>1. i \in 1..i /\ (1..i) \ {i} = 1..(i - 1)
    OBVIOUS
  <1>2. Max(1..i) \in 1..i /\ \A j \in 1..i : j <= Max(1..i)
    BY <1>1, GreatestBounded
  <1> QED
    BY <1>1, <1>2

-----------------------------------------------------------------------------
(* Sums: FoldFunction with +.                                              *)

(* g[s] is the sum of h over s, for every subset s of D, in the order in   *)
(* which FoldFunction takes the elements.                                  *)
Total(g, D, h) ==
  /\ IsFiniteSet(D) /\ h \in [D -> Nat] /\ g \in [SUBSET D -> Nat]
  /\ \A s \in SUBSET D :
       g[s] = IF s = {} THEN 0
              ELSE h[CHOOSE x \in s : TRUE] + g[s \ {CHOOSE x \in s : TRUE}]

(* The order does not matter: any element may go last.                     *)
Splits(g, D, h) ==
  \A s \in SUBSET D : \A x \in s : g[s] = h[x] + g[s \ {x}]

(* There are such sums.                                                    *)
LEMMA TotalExists ==
  ASSUME NEW D, IsFiniteSet(D), NEW h \in [D -> Nat]
  PROVE  \E g : Total(g, D, h)
  <1> DEFINE c == [s \in SUBSET D |-> CHOOSE x \in s : TRUE]
             G == [s \in SUBSET D |-> [v \in Nat |-> h[c[s]] + v]]
  <1>1. ChoosesFrom(c, D)
    BY DEF ChoosesFrom
  <1>2. StepsIn(G, D, Nat)
    BY <1>1 DEF StepsIn, ChoosesFrom
  <1>3. PICK g \in [SUBSET D -> Nat] : FoldOf(g, D, 0, c, G)
    <2> HIDE DEF c, G
    <2> QED
      BY <1>1, <1>2, FoldExists
  <1>4. ASSUME NEW s \in SUBSET D, s # {}
        PROVE  g[s] = h[CHOOSE x \in s : TRUE] + g[s \ {CHOOSE x \in s : TRUE}]
    <2>1. g[s] = G[s][g[s \ {c[s]}]] /\ c[s] = CHOOSE x \in s : TRUE
      BY <1>3, <1>4 DEF FoldOf
    <2>2. g[s \ {c[s]}] \in Nat
      BY <1>1 DEF ChoosesFrom
    <2> QED
      BY <2>1, <2>2
  <1>5. g[{}] = 0
    BY <1>3 DEF FoldOf
  <1> QED
    BY <1>4, <1>5 DEF Total

(* A sum splits at any of its elements, not only at the one taken last.    *)
LEMMA TotalSplit ==
  ASSUME NEW D, NEW h, NEW g, Total(g, D, h)
  PROVE  Splits(g, D, h)
  <1>0. IsFiniteSet(D) /\ h \in [D -> Nat] /\ g \in [SUBSET D -> Nat]
    BY DEF Total
  <1> DEFINE T == {s \in SUBSET D : \A x \in s : g[s] = h[x] + g[s \ {x}]}
  <1>1. ASSUME NEW s \in SUBSET D, \A x \in s : s \ {x} \in T
        PROVE  s \in T
    <2> SUFFICES ASSUME NEW x \in s PROVE g[s] = h[x] + g[s \ {x}]
      OBVIOUS
    <2> DEFINE y == CHOOSE z \in s : TRUE
    <2>1. y \in s /\ g[s] = h[y] + g[s \ {y}]
      BY DEF Total
    <2> HIDE DEF y
    <2>2. CASE x = y
      BY <2>1, <2>2
    <2>3. CASE x # y
      <3>1. g[s \ {y}] = h[x] + g[(s \ {y}) \ {x}]
        BY <1>1, <2>1, <2>3
      <3>2. g[s \ {x}] = h[y] + g[(s \ {x}) \ {y}]
        BY <1>1, <2>1, <2>3
      <3>3. (s \ {y}) \ {x} = (s \ {x}) \ {y}
        OBVIOUS
      <3>4. h[x] \in Nat /\ h[y] \in Nat /\ g[(s \ {x}) \ {y}] \in Nat
        BY <1>0, <2>1
      <3>5. \A a, b, r \in Nat : a + (b + r) = b + (a + r)
        OBVIOUS
      <3>6. g[s] = h[y] + (h[x] + g[(s \ {x}) \ {y}])
        BY <2>1, <3>1, <3>3
      <3> QED
        BY ONLY <3>2, <3>4, <3>5, <3>6
    <2> QED
      BY <2>2, <2>3
  <1>2. T \in SUBSET SUBSET D
    OBVIOUS
  <1> HIDE DEF T
  <1>3. T = SUBSET D
    BY <1>0, <1>1, <1>2, SubsetInduct
  <1> QED
    BY <1>3 DEF T, Splits

(* k is h on a part E of D outside of which h is 0.                        *)
Nonzero(E, k, D, h) ==
  /\ E \in SUBSET D
  /\ \A x \in D \ E : h[x] = 0
  /\ \A x \in E : k[x] = h[x]

(* Zeros do not add to a sum.                                              *)
LEMMA TotalOfNonzero ==
  ASSUME NEW D, NEW h, NEW g, Total(g, D, h),
         NEW E, NEW k, NEW f, Total(f, E, k),
         Nonzero(E, k, D, h)
  PROVE  f[E] = g[D]
  <1> DEFINE T == {s \in SUBSET D : g[s] = f[s \cap E]}
  <1>0. /\ IsFiniteSet(D) /\ h \in [D -> Nat] /\ g \in [SUBSET D -> Nat]
        /\ f \in [SUBSET E -> Nat]
    BY DEF Total
  <1>f. IsFiniteSet(D)
    BY <1>0
  <1>n. /\ E \in SUBSET D
        /\ \A x \in D \ E : h[x] = 0
        /\ \A x \in E : k[x] = h[x]
    BY DEF Nonzero
  <1>s. Splits(g, D, h) /\ Splits(f, E, k)
    BY ONLY Total(g, D, h), Total(f, E, k), TotalSplit
  <1>1. \A s \in SUBSET D : \A x \in s : g[s] = h[x] + g[s \ {x}]
    BY <1>s DEF Splits
  <1>2. \A s \in SUBSET E : \A x \in s : f[s] = k[x] + f[s \ {x}]
    BY <1>s DEF Splits
  <1>3. ASSUME NEW s \in SUBSET D, \A x \in s : s \ {x} \in T
        PROVE  s \in T
    <2>1. CASE s = {}
      <3>1. g[{}] = 0 /\ f[{}] = 0 /\ {} \cap E = {}
        BY DEF Total
      <3> QED
        BY <2>1, <3>1
    <2>2. CASE s # {}
      <3>1. PICK x \in s : TRUE
        BY <2>2
      <3>2. g[s] = h[x] + f[(s \ {x}) \cap E]
        BY <1>1, <1>3, <3>1
      <3>3. CASE x \in E
        <4>1. s \cap E \in SUBSET E /\ x \in s \cap E
          BY <3>3
        <4>2. (s \cap E) \ {x} = (s \ {x}) \cap E
          OBVIOUS
        <4> QED
          BY <1>2, <1>n, <3>2, <3>3, <4>1, <4>2
      <3>4. CASE x \notin E
        <4>1. (s \ {x}) \cap E = s \cap E /\ h[x] = 0 /\ f[s \cap E] \in Nat
          BY <1>0, <1>n, <3>1, <3>4
        <4> QED
          BY <3>2, <4>1
      <3> QED
        BY <3>3, <3>4
    <2> QED
      BY <2>1, <2>2
  <1>4. T \in SUBSET SUBSET D
    OBVIOUS
  <1> HIDE DEF T
  <1>5. T = SUBSET D
    BY ONLY <1>f, <1>3, <1>4, SubsetInduct
  <1>6. g[D] = f[D \cap E] /\ D \cap E = E
    BY <1>5, <1>n DEF T
  <1> QED
    BY <1>6

(* FoldFunction with + is the sum over the whole domain.                   *)
LEMMA FoldIsTotal ==
  ASSUME NEW D, IsFiniteSet(D), NEW h \in [D -> Nat]
  PROVE  \E g : /\ Total(g, D, h)
                /\ g[D] = FoldFunction(LAMBDA a, b : a + b, 0, h)
  <1> DEFINE Step(f, s) == h[CHOOSE x \in s : TRUE] + f[s \ {CHOOSE x \in s : TRUE}]
             Eq(f) == f = [s \in SUBSET D |-> IF s = {} THEN 0 ELSE Step(f, s)]
             it == CHOOSE f : Eq(f)
  <1>1. FoldFunction(LAMBDA a, b : a + b, 0, h) = it[D]
    <2>1. DOMAIN h = D
      OBVIOUS
    <2> QED
      BY <2>1 DEF FoldFunction, FoldFunctionOnSet, MapThenFoldSet
  <1>2. \E f : Eq(f)
    <2>1. PICK g : Total(g, D, h)
      BY TotalExists
    <2>2. g = [s \in SUBSET D |-> IF s = {} THEN 0 ELSE Step(g, s)]
      BY <2>1 DEF Total
    <2> QED
      BY <2>2
  <1>3. Eq(it)
    <2> HIDE DEF Eq
    <2> QED
      BY <1>2
  <1>4. /\ it = [s \in SUBSET D |-> it[s]]
        /\ \A s \in SUBSET D : it[s] = IF s = {} THEN 0 ELSE Step(it, s)
    <2> HIDE DEF Step, it
    <2> QED
      BY <1>3
  <1> HIDE DEF it
  <1> DEFINE T == {s \in SUBSET D : it[s] \in Nat}
  <1>5. ASSUME NEW s \in SUBSET D, \A x \in s : s \ {x} \in T PROVE s \in T
    <2>1. CASE s = {}
      <3>1. it[s] = 0
        BY <1>4, <2>1
      <3> QED
        BY <3>1
    <2>2. CASE s # {}
      <3> DEFINE y == CHOOSE x \in s : TRUE
      <3>1. y \in s
        BY <2>2
      <3>2. it[s] = h[y] + it[s \ {y}]
        BY <1>4, <2>2
      <3> HIDE DEF y
      <3>3. h[y] \in Nat /\ it[s \ {y}] \in Nat
        BY <1>5, <3>1
      <3>4. h[y] + it[s \ {y}] \in Nat
        BY ONLY <3>3
      <3> QED
        BY <3>2, <3>4
    <2> QED
      BY <2>1, <2>2
  <1>6. T \in SUBSET SUBSET D
    OBVIOUS
  <1> HIDE DEF T
  <1>7. T = SUBSET D
    BY <1>5, <1>6, SubsetInduct
  <1>8. it \in [SUBSET D -> Nat]
    BY <1>4, <1>7 DEF T
  <1>9. Total(it, D, h)
    BY <1>4, <1>8 DEF Total
  <1> QED
    BY <1>1, <1>9
=============================================================================
