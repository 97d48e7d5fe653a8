------------------------- MODULE Reconciliation_proofs ------------------------
(***************************************************************************)
(* Reconciliation runs, exports and usage metrics, for all constants: what *)
(* a run froze stays true and what it counted stays in its exports,        *)
(* whatever the payment operations do afterwards; counters taken from      *)
(* separate tables agree, because the rows they count stand for each other *)
(* one to one.                                                             *)
(***************************************************************************)
EXTENDS UsageMetrics, PaymentAccounts_proofs, FiniteSetTheorems, WellFoundedInduction

-------------------------------------------------------------------------------
(* Counting *)

\* Sets that a relation pairs one to one have the same number of members.
LEMMA Paired ==
  ASSUME NEW S, NEW T, NEW R, IsFiniteSet(T),
         \A s \in S : \E t \in T : <<s, t>> \in R,
         \A t \in T : \E s \in S : <<s, t>> \in R,
         \A s \in S, t, u \in T : <<s, t>> \in R /\ <<s, u>> \in R => t = u,
         \A r, s \in S, t \in T : <<r, t>> \in R /\ <<s, t>> \in R => r = s
  PROVE  IsFiniteSet(S) /\ Cardinality(S) = Cardinality(T)
<1> DEFINE f == [s \in S |-> CHOOSE t \in T : <<s, t>> \in R]
<1>1. \A s \in S : f[s] \in T /\ <<s, f[s]>> \in R
  OBVIOUS
<1>2. f \in [S -> T]
  BY <1>1
<1>3. \A r, s \in S : f[r] = f[s] => r = s
  BY <1>1
<1>4. \A t \in T : \E s \in S : f[s] = t
  BY <1>1
<1> HIDE DEF f
<1>5. f \in Injection(S, T)
  BY <1>2, <1>3 DEF Injection, IsInjective
<1>6. f \in Surjection(S, T)
  BY <1>2, <1>4 DEF Surjection
<1>7. QED
  BY <1>5, <1>6, FS_Injection

\* The number of members of two sets without a common one.
LEMMA CountApart ==
  ASSUME NEW S, NEW T, IsFiniteSet(S), IsFiniteSet(T), S \cap T = {}
  PROVE  /\ IsFiniteSet(S \cup T)
         /\ Cardinality(S \cup T) = Cardinality(S) + Cardinality(T)
<1>1. Cardinality(S \cap T) = 0
  BY FS_EmptySet
<1>2. Cardinality(S) \in Nat /\ Cardinality(T) \in Nat
  BY FS_CardinalityType
<1>3. /\ IsFiniteSet(S \cup T)
      /\ Cardinality(S \cup T) = Cardinality(S) + Cardinality(T) - Cardinality(S \cap T)
  BY FS_Union
<1>4. QED
  BY <1>1, <1>2, <1>3

\* A set that a function maps into a finite one without repeating itself is
\* finite and no larger, and as large when the function reaches every member.
LEMMA Numbered ==
  ASSUME NEW S, NEW T, IsFiniteSet(T), NEW f, f \in [S -> T],
         \A r, s \in S : f[r] = f[s] => r = s
  PROVE  /\ IsFiniteSet(S)
         /\ Cardinality(S) \in Nat /\ Cardinality(T) \in Nat
         /\ Cardinality(S) <= Cardinality(T)
         /\ (\A t \in T : \E s \in S : f[s] = t) => Cardinality(S) = Cardinality(T)
<1>1. f \in Injection(S, T)
  BY DEF Injection, IsInjective
<1>2. /\ IsFiniteSet(S) /\ Cardinality(S) <= Cardinality(T)
      /\ Cardinality(S) = Cardinality(T) <=> f \in Surjection(S, T)
  BY <1>1, FS_Injection
<1>3. Cardinality(S) \in Nat /\ Cardinality(T) \in Nat
  BY <1>2, FS_CardinalityType
<1>4. (\A t \in T : \E s \in S : f[s] = t) => f \in Surjection(S, T)
  BY DEF Surjection
<1>5. QED
  BY <1>2, <1>3, <1>4

-------------------------------------------------------------------------------
(* Sums *)

\* A family of subsets of a finite set has a member that contains no other.
LEMMA MinimalMember ==
  ASSUME NEW U, IsFiniteSet(U), NEW F, F \subseteq SUBSET U, F # {}
  PROVE  \E T \in F : \A V \in F : V \subseteq T => V = T
<1>1. FiniteSubsetsOf(U) = SUBSET U
  BY FS_FiniteSubsetsOfFinite
<1>2. IsWellFoundedOn(StrictSubsetOrdering(U), SUBSET U)
  BY <1>1, FS_StrictSubsetOrderingWellFounded
<1>3. PICK T \in F : \A V \in F : ~ (<<V, T>> \in StrictSubsetOrdering(U))
  BY <1>2, WFMin
<1>4. ASSUME NEW V \in F, V \subseteq T, V # T
      PROVE  FALSE
  <2>1. <<V, T>> \in (SUBSET U) \X (SUBSET U)
    OBVIOUS
  <2>2. <<V, T>> \in StrictSubsetOrdering(U)
    BY <1>4, <2>1 DEF StrictSubsetOrdering
  <2>3. QED
    BY <1>3, <2>2
<1>5. QED
  BY <1>4

\* Induction over the subsets of a finite set, for a family of them.
LEMMA SetInduction ==
  ASSUME NEW U, IsFiniteSet(U), NEW F,
         \A T \in SUBSET U : (\A V \in SUBSET T : V # T => V \in F) => T \in F
  PROVE  \A T \in SUBSET U : T \in F
<1>1. PICK G : G = (SUBSET U) \ F
  OBVIOUS
<1>2. SUFFICES ASSUME G # {} PROVE FALSE
  BY <1>1
<1>3. PICK T \in G : \A V \in G : V \subseteq T => V = T
  BY <1>1, <1>2, MinimalMember
<1>4. T \in SUBSET U /\ \A V \in SUBSET T : V # T => V \in F
  BY <1>1, <1>3
<1>5. QED
  BY <1>1, <1>3, <1>4

\* The member that MapThenSumSet takes out of T first.
Chosen(T) == CHOOSE x \in T : TRUE

\* It is a member.
LEMMA ChosenIn == \A T : T # {} => Chosen(T) \in T
BY DEF Chosen

\* g[T] is the sum of f over T, provided that of the rest is one.
SumStep(g, f, T) == IF T = {} THEN 0 ELSE f[Chosen(T)] + g[T \ {Chosen(T)}]

\* g has the sum of f over each subset of U.
Sums(g, f, U) == \A T \in SUBSET U : g[T] = SumStep(g, f, T)

\* Sums of the same numbers are the same.
LEMMA SumsAgree ==
  ASSUME NEW U, IsFiniteSet(U), NEW V, IsFiniteSet(V), NEW W, W \subseteq U, W \subseteq V,
         NEW f, NEW e, \A x \in W : e[x] = f[x], NEW g, NEW h, Sums(g, f, U), Sums(h, e, V)
  PROVE  \A T \in SUBSET W : g[T] = h[T]
<1> DEFINE F == {T \in SUBSET W : g[T] = h[T]}
<1>1. ASSUME NEW T \in SUBSET W, \A X \in SUBSET T : X # T => X \in F
      PROVE  g[T] = h[T]
  <2>1. g[T] = SumStep(g, f, T) /\ h[T] = SumStep(h, e, T)
    BY DEF Sums
  <2>2. CASE T = {}
    BY <2>1, <2>2 DEF SumStep
  <2>3. CASE T # {}
    <3>1. PICK x \in T : x = Chosen(T)
      BY <2>3, ChosenIn
    <3>2. T \ {x} \in F
      BY <1>1
    <3>3. QED
      BY <2>1, <2>3, <3>1, <3>2 DEF SumStep
  <2>4. QED
    BY <2>2, <2>3
<1>2. IsFiniteSet(W)
  BY FS_Subset
<1>3. \A T \in SUBSET W : (\A X \in SUBSET T : X # T => X \in F) => T \in F
  BY <1>1
<1> HIDE DEF F
<1>4. \A T \in SUBSET W : T \in F
  BY <1>2, <1>3, SetInduction
<1>5. QED
  BY <1>4 DEF F

\* Sums exist: the recursion by which MapThenSumSet defines them defines something.
LEMMA SumsExist ==
  ASSUME NEW U, IsFiniteSet(U), NEW f
  PROVE  \E g : g = [T \in SUBSET U |-> g[T]] /\ Sums(g, f, U)
<1> DEFINE F == {T \in SUBSET U : \E g : Sums(g, f, T)}
<1>1. ASSUME NEW T \in SUBSET U, \A X \in SUBSET T : X # T => X \in F
      PROVE  \E g : Sums(g, f, T)
  <2>1. CASE T = {}
    <3>1. PICK g : g = [X \in SUBSET T |-> 0]
      OBVIOUS
    <3>2. Sums(g, f, T)
      BY <2>1, <3>1 DEF Sums, SumStep
    <3>3. QED
      BY <3>2
  <2>2. CASE T # {}
    <3>1. PICK x \in T : x = Chosen(T)
      BY <2>2, ChosenIn
    <3> DEFINE of == [X \in SUBSET T |-> CHOOSE g : Sums(g, f, X)]
               g == [X \in SUBSET T |-> IF X = T THEN f[x] + of[T \ {x}][T \ {x}] ELSE of[X][X]]
    <3>2. \A X \in SUBSET T : X # T => Sums(of[X], f, X)
      BY <1>1
    <3>3. \A X \in SUBSET T : g[X] = IF X = T THEN f[x] + of[T \ {x}][T \ {x}] ELSE of[X][X]
      OBVIOUS
    <3> HIDE DEF of, g
    <3>4. g[T] = SumStep(g, f, T)
      BY <2>2, <3>1, <3>3 DEF SumStep
    <3>5. ASSUME NEW X \in SUBSET T, X # T
          PROVE  g[X] = SumStep(g, f, X)
      <4>1. g[X] = of[X][X] /\ Sums(of[X], f, X)
        BY <3>2, <3>3, <3>5
      <4>2. of[X][X] = SumStep(of[X], f, X)
        BY <4>1 DEF Sums
      <4>3. CASE X = {}
        BY <4>1, <4>2, <4>3 DEF SumStep
      <4>4. CASE X # {}
        <5>1. PICK y \in X : y = Chosen(X)
          BY <4>4, ChosenIn
        <5>2. PICK Y \in SUBSET T : Y = X \ {y}
          OBVIOUS
        <5>3. Y # T /\ Y \subseteq X
          BY <5>2
        <5>4. g[Y] = of[Y][Y] /\ Sums(of[Y], f, Y)
          BY <3>2, <3>3, <5>3
        <5>5. IsFiniteSet(X) /\ IsFiniteSet(Y)
          BY FS_Subset
        <5>6. of[X][Y] = of[Y][Y]
          BY <4>1, <5>3, <5>4, <5>5, SumsAgree
        <5>7. of[X][X] = f[y] + of[X][Y]
          BY <4>2, <4>4, <5>1, <5>2, Zenon DEF SumStep
        <5>8. SumStep(g, f, X) = f[y] + g[Y]
          BY <4>4, <5>1, <5>2, Zenon DEF SumStep
        <5>9. QED
          BY <4>1, <5>4, <5>6, <5>7, <5>8, Zenon
      <4>5. QED
        BY <4>3, <4>4
    <3>6. Sums(g, f, T)
      BY <3>4, <3>5 DEF Sums
    <3>7. QED
      BY <3>6
  <2>3. QED
    BY <2>1, <2>2
<1>2. \A T \in SUBSET U : (\A X \in SUBSET T : X # T => X \in F) => T \in F
  BY <1>1
<1> HIDE DEF F
<1>3. \A T \in SUBSET U : T \in F
  BY <1>2, SetInduction
<1>4. PICK h : Sums(h, f, U)
  BY <1>3 DEF F
<1>5. PICK g : g = [T \in SUBSET U |-> h[T]]
  OBVIOUS
<1>6. \A T \in SUBSET U : g[T] = SumStep(g, f, T)
  <2> SUFFICES ASSUME NEW T \in SUBSET U PROVE g[T] = SumStep(g, f, T)
    OBVIOUS
  <2>1. g[T] = h[T] /\ h[T] = SumStep(h, f, T)
    BY <1>4, <1>5 DEF Sums
  <2>2. T # {} => g[T \ {Chosen(T)}] = h[T \ {Chosen(T)}]
    BY <1>5
  <2>3. QED
    BY <2>1, <2>2 DEF SumStep
<1>7. g = [T \in SUBSET U |-> g[T]]
  BY <1>5
<1>8. QED
  BY <1>6, <1>7 DEF Sums

\* A sum does not depend on which member is taken out first.
LEMMA SumsTakeAny ==
  ASSUME NEW U, IsFiniteSet(U), NEW f, \A x \in U : f[x] \in Nat,
         NEW g, Sums(g, f, U)
  PROVE  \A T \in SUBSET U : g[T] \in Nat /\ \A x \in T : g[T] = f[x] + g[T \ {x}]
<1> DEFINE F == {T \in SUBSET U :
                   g[T] \in Nat /\ \A x \in T : g[T] = f[x] + g[T \ {x}]}
<1>1. ASSUME NEW T \in SUBSET U, \A X \in SUBSET T : X # T => X \in F
      PROVE  g[T] \in Nat /\ \A x \in T : g[T] = f[x] + g[T \ {x}]
  <2>1. g[T] = SumStep(g, f, T)
    BY DEF Sums
  <2>2. CASE T = {}
    BY <2>1, <2>2 DEF SumStep
  <2>3. CASE T # {}
    <3>1. PICK y \in T : y = Chosen(T)
      BY <2>3, ChosenIn
    <3>2. g[T] = f[y] + g[T \ {y}]
      BY <2>1, <2>3, <3>1 DEF SumStep
    <3>3. T \ {y} \in F /\ f[y] \in Nat
      BY <1>1
    <3>4. g[T \ {y}] \in Nat
      BY <3>3
    <3>5. ASSUME NEW x \in T, x # y
          PROVE  g[T] = f[x] + g[T \ {x}]
      <4>1. T \ {x} \in F /\ f[x] \in Nat
        BY <1>1
      <4>2. PICK Y : Y = (T \ {x}) \ {y}
        OBVIOUS
      <4>3. Y = (T \ {y}) \ {x} /\ Y \in F
        BY <1>1, <4>2
      <4>4. g[T \ {y}] = f[x] + g[Y]
        BY <3>3, <3>5, <4>3
      <4>5. g[T \ {x}] = f[y] + g[Y]
        BY <3>5, <4>1, <4>2
      <4>6. g[Y] \in Nat
        BY <4>3
      <4> HIDE DEF F
      <4>7. QED
        BY <3>2, <3>3, <4>1, <4>4, <4>5, <4>6
    <3> HIDE DEF F
    <3>6. g[T] \in Nat
      BY <3>2, <3>3, <3>4
    <3>7. \A x \in T : g[T] = f[x] + g[T \ {x}]
      BY <3>2, <3>5
    <3>8. QED
      BY <3>6, <3>7
  <2>4. QED
    BY <2>2, <2>3
<1>2. \A T \in SUBSET U : (\A X \in SUBSET T : X # T => X \in F) => T \in F
  BY <1>1
<1> HIDE DEF F
<1>3. \A T \in SUBSET U : T \in F
  BY <1>2, SetInduction
<1>4. QED
  BY <1>3 DEF F

\* The sum of two sets without a common member is the sum of their sums.
LEMMA SumsOfApart ==
  ASSUME NEW U, IsFiniteSet(U), NEW f, \A x \in U : f[x] \in Nat,
         NEW g, Sums(g, f, U), NEW B \in SUBSET U
  PROVE  \A A \in SUBSET U : A \cap B = {} => g[A \cup B] = g[A] + g[B]
<1> DEFINE F == {A \in SUBSET U : A \cap B = {} => g[A \cup B] = g[A] + g[B]}
<1>1. \A T \in SUBSET U : g[T] \in Nat /\ \A x \in T : g[T] = f[x] + g[T \ {x}]
  BY SumsTakeAny
<1>2. ASSUME NEW A \in SUBSET U, \A X \in SUBSET A : X # A => X \in F, A \cap B = {}
      PROVE  g[A \cup B] = g[A] + g[B]
  <2>1. CASE A = {}
    <3>1. g[{}] = 0
      BY DEF Sums, SumStep
    <3>2. A \cup B = B /\ g[B] \in Nat
      BY <1>1, <2>1
    <3>3. QED
      BY <2>1, <3>1, <3>2
  <2>2. CASE A # {}
    <3>1. PICK x \in A : TRUE
      BY <2>2
    <3>2. PICK X : X = A \ {x}
      OBVIOUS
    <3>3. X \in F /\ X \cap B = {} /\ X \in SUBSET U
      BY <1>2, <3>2
    <3>4. g[X \cup B] = g[X] + g[B]
      BY <3>3
    <3>5. X \cup B = (A \cup B) \ {x} /\ A \cup B \in SUBSET U /\ x \in A \cup B
      BY <1>2, <3>2
    <3>6. g[A \cup B] = f[x] + g[X \cup B]
      BY <1>1, <3>5
    <3>7. g[A] = f[x] + g[X]
      BY <1>1, <3>2
    <3>8. g[X] \in Nat /\ g[B] \in Nat /\ f[x] \in Nat
      BY <1>1, <3>3
    <3>9. QED
      BY <3>4, <3>6, <3>7, <3>8
  <2>3. QED
    BY <2>1, <2>2
<1>3. \A A \in SUBSET U : (\A X \in SUBSET A : X # A => X \in F) => A \in F
  BY <1>2
<1> HIDE DEF F
<1>4. \A A \in SUBSET U : A \in F
  BY <1>3, SetInduction
<1>5. QED
  BY <1>4 DEF F

\* m measures the subsets of U: what two of them without a common member have
\* together is what they have together in m.
Measures(m, U) ==
  /\ m[{}] = 0
  /\ \A A \in SUBSET U : m[A] \in Nat
  /\ \A A, B \in SUBSET U : A \cap B = {} => m[A \cup B] = m[A] + m[B]

\* What is sorted into groups is, in all, what the groups have in sum.
LEMMA SumOfGroups ==
  ASSUME NEW U, NEW m, Measures(m, U),
         NEW S, IsFiniteSet(S), NEW group \in [U -> S],
         NEW f, \A s \in S : f[s] = m[{u \in U : group[u] = s}],
         NEW g, Sums(g, f, S)
  PROVE  g[S] = m[U]
<1> DEFINE In(T) == {u \in U : group[u] \in T}
           F == {T \in SUBSET S : g[T] = m[In(T)]}
<1>1. \A s \in S : f[s] \in Nat
  BY DEF Measures
<1>2. \A T \in SUBSET S : g[T] \in Nat /\ \A x \in T : g[T] = f[x] + g[T \ {x}]
  BY <1>1, SumsTakeAny
<1>3. ASSUME NEW T \in SUBSET S, \A X \in SUBSET T : X # T => X \in F
      PROVE  g[T] = m[In(T)]
  <2>1. CASE T = {}
    <3>1. In(T) = {}
      BY <2>1
    <3>2. QED
      BY <2>1, <3>1 DEF Sums, SumStep, Measures
  <2>2. CASE T # {}
    <3>1. PICK x \in T : TRUE
      BY <2>2
    <3>2. PICK X : X = T \ {x}
      OBVIOUS
    <3>3. g[X] = m[In(X)]
      BY <1>3, <3>2
    <3>4. PICK One : One = {u \in U : group[u] = x}
      OBVIOUS
    <3>5. In(T) = One \cup In(X) /\ One \cap In(X) = {}
      BY <3>2, <3>4
    <3>6. One \in SUBSET U /\ In(X) \in SUBSET U
      BY <3>4
    <3> HIDE DEF In
    <3>7. m[In(T)] = m[One] + m[In(X)]
      BY <3>5, <3>6 DEF Measures
    <3>8. f[x] = m[One]
      BY <3>1, <3>4
    <3>9. QED
      BY <1>2, <3>2, <3>3, <3>7, <3>8
  <2>3. QED
    BY <2>1, <2>2
<1>4. \A T \in SUBSET S : (\A X \in SUBSET T : X # T => X \in F) => T \in F
  BY <1>3
<1>5. In(S) = U
  OBVIOUS
<1> HIDE DEF F, In
<1>6. \A T \in SUBSET S : T \in F
  BY <1>4, SetInduction
<1>7. g[S] = m[In(S)]
  BY <1>6 DEF F
<1>8. QED
  BY <1>5, <1>7

-------------------------------------------------------------------------------
(* Printed amounts *)

\* An amount that has no more decimals than are printed.
Whole(n) == n % Precision = 0

\* It counts units of the last decimal.
LEMMA WholeIs ==
  ASSUME NEW n \in Nat
  PROVE  Whole(n) <=> \E k \in Nat : n = Precision * k
<1>1. n = Precision * (n \div Precision) + (n % Precision) /\ n \div Precision \in Nat
  BY PrecisionAssumption
<1>2. Whole(n) => n = Precision * (n \div Precision)
  BY <1>1, PrecisionAssumption DEF Whole
<1>3. ASSUME NEW k \in Nat, n = Precision * k
      PROVE  Whole(n)
  BY <1>3, PrecisionAssumption DEF Whole
<1>4. QED
  BY <1>1, <1>2, <1>3

\* So does a sum of such amounts.
LEMMA WholesAdd ==
  ASSUME NEW n \in Nat, NEW k \in Nat, Whole(n), Whole(k)
  PROVE  Whole(n + k)
<1>1. PICK i \in Nat : n = Precision * i
  BY WholeIs
<1>2. PICK j \in Nat : k = Precision * j
  BY WholeIs
<1>3. n + k = Precision * (i + j) /\ i + j \in Nat /\ n + k \in Nat
  BY <1>1, <1>2, PrecisionAssumption
<1>4. QED
  BY <1>3, WholeIs

\* A printed amount is half a unit of the last decimal off at most, and is exact
\* when there are no decimals to round.
Near(n, exact) == 2 * n <= 2 * exact + Precision /\ 2 * exact <= 2 * n + Precision

\* formatRatAmount rounds to the nearest.
LEMMA FormattedIsNear ==
  ASSUME NEW n \in Nat
  PROVE  /\ formatRatAmount(n) \in Nat
         /\ Near(formatRatAmount(n), n)
         /\ Whole(n) => formatRatAmount(n) = n
<1>1. n % Precision \in 0 .. Precision - 1 /\ n % Precision <= n
  BY PrecisionAssumption
<1>2. QED
  BY <1>1, PrecisionAssumption DEF formatRatAmount, Near, Whole

\* g adds up the numbers that f has for the members of U.
AddsUp(g, f, U) == IsFiniteSet(U) /\ (\A x \in U : f[x] \in Nat) /\ Sums(g, f, U)

\* What SumsTakeAny says of such sums.
LEMMA AddsUpTakesAny ==
  ASSUME NEW U, NEW f, NEW g, AddsUp(g, f, U)
  PROVE  \A T \in SUBSET U : g[T] \in Nat /\ \A x \in T : g[T] = f[x] + g[T \ {x}]
BY SumsTakeAny DEF AddsUp

\* Sums of numbers that are near each other are as near as there are numbers.
LEMMA SumsAreNear ==
  ASSUME NEW U, NEW f, NEW e, \A x \in U : Near(f[x], e[x]),
         NEW g, NEW h, AddsUp(g, f, U), AddsUp(h, e, U)
  PROVE  LET n == Precision * Cardinality(U)
         IN  /\ g[U] \in Nat /\ h[U] \in Nat /\ n \in Nat
             /\ 2 * g[U] <= 2 * h[U] + n
             /\ 2 * h[U] <= 2 * g[U] + n
<1> DEFINE Close(T) == LET n == Precision * Cardinality(T)
                       IN  2 * g[T] <= 2 * h[T] + n /\ 2 * h[T] <= 2 * g[T] + n
           F == {T \in SUBSET U : Close(T)}
<1>1. IsFiniteSet(U) /\ \A T \in SUBSET U : IsFiniteSet(T) /\ Cardinality(T) \in Nat
  BY FS_Subset, FS_CardinalityType DEF AddsUp
<1>2. \A T \in SUBSET U : g[T] \in Nat /\ \A x \in T : g[T] = f[x] + g[T \ {x}]
  BY AddsUpTakesAny
<1>3. \A T \in SUBSET U : h[T] \in Nat /\ \A x \in T : h[T] = e[x] + h[T \ {x}]
  BY AddsUpTakesAny
<1>4. ASSUME NEW T \in SUBSET U, \A X \in SUBSET T : X # T => X \in F
      PROVE  Close(T)
  <2>1. CASE T = {}
    <3>1. g[T] = 0 /\ h[T] = 0
      BY <2>1 DEF AddsUp, Sums, SumStep
    <3>2. Cardinality(T) = 0
      BY <2>1, FS_EmptySet
    <3>3. QED
      BY <3>1, <3>2, PrecisionAssumption
  <2>2. CASE T # {}
    <3>1. PICK x \in T : TRUE
      BY <2>2
    <3>2. PICK X : X = T \ {x}
      OBVIOUS
    <3>3. X \in F /\ X \in SUBSET U
      BY <1>4, <3>2
    <3>4. Close(X)
      BY <3>3
    <3>5. g[T] = f[x] + g[X] /\ h[T] = e[x] + h[X] /\ g[X] \in Nat /\ h[X] \in Nat
      BY <1>2, <1>3, <3>2, <3>3
    <3>6. f[x] \in Nat /\ e[x] \in Nat /\ Near(f[x], e[x])
      BY DEF AddsUp
    <3>7. Cardinality(T) = Cardinality(X) + 1 /\ Cardinality(X) \in Nat
      <4>1. IsFiniteSet(T) /\ Cardinality(T) \in Nat /\ Cardinality(X) \in Nat
        BY <1>1, <3>3
      <4>2. Cardinality(X) = Cardinality(T) - 1
        BY <3>1, <3>2, <4>1, FS_RemoveElement
      <4>3. QED
        BY <4>1, <4>2
    <3>8. PICK n \in Nat : n = Precision * Cardinality(X)
      BY <3>7, PrecisionAssumption
    <3>9. Precision * Cardinality(T) = n + Precision
      BY <3>7, <3>8, PrecisionAssumption
    <3>10. 2 * g[X] <= 2 * h[X] + n /\ 2 * h[X] <= 2 * g[X] + n
      BY <3>4, <3>8
    <3>11. QED
      BY <3>5, <3>6, <3>9, <3>10, PrecisionAssumption DEF Near
  <2>3. QED
    BY <2>1, <2>2
<1>5. \A T \in SUBSET U : (\A X \in SUBSET T : X # T => X \in F) => T \in F
  BY <1>4
<1> HIDE DEF F
<1>6. \A T \in SUBSET U : T \in F
  BY <1>1, <1>5, SetInduction
<1>7. Close(U)
  BY <1>6 DEF F
<1>8. g[U] \in Nat /\ h[U] \in Nat /\ Precision * Cardinality(U) \in Nat
  BY <1>1, <1>2, <1>3, PrecisionAssumption
<1>9. QED
  BY <1>7, <1>8

\* A sum of amounts without decimals to round has none.
LEMMA SumsOfWhole ==
  ASSUME NEW U, IsFiniteSet(U), NEW f, \A x \in U : f[x] \in Nat /\ Whole(f[x]),
         NEW g, Sums(g, f, U)
  PROVE  Whole(g[U])
<1> DEFINE F == {T \in SUBSET U : Whole(g[T])}
<1>1. \A T \in SUBSET U : g[T] \in Nat /\ \A x \in T : g[T] = f[x] + g[T \ {x}]
  BY SumsTakeAny
<1>2. ASSUME NEW T \in SUBSET U, \A X \in SUBSET T : X # T => X \in F
      PROVE  Whole(g[T])
  <2>1. CASE T = {}
    <3>1. g[T] = 0
      BY <2>1 DEF Sums, SumStep
    <3>2. 0 = Precision * 0
      BY PrecisionAssumption
    <3>3. QED
      BY <3>1, <3>2, WholeIs
  <2>2. CASE T # {}
    <3>1. PICK x \in T : TRUE
      BY <2>2
    <3>2. PICK X : X = T \ {x}
      OBVIOUS
    <3>3. X \in F /\ X \in SUBSET U
      BY <1>2, <3>2
    <3>4. Whole(g[X]) /\ g[X] \in Nat
      BY <1>1, <3>3
    <3>5. f[x] \in Nat /\ Whole(f[x]) /\ g[T] = f[x] + g[X]
      BY <1>1, <3>2
    <3>6. Whole(f[x] + g[X])
      BY <3>4, <3>5, WholesAdd
    <3>7. QED
      BY <3>5, <3>6
  <2>3. QED
    BY <2>1, <2>2
<1>3. \A T \in SUBSET U : (\A X \in SUBSET T : X # T => X \in F) => T \in F
  BY <1>2
<1> HIDE DEF F
<1>4. \A T \in SUBSET U : T \in F
  BY <1>3, SetInduction
<1>5. QED
  BY <1>4 DEF F

-------------------------------------------------------------------------------
(* The payment tables, as reconciliation reads them *)

\* A match carries the time of its transaction.
MatchesCarryTime == \A m \in matches : m.at = txns[m.txn].detectedAt

\* An exception has the business, the time and the wallet of its transaction.
FitsTxn(x) ==
  LET tx == txns[exceptions[x].txn]
      r == exceptions[x].request
  IN  /\ exceptions[x].business = tx.business
      /\ exceptions[x].at = tx.detectedAt
      /\ r # Absent => requests[r].wallet = tx.wallet

ExceptionsFitTxns == \A x \in ExceptionId : exceptions[x] # Absent => FitsTxn(x)

\* An open exception has no time of resolution.
OpenAreUnstamped ==
  \A x \in ExceptionId :
    exceptions[x] # Absent /\ exceptions[x].status = "open" =>
      exceptions[x].resolvedAt = Absent

ReadableInv == MatchesCarryTime /\ ExceptionsFitTxns /\ OpenAreUnstamped

\* A match is made with the time of the call that detected the payment, and
\* neither time is written again.
LEMMA MatchesCarryTimeStep ==
  ASSUME IInv, MatchesCarryTime, [Next]_vars
  PROVE  MatchesCarryTime'
<1>1. TypeOK /\ NoDanglingId
  BY DEF IInv
<1>2. RowsStay
  BY <1>1, StepKeepsRows
<1>3. ASSUME NEW m \in matches
      PROVE  m.at = txns'[m.txn].detectedAt
  <2>1. m.txn \in TxnId /\ txns[m.txn] # Absent
    BY <1>1 DEF TypeOK, Match, NoDanglingId, TablesClosed
  <2>2. QED
    BY <1>2, <2>1 DEF RowsStay, MatchesCarryTime
<1>4. ASSUME NEW m \in matches' \ matches
      PROVE  m.at = txns'[m.txn].detectedAt
  <2>1. PICK c \in Caller, t \in TxnId, w \in WalletId, r \in RequestId :
          /\ \E o : m = [request |-> r, txn |-> t, status |-> o, at |-> calls[c].now]
          /\ txns'[t] = Arrival(c, w, "matched_to_request")
    BY <1>1, <1>4, NewMatchIsSettlement
  <2>2. m.txn = t /\ m.at = calls[c].now
    BY <2>1
  <2>3. txns'[t].detectedAt = calls[c].now
    BY <2>1 DEF Arrival
  <2>4. QED
    BY <2>2, <2>3
<1>5. QED
  BY <1>3, <1>4 DEF MatchesCarryTime

\* The call of c stores transaction t, and an exception about r, t with time now
\* fits it.
Suits(c, t, r, now) ==
  /\ txns'[t].business = calls[c].business
  /\ txns'[t].detectedAt = now
  /\ r # Absent => /\ r \in RequestId /\ requests[r] # Absent
                   /\ requests[r].wallet = txns'[t].wallet

\* Exceptions change when an ingestion raises one for its business, about the
\* transaction it stores, and when one is closed.
LEMMA ExceptionsChange ==
  ASSUME IInv, [Next]_vars
  PROVE  \/ UNCHANGED exceptions
         \/ \E c \in Caller, t \in TxnId : \E x \in ExceptionId : \E r, type, now :
              Suits(c, t, r, now) /\ Raised(x, calls[c].business, r, t, type, now)
         \/ \E x \in ExceptionId : Closes(x)
<1>1. TypeOK /\ NoDanglingId
  BY DEF IInv
<1>2. ASSUME NEW c \in Caller, ResolveException(c)
      PROVE  \E x \in ExceptionId : Closes(x)
  BY <1>1, <1>2, ResolutionWrites
<1>3. ASSUME NEW c \in Caller, NEW t \in TxnId, NEW w \in WalletId,
             IngestStablecoinTransaction(c, t, w)
      PROVE  \/ UNCHANGED exceptions
             \/ \E x \in ExceptionId : \E r, type, now :
                  Suits(c, t, r, now) /\ Raised(x, calls[c].business, r, t, type, now)
  <2>1. PICK st \in TxnStatus : Books(c, t, w, st)
    BY <1>1, <1>3, IngestBooks
  <2>2. PICK tx : tx = Arrival(c, w, "confirmed_onchain")
    OBVIOUS
  <2>3. /\ tx.business = calls[c].business /\ tx.wallet = w
        /\ txns'[t].business = calls[c].business /\ txns'[t].wallet = w
        /\ txns'[t].detectedAt = calls[c].now
        /\ tx.business \in Business /\ calls[c].now \in Nat
    BY <2>1, <2>2 DEF Arrival, Books
  <2>4. ASSUME NEW r \in RequestId, SettleRequest(t, tx, r, calls[c].now)
        PROVE  \/ UNCHANGED exceptions
               \/ \E x \in ExceptionId : \E type, now :
                    Suits(c, t, r, now) /\ Raised(x, calls[c].business, r, t, type, now)
    <3>1. /\ requests[r] # Absent /\ requests[r].wallet = tx.wallet
          /\ \/ UNCHANGED exceptions
             \/ \E x \in ExceptionId :
                  Raised(x, tx.business, r, t, Verdict(tx, r), calls[c].now)
      <4>1. PICK now : now = calls[c].now
        OBVIOUS
      <4>2. TypeOK /\ now \in Nat /\ tx.business \in Business /\ SettleRequest(t, tx, r, now)
        BY <1>1, <2>3, <2>4, <4>1
      <4>3. /\ requests[r] # Absent /\ requests[r].wallet = tx.wallet
            /\ \/ UNCHANGED exceptions
               \/ \E x \in ExceptionId :
                    Raised(x, tx.business, r, t, Verdict(tx, r), now)
        BY ONLY <4>2, t \in TxnId, r \in RequestId, SettlementWrites
      <4>4. QED
        BY <4>1, <4>3
    <3>2. Suits(c, t, r, calls[c].now)
      BY <2>3, <3>1 DEF Suits
    <3>3. QED
      BY <2>3, <3>1, <3>2
  <2>5. Suits(c, t, Absent, calls[c].now)
    BY <2>3 DEF Suits
  <2>6. QED
    BY <2>1, <2>2, <2>4, <2>5 DEF Books
<1>4. QED
  BY <1>2, <1>3, StepIs DEF store, RegisterWallet, CreatePaymentRequest

\* Only the step that resolves an exception stamps it.
LEMMA OpenAreUnstampedStep ==
  ASSUME IInv, OpenAreUnstamped, [Next]_vars
  PROVE  OpenAreUnstamped'
<1>1. CASE UNCHANGED exceptions
  BY <1>1 DEF OpenAreUnstamped
<1>2. ASSUME NEW x \in ExceptionId, NEW b, NEW r, NEW t, NEW type, NEW now,
             Raised(x, b, r, t, type, now)
      PROVE  OpenAreUnstamped'
  BY <1>2 DEF OpenAreUnstamped, Raised
<1>3. ASSUME NEW x \in ExceptionId, Closes(x)
      PROVE  OpenAreUnstamped'
  BY <1>3 DEF OpenAreUnstamped, Closes
<1>4. QED
  BY <1>1, <1>2, <1>3, ExceptionsChange

\* An exception is raised by the call that ingested its transaction, for the
\* business and with the time of that call.
LEMMA ExceptionsFitTxnsStep ==
  ASSUME IInv, ExceptionsFitTxns, [Next]_vars
  PROVE  ExceptionsFitTxns'
<1>1. TypeOK /\ NoDanglingId
  BY DEF IInv
<1>2. RowsStay
  BY <1>1, StepKeepsRows
<1>3. ASSUME NEW x \in ExceptionId, exceptions[x] # Absent
      PROVE  FitsTxn(x)'
  <2>1. exceptions[x].txn \in TxnId /\ txns[exceptions[x].txn] # Absent
    BY <1>1, <1>3 DEF TypeOK, Exception, NoDanglingId, TablesClosed
  <2>2. exceptions[x].request # Absent =>
          exceptions[x].request \in RequestId /\ requests[exceptions[x].request] # Absent
    BY <1>1, <1>3 DEF TypeOK, Exception, NoDanglingId, TablesClosed
  <2>3. /\ exceptions'[x].business = exceptions[x].business
        /\ exceptions'[x].txn = exceptions[x].txn
        /\ exceptions'[x].request = exceptions[x].request
        /\ exceptions'[x].at = exceptions[x].at
    BY <1>2, <1>3 DEF RowsStay, SameCase
  <2>4. txns'[exceptions[x].txn] = txns[exceptions[x].txn]
    BY <1>2, <2>1 DEF RowsStay
  <2>5. exceptions[x].request # Absent =>
          requests'[exceptions[x].request].wallet = requests[exceptions[x].request].wallet
    BY <1>2, <2>2 DEF RowsStay, SameTerms
  <2>6. FitsTxn(x)
    BY <1>3 DEF ExceptionsFitTxns
  <2>7. QED
    BY <2>3, <2>4, <2>5, <2>6 DEF FitsTxn
<1>4. ASSUME NEW x \in ExceptionId, exceptions[x] = Absent, exceptions'[x] # Absent
      PROVE  FitsTxn(x)'
  <2>1. ~\E y \in ExceptionId : Closes(y)
    BY <1>4, AbsentAssumption DEF Closes
  <2>2. PICK c \in Caller, t \in TxnId, y \in ExceptionId : \E r, type, now :
          Suits(c, t, r, now) /\ Raised(y, calls[c].business, r, t, type, now)
    BY <1>4, <2>1, ExceptionsChange
  <2>3. PICK r, type, now :
          Suits(c, t, r, now) /\ Raised(y, calls[c].business, r, t, type, now)
    BY <2>2
  <2>4. /\ exceptions'[x].business = calls[c].business
        /\ exceptions'[x].request = r
        /\ exceptions'[x].txn = t
        /\ exceptions'[x].at = now
    BY <1>4, <2>3 DEF Raised
  <2>5. r # Absent => requests'[r].wallet = requests[r].wallet
    BY <1>2, <2>3 DEF RowsStay, SameTerms, Suits
  <2>6. QED
    BY <2>3, <2>4, <2>5 DEF Suits, FitsTxn
<1>5. QED
  BY <1>3, <1>4 DEF ExceptionsFitTxns

\* What reconciliation reads of the payment tables is inductive, given IInv.
LEMMA ReadableStep ==
  ASSUME IInv, ReadableInv, [Next]_vars
  PROVE  ReadableInv'
BY MatchesCarryTimeStep, OpenAreUnstampedStep, ExceptionsFitTxnsStep DEF ReadableInv

\* Empty tables have it.
LEMMA ReadableInit == Init => ReadableInv
BY DEF Init, ReadableInv, MatchesCarryTime, ExceptionsFitTxns, OpenAreUnstamped

-------------------------------------------------------------------------------
(* What a selection keeps *)

\* Exception x is still there, about the same, with its times.
CaseStays(x) ==
  /\ exceptions'[x] # Absent
  /\ SameCase(x)
  /\ exceptions[x].resolvedAt # Absent =>
       exceptions'[x].resolvedAt = exceptions[x].resolvedAt

\* No payment operation removes an exception, moves it to another payment or
\* stamps it a second time.
LEMMA CasesStay ==
  ASSUME IInv, OpenAreUnstamped, [Next]_vars
  PROVE  \A x \in ExceptionId : exceptions[x] # Absent => CaseStays(x)
<1> SUFFICES ASSUME NEW x \in ExceptionId, exceptions[x] # Absent
             PROVE  CaseStays(x)
  OBVIOUS
<1>1. SameCase(x)
  BY StepKeepsRows DEF IInv, RowsStay
<1>2. exceptions'[x] # Absent
  BY <1>1, AbsentAssumption DEF SameCase
<1>3. CASE exceptions'[x] = exceptions[x]
  BY <1>1, <1>2, <1>3 DEF CaseStays
<1>4. ASSUME NEW y \in ExceptionId, Closes(y)
      PROVE  CaseStays(x)
  <2>1. CASE x = y
    <3>1. exceptions[x].resolvedAt = Absent
      BY <1>4, <2>1 DEF Closes, OpenAreUnstamped
    <3>2. QED
      BY <1>1, <1>2, <3>1 DEF CaseStays
  <2>2. CASE x # y
    BY <1>3, <1>4, <2>2 DEF Closes
  <2>3. QED
    BY <2>1, <2>2
<1>5. ASSUME NEW y \in ExceptionId, NEW b, NEW r, NEW t, NEW type, NEW now,
             Raised(y, b, r, t, type, now)
      PROVE  CaseStays(x)
  BY <1>3, <1>5 DEF Raised
<1>6. QED
  BY <1>3, <1>4, <1>5, ExceptionsChange

\* An exception on a wallet stays on it: neither what it is about nor the wallet
\* of that is ever rewritten.
LEMMA OnWalletStays ==
  ASSUME IInv, RowsStay, NEW x \in ExceptionId, exceptions[x] # Absent,
         NEW w, ExceptionOnWallet(w, x)
  PROVE  ExceptionOnWallet(w, x)'
<1>1. exceptions[x] \in Exception
  BY DEF IInv, TypeOK
<1>2. exceptions[x].txn \in TxnId /\ txns[exceptions[x].txn] # Absent
  BY <1>1 DEF IInv, NoDanglingId, TablesClosed, Exception
<1>3. exceptions[x].request # Absent =>
        exceptions[x].request \in RequestId /\ requests[exceptions[x].request] # Absent
  BY <1>1 DEF IInv, NoDanglingId, TablesClosed, Exception
<1>4. exceptions'[x].request = exceptions[x].request
      /\ exceptions'[x].txn = exceptions[x].txn
  BY DEF RowsStay, SameCase
<1>5. txns'[exceptions[x].txn] = txns[exceptions[x].txn]
  BY <1>2 DEF RowsStay
<1>6. exceptions[x].request # Absent =>
        requests'[exceptions[x].request].wallet = requests[exceptions[x].request].wallet
  BY <1>3 DEF RowsStay, SameTerms
<1>7. QED
  BY <1>4, <1>5, <1>6 DEF ExceptionOnWallet

\* Nothing ever leaves the exceptions that a business, period and wallet select.
LEMMA SelectionGrows ==
  ASSUME IInv, OpenAreUnstamped, [Next]_vars, NEW b, NEW p, NEW w
  PROVE  ExceptionsFor(b, p, w) \subseteq ExceptionsFor(b, p, w)'
<1> SUFFICES ASSUME NEW x \in ExceptionsFor(b, p, w)
             PROVE  x \in ExceptionsFor(b, p, w)'
  OBVIOUS
<1>1. /\ x \in ExceptionId
      /\ exceptions[x] # Absent
      /\ exceptions[x].business = b
      /\ \/ InPeriod(p, exceptions[x].at)
         \/ exceptions[x].resolvedAt # Absent /\ InPeriod(p, exceptions[x].resolvedAt)
      /\ ExceptionOnWallet(w, x)
  BY DEF ExceptionsFor
<1>2. RowsStay
  BY StepKeepsRows DEF IInv
<1>3. ExceptionOnWallet(w, x)'
  BY <1>1, <1>2, OnWalletStays
<1>4. CaseStays(x)
  BY <1>1, CasesStay
<1>5. /\ exceptions'[x] # Absent
      /\ exceptions'[x].business = exceptions[x].business
      /\ exceptions'[x].at = exceptions[x].at
      /\ exceptions[x].resolvedAt # Absent =>
           exceptions'[x].resolvedAt = exceptions[x].resolvedAt
  BY <1>4 DEF CaseStays, SameCase
<1>6. QED
  BY <1>1, <1>3, <1>5 DEF ExceptionsFor, InPeriod

-------------------------------------------------------------------------------
(* The rows of a run *)

\* Row is the row of exact match m of business b, which nothing disputes.
Reconciles(row, m, b) ==
  /\ m.status = "confirmed"
  /\ requests[m.request].business = b
  /\ row = [request |-> m.request, txn |-> m.txn, exception |-> Absent,
            status |-> "reconciled"]

\* What a row frozen by a run of business b, period p and wallet w says, in a
\* form that outlives the step that froze it.
RowTrue(row, b, p, w) ==
  /\ row.status = "reconciled" => \E m \in matches : Reconciles(row, m, b)
  /\ row.txn # Absent =>
       /\ row.txn \in TxnId /\ txns[row.txn] # Absent
       /\ InPeriod(p, txns[row.txn].detectedAt)
  /\ row.exception # Absent =>
       /\ row.exception \in ExceptionId /\ exceptions[row.exception] # Absent
       /\ exceptions[row.exception].business = b
       /\ ExceptionOnWallet(w, row.exception)

\* The exception a row names is about what the row is about.
LEMMA AboutIsAbout ==
  ASSUME NEW r, NEW t, ExceptionAbout(r, t) # Absent
  PROVE  LET x == ExceptionAbout(r, t) IN
         /\ x \in ExceptionId /\ exceptions[x] # Absent
         /\ r = Absent \/ exceptions[x].request = r
         /\ t = Absent \/ exceptions[x].txn = t
<1> DEFINE xs == {x \in ExceptionId : /\ exceptions[x] # Absent
                                      /\ r = Absent \/ exceptions[x].request = r
                                      /\ t = Absent \/ exceptions[x].txn = t}
<1>1. xs # {} /\ ExceptionAbout(r, t) = CHOOSE x \in xs : TRUE
  BY DEF ExceptionAbout
<1>2. ExceptionAbout(r, t) \in xs
  BY <1>1
<1>3. QED
  BY <1>2

\* What a payment step leaves of a row's truth: all of it.
LEMMA RowStaysTrue ==
  ASSUME IInv, [Next]_vars, NEW row, NEW b, NEW p, NEW w, RowTrue(row, b, p, w)
  PROVE  RowTrue(row, b, p, w)'
<1>1. RowsStay
  BY StepKeepsRows DEF IInv
<1>2. ASSUME row.status = "reconciled"
      PROVE  \E m \in matches' : Reconciles(row, m, b)'
  <2>1. PICK m \in matches : Reconciles(row, m, b)
    BY <1>2 DEF RowTrue
  <2>2. m.request \in RequestId /\ requests[m.request] # Absent
    BY DEF IInv, TypeOK, Match, NoDanglingId, TablesClosed
  <2>3. requests'[m.request].business = requests[m.request].business /\ m \in matches'
    BY <1>1, <2>2 DEF RowsStay, SameTerms
  <2>4. QED
    BY <2>1, <2>3 DEF Reconciles
<1>3. row.txn # Absent =>
        /\ row.txn \in TxnId /\ txns'[row.txn] # Absent
        /\ InPeriod(p, txns'[row.txn].detectedAt)
  BY <1>1 DEF RowTrue, RowsStay
<1>4. ASSUME row.exception # Absent
      PROVE  /\ row.exception \in ExceptionId /\ exceptions'[row.exception] # Absent
             /\ exceptions'[row.exception].business = b
             /\ ExceptionOnWallet(w, row.exception)'
  <2>1. /\ row.exception \in ExceptionId /\ exceptions[row.exception] # Absent
        /\ exceptions[row.exception].business = b
        /\ ExceptionOnWallet(w, row.exception)
    BY <1>4 DEF RowTrue
  <2>2. ExceptionOnWallet(w, row.exception)'
    BY <1>1, <2>1, OnWalletStays
  <2>3. SameCase(row.exception)
    BY <1>1, <2>1 DEF RowsStay
  <2>4. QED
    BY <2>1, <2>2, <2>3, AbsentAssumption DEF SameCase
<1>5. QED
  BY <1>2, <1>3, <1>4 DEF RowTrue

\* What a stored transaction, and an exception about it, have in common.
LEMMA ExceptionOfTxn ==
  ASSUME ReadableInv, NEW t \in TxnId, NEW b, NEW w,
         txns[t].business = b, OnWallet(w, txns[t].wallet),
         NEW x \in ExceptionId, exceptions[x] # Absent, exceptions[x].txn = t
  PROVE  exceptions[x].business = b /\ ExceptionOnWallet(w, x)
BY DEF ReadableInv, ExceptionsFitTxns, FitsTxn, OnWallet, ExceptionOnWallet

\* The row of a match in a period: match and transaction carry the same time, and
\* an exact match is only "reconciled" when nothing disputes it.
LEMMA MatchRowTrue ==
  ASSUME IInv, TablesInv, ReadableInv, NEW b, NEW p, NEW w, NEW m \in MatchesFor(b, p, w)
  PROVE  RowTrue(MatchRow(m), b, p, w)
<1>1. /\ m \in matches /\ m \in Match
      /\ requests[m.request].business = b
      /\ InPeriod(p, m.at)
      /\ OnWallet(w, txns[m.txn].wallet)
  BY DEF MatchesFor, IInv, TypeOK
<1>2. m.txn \in TxnId /\ txns[m.txn] # Absent /\ m.request \in RequestId
  BY <1>1 DEF IInv, NoDanglingId, TablesClosed, Match
<1>3. m.request # Absent /\ m.txn # Absent
  BY <1>2, AbsentAssumption
<1>4. txns[m.txn].business = b
  BY <1>1 DEF TablesInv, VerdictsJust, Just
<1>5. txns[m.txn].detectedAt = m.at
  BY <1>1 DEF ReadableInv, MatchesCarryTime
<1> DEFINE x == ExceptionAbout(m.request, m.txn)
<1>6. x # Absent => /\ x \in ExceptionId /\ exceptions[x] # Absent
                    /\ exceptions[x].txn = m.txn
  BY <1>3, AboutIsAbout
<1>7. x # Absent => exceptions[x].business = b /\ ExceptionOnWallet(w, x)
  BY <1>1, <1>2, <1>4, <1>6, ExceptionOfTxn
<1>8. /\ MatchRow(m).txn = m.txn
      /\ MatchRow(m).exception = x
      /\ MatchRow(m).status = "reconciled" => Reconciles(MatchRow(m), m, b)
  BY <1>1 DEF MatchRow, Reconciles
<1> HIDE DEF x
<1>9. QED
  BY <1>1, <1>2, <1>5, <1>6, <1>7, <1>8 DEF RowTrue

\* The row of a transaction without a match in the selection.
LEMMA UnmatchedRowTrue ==
  ASSUME IInv, ReadableInv, NEW b, NEW p, NEW w, NEW t \in TxnsFor(b, p, w)
  PROVE  RowTrue(UnmatchedRow(t), b, p, w)
<1>1. /\ t \in TxnId /\ txns[t] # Absent /\ txns[t].business = b
      /\ OnWallet(w, txns[t].wallet) /\ InPeriod(p, txns[t].detectedAt)
  BY DEF TxnsFor
<1> DEFINE x == ExceptionAbout(Absent, t)
<1>2. x # Absent => /\ x \in ExceptionId /\ exceptions[x] # Absent
                    /\ exceptions[x].txn = t
  BY <1>1, AbsentAssumption, AboutIsAbout
<1>3. x # Absent => exceptions[x].business = b /\ ExceptionOnWallet(w, x)
  BY <1>1, <1>2, ExceptionOfTxn
<1>4. /\ UnmatchedRow(t).txn = t /\ UnmatchedRow(t).exception = x
      /\ UnmatchedRow(t).status # "reconciled"
  BY DEF UnmatchedRow
<1> HIDE DEF x
<1>5. QED
  BY <1>1, <1>2, <1>3, <1>4 DEF RowTrue

\* The row of a request without a match in the selection.
LEMMA PendingRowTrue ==
  ASSUME IInv, StoryInv, NEW b, NEW p, NEW w, NEW r \in RequestsFor(b, p, w)
  PROVE  RowTrue(PendingRow(r), b, p, w)
<1>1. /\ r \in RequestId /\ requests[r] # Absent /\ requests[r].business = b
      /\ OnWallet(w, requests[r].wallet)
  BY DEF RequestsFor
<1>2. r # Absent
  BY <1>1, AbsentAssumption
<1> DEFINE x == ExceptionAbout(r, Absent)
<1>3. x # Absent => /\ x \in ExceptionId /\ exceptions[x] # Absent
                    /\ exceptions[x].request = r
  BY <1>2, AboutIsAbout
<1>4. x # Absent => exceptions[x].business = b
  BY <1>1, <1>2, <1>3, ExceptionOfOwnRequest
<1>5. x # Absent => ExceptionOnWallet(w, x)
  BY <1>1, <1>2, <1>3 DEF OnWallet, ExceptionOnWallet
<1>6. /\ PendingRow(r).txn = Absent /\ PendingRow(r).exception = x
      /\ PendingRow(r).status # "reconciled"
  BY DEF PendingRow
<1> HIDE DEF x
<1>7. QED
  BY <1>3, <1>4, <1>5, <1>6 DEF RowTrue

\* Every row a run builds is true when it is built.
LEMMA RowsAreTrue ==
  ASSUME IInv, TablesInv, StoryInv, ReadableInv, NEW b, NEW p, NEW w,
         NEW row \in Rows(b, p, w)
  PROVE  RowTrue(row, b, p, w)
<1>1. \/ \E m \in MatchesFor(b, p, w) : row = MatchRow(m)
      \/ \E t \in TxnsFor(b, p, w) : row = UnmatchedRow(t)
      \/ \E r \in RequestsFor(b, p, w) : row = PendingRow(r)
  BY DEF Rows
<1>2. QED
  BY <1>1, MatchRowTrue, UnmatchedRowTrue, PendingRowTrue

\* The exception about a matched transaction is about the request it is matched to.
LEMMA MatchedException ==
  ASSUME StoryInv, NEW m \in matches,
         NEW x \in ExceptionId, exceptions[x] # Absent, exceptions[x].txn = m.txn
  PROVE  exceptions[x].request = m.request
<1>1. m.status # "confirmed"
  BY DEF StoryInv, ConfirmedIsClean
<1>2. PICK y \in ExceptionId : Disputes(y, m)
  BY <1>1 DEF StoryInv, DisputesAreRaised
<1>3. y = x
  BY <1>2 DEF StoryInv, OneExceptionPerTxn, Disputes
<1>4. QED
  BY <1>2, <1>3 DEF Disputes

\* What is looked up for a transaction is the one exception about it.
LEMMA AboutFinds ==
  ASSUME StoryInv, NEW x \in ExceptionId, exceptions[x] # Absent, exceptions[x].txn # Absent,
         NEW r, r = Absent \/ exceptions[x].request = r
  PROVE  ExceptionAbout(r, exceptions[x].txn) = x
<1> DEFINE t == exceptions[x].txn
           xs == {y \in ExceptionId : /\ exceptions[y] # Absent
                                      /\ r = Absent \/ exceptions[y].request = r
                                      /\ t = Absent \/ exceptions[y].txn = t}
<1>1. x \in xs
  OBVIOUS
<1>2. \A y \in xs : y = x
  BY DEF StoryInv, OneExceptionPerTxn
<1>3. ExceptionAbout(r, t) = IF xs = {} THEN Absent ELSE CHOOSE y \in xs : TRUE
  BY DEF ExceptionAbout
<1> HIDE DEF xs
<1>4. QED
  BY <1>1, <1>2, <1>3

\* A selected exception that was opened in the period has a row: it was opened
\* when its payment was detected, and the payment is selected with it.
LEMMA OpenedHaveRows ==
  ASSUME IInv, StoryInv, ReadableInv, NEW b, NEW p, NEW w,
         NEW x \in ExceptionsFor(b, p, w), InPeriod(p, exceptions[x].at)
  PROVE  \E row \in Rows(b, p, w) : row.exception = x
<1>1. /\ x \in ExceptionId /\ exceptions[x] # Absent
      /\ exceptions[x].business = b /\ ExceptionOnWallet(w, x)
  BY DEF ExceptionsFor
<1>2. PICK t : t = exceptions[x].txn
  OBVIOUS
<1>3. t \in TxnId /\ txns[t] # Absent /\ t # Absent
  BY <1>1, <1>2, AbsentAssumption DEF IInv, TypeOK, Exception, NoDanglingId, TablesClosed
<1>4. FitsTxn(x)
  BY <1>1 DEF ReadableInv, ExceptionsFitTxns
<1>5. txns[t].business = b /\ InPeriod(p, txns[t].detectedAt)
  BY <1>1, <1>2, <1>4 DEF FitsTxn
<1>6. OnWallet(w, txns[t].wallet)
  BY <1>1, <1>2, <1>4 DEF FitsTxn, ExceptionOnWallet, OnWallet
<1>7. t \in TxnsFor(b, p, w)
  BY <1>3, <1>5, <1>6 DEF TxnsFor
<1>8. CASE \E m \in MatchesFor(b, p, w) : m.txn = t
  <2>1. PICK m \in MatchesFor(b, p, w) : m.txn = t
    BY <1>8
  <2>2. m \in matches
    BY DEF MatchesFor
  <2>3. exceptions[x].request = m.request
    BY <1>1, <1>2, <2>1, <2>2, MatchedException
  <2>4. ExceptionAbout(m.request, m.txn) = x
    BY <1>1, <1>2, <1>3, <2>1, <2>3, AboutFinds
  <2>5. MatchRow(m) \in Rows(b, p, w) /\ MatchRow(m).exception = x
    BY <2>4 DEF Rows, MatchRow
  <2>6. QED
    BY <2>5
<1>9. CASE ~\E m \in MatchesFor(b, p, w) : m.txn = t
  <2>1. ExceptionAbout(Absent, t) = x
    BY <1>1, <1>2, <1>3, AboutFinds
  <2>2. UnmatchedRow(t) \in Rows(b, p, w) /\ UnmatchedRow(t).exception = x
    BY <1>7, <1>9, <2>1 DEF Rows, UnmatchedRow
  <2>3. QED
    BY <2>2
<1>10. QED
  BY <1>8, <1>9

-------------------------------------------------------------------------------
(* Runs and exports *)

\* Exception x of a selection was opened out of period p, or one of rows names it.
Shown(x, p, rows) ==
  InPeriod(p, exceptions[x].at) => \E row \in rows : row.exception = x

\* What run n froze is true, and the exceptions it selected are selected still.
RunTrue(n) ==
  LET b == runs[n].business
      p == runs[n].period
      w == runs[n].wallet
      counted == runs[n].selected.exceptions
  IN  /\ \A row \in runs[n].rows : RowTrue(row, b, p, w)
      /\ counted \subseteq ExceptionsFor(b, p, w)
      /\ \A x \in counted : Shown(x, p, runs[n].rows)

RunsTrue ==
  /\ runs = [n \in RunId |-> runs[n]]
  /\ \A n \in Made : RunTrue(n)

\* Export e has the rows of its run and, if it has a list of exceptions, all that
\* the run counted.
Keeps(e) ==
  /\ e.rows = runs[e.run].rows
  /\ e.format = "json" => runs[e.run].selected.exceptions \subseteq e.exceptions

ExportsKeep == \A e \in exports : e.run \in Made /\ Keeps(e)

ReconciliationInv ==
  /\ IInv /\ TablesInv /\ StoryInv /\ ReadableInv
  /\ RunsTrue /\ ExportsKeep

\* Reconciliation reads the payment tables and never writes them: all that is
\* proved of PaymentTruth holds here.
LEMMA ReportsArePaymentSteps ==
  ASSUME [ReconciliationNext]_allVars
  PROVE  [Next]_vars
BY DEF ReconciliationNext, allVars, CreateReconciliationRun, CreateExport

\* The payment tables of ReconciliationSpec behave as Spec says.
THEOREM ReportsLeavePaymentsAlone == ReconciliationSpec => Spec
<1>1. ReconciliationInit => Init
  BY DEF ReconciliationInit
<1>2. [ReconciliationNext]_allVars => [Next]_vars
  BY ReportsArePaymentSteps
<1>3. QED
  BY <1>1, <1>2, PTL DEF ReconciliationSpec, Spec

\* Runs are never rewritten.
RunsStay == \A n \in Made : n \in Made' /\ runs'[n] = runs[n]

\* The only operation that writes runs writes one that was not there.
LEMMA RunsAreFrozen ==
  ASSUME RunsTrue, [ReconciliationNext]_allVars
  PROVE  RunsStay
<1>1. CASE UNCHANGED runs
  BY <1>1 DEF RunsStay, Made
<1>2. ASSUME NEW n \in RunId, NEW b \in Business, NEW p \in Period,
             NEW w \in WalletId \cup {Absent}, CreateReconciliationRun(n, b, p, w)
      PROVE  RunsStay
  BY <1>2 DEF CreateReconciliationRun, RunsTrue, RunsStay, Made
<1>3. QED
  BY <1>1, <1>2 DEF ReconciliationNext, allVars, CreateExport

\* Whatever the payment operations do next, a run stays true.
LEMMA RunStaysTrue ==
  ASSUME IInv, ReadableInv, [Next]_vars, NEW n, RunTrue(n), runs'[n] = runs[n]
  PROVE  RunTrue(n)'
<1>1. PICK c, q, v : c = runs[n].business /\ q = runs[n].period /\ v = runs[n].wallet
  OBVIOUS
<1>2. PICK X : X = runs[n].selected.exceptions
  OBVIOUS
<1>3. X \subseteq ExceptionsFor(c, q, v) /\ \A x \in X : Shown(x, q, runs[n].rows)
  BY <1>1, <1>2 DEF RunTrue
<1>4. \A row \in runs[n].rows : RowTrue(row, c, q, v)'
  BY <1>1, RowStaysTrue DEF RunTrue
<1>5. ExceptionsFor(c, q, v) \subseteq ExceptionsFor(c, q, v)'
  BY SelectionGrows DEF ReadableInv
<1>6. \A x \in X : exceptions'[x].at = exceptions[x].at
  BY <1>3, StepKeepsRows DEF IInv, RowsStay, SameCase, ExceptionsFor
<1>7. \A x \in X : Shown(x, q, runs[n].rows)'
  BY <1>3, <1>6 DEF Shown, InPeriod
<1>8. /\ \A row \in runs'[n].rows : RowTrue(row, c, q, v)'
      /\ runs'[n].selected.exceptions \subseteq ExceptionsFor(c, q, v)'
      /\ \A x \in runs'[n].selected.exceptions : Shown(x, q, runs[n].rows)'
  BY <1>2, <1>3, <1>4, <1>5, <1>7
<1>9. runs'[n].business = c /\ runs'[n].period = q /\ runs'[n].wallet = v
  BY <1>1
<1>10. QED
  BY <1>8, <1>9 DEF RunTrue

\* All runs stay true, the one just made among them, when the payment operations
\* or reconciliation take a step.
LEMMA RunsTrueStep ==
  ASSUME ReconciliationInv, [ReconciliationNext]_allVars
  PROVE  RunsTrue'
<1>1. [Next]_vars /\ RunsStay
  BY ReportsArePaymentSteps, RunsAreFrozen DEF ReconciliationInv
<1>2. ASSUME NEW n \in Made PROVE RunTrue(n)'
  <2>1. RunTrue(n) /\ runs'[n] = runs[n]
    BY <1>1, <1>2 DEF ReconciliationInv, RunsTrue, RunsStay
  <2>2. QED
    BY <1>1, <2>1, RunStaysTrue DEF ReconciliationInv
<1>3. CASE UNCHANGED runs
  BY <1>2, <1>3 DEF ReconciliationInv, RunsTrue, Made
<1>4. ASSUME NEW n \in RunId, NEW b \in Business, NEW p \in Period,
             NEW w \in WalletId \cup {Absent}, CreateReconciliationRun(n, b, p, w)
      PROVE  RunsTrue'
  <2>1. PICK run : run = [business |-> b, period |-> p, wallet |-> w, at |-> clock,
                          rows |-> Rows(b, p, w), snapshots |-> Snapshots(b, p, w),
                          totals |-> TotalsFor(b, p, w), selected |-> Selected(b, p, w)]
    OBVIOUS
  <2>2. /\ run.business = b /\ run.period = p /\ run.wallet = w
        /\ run.rows = Rows(b, p, w)
        /\ run.selected.exceptions = ExceptionsFor(b, p, w)
    BY <2>1 DEF Selected
  <2>3. runs' = [runs EXCEPT ![n] = run] /\ UNCHANGED vars
    BY <1>4, <2>1 DEF CreateReconciliationRun
  <2>4. /\ runs'[n] = run
        /\ runs' = [m \in RunId |-> runs'[m]]
        /\ \A m \in RunId \ {n} : runs'[m] = runs[m]
    BY <2>3 DEF ReconciliationInv, RunsTrue
  <2>5. \A row \in Rows(b, p, w) : RowTrue(row, b, p, w)'
    <3>1. \A row \in Rows(b, p, w) : RowTrue(row, b, p, w)
      BY RowsAreTrue DEF ReconciliationInv
    <3>2. QED
      BY <1>1, <3>1, RowStaysTrue DEF ReconciliationInv
  <2>6. ExceptionsFor(b, p, w) \subseteq ExceptionsFor(b, p, w)'
    BY <1>1, SelectionGrows DEF ReconciliationInv, ReadableInv
  <2>7. \A x \in ExceptionsFor(b, p, w) : Shown(x, p, Rows(b, p, w))
    BY OpenedHaveRows DEF ReconciliationInv, Shown
  <2>8. \A x \in ExceptionsFor(b, p, w) : Shown(x, p, run.rows)'
    BY <2>2, <2>3, <2>7 DEF Shown, vars, store
  <2>9. RunTrue(n)'
    BY <2>2, <2>4, <2>5, <2>6, <2>8 DEF RunTrue
  <2>10. \A m \in Made' : m = n \/ m \in Made
    BY <2>4 DEF Made
  <2>11. QED
    BY <1>2, <2>4, <2>9, <2>10 DEF RunsTrue
<1>5. QED
  BY <1>3, <1>4 DEF ReconciliationNext, allVars, CreateExport

\* An export of a run whose exceptions are selected still keeps them all.
LEMMA NewExportKeeps ==
  ASSUME NEW n \in Made, RunTrue(n), NEW format
  PROVE  Keeps(renderSettlementExport(n, format))
<1>1. PICK e : e = renderSettlementExport(n, format)
  OBVIOUS
<1>2. /\ e.run = n /\ e.format = format /\ e.rows = runs[n].rows
      /\ format = "json" => e.exceptions = ExceptionsFor(runs[n].business, runs[n].period,
                                                         runs[n].wallet)
  BY <1>1 DEF renderSettlementExport
<1>3. Keeps(e)
  BY <1>2 DEF Keeps, RunTrue
<1>4. QED
  BY <1>1, <1>3

\* All exports keep what their runs counted, the one just made among them.
LEMMA ExportsKeepStep ==
  ASSUME ReconciliationInv, [ReconciliationNext]_allVars
  PROVE  ExportsKeep'
<1>1. RunsStay
  BY RunsAreFrozen DEF ReconciliationInv
<1>2. ASSUME NEW e \in exports
      PROVE  e.run \in Made' /\ Keeps(e)'
  <2>1. e.run \in Made /\ Keeps(e)
    BY DEF ReconciliationInv, ExportsKeep
  <2>2. e.run \in Made' /\ runs'[e.run] = runs[e.run]
    BY <1>1, <2>1 DEF RunsStay
  <2>3. QED
    BY <2>1, <2>2 DEF Keeps
<1>3. CASE UNCHANGED exports
  BY <1>2, <1>3 DEF ExportsKeep
<1>4. ASSUME NEW n \in RunId, NEW b \in Business, NEW format \in Format,
             CreateExport(b, n, format)
      PROVE  ExportsKeep'
  <2>1. PICK e : e = renderSettlementExport(n, format)
    OBVIOUS
  <2>2. n \in Made /\ exports' = exports \cup {e} /\ UNCHANGED <<vars, runs>>
    BY <1>4, <2>1 DEF CreateExport, Made
  <2>3. Keeps(e)
    BY <2>1, <2>2, NewExportKeeps DEF ReconciliationInv, RunsTrue
  <2>4. e.run = n
    BY <2>1 DEF renderSettlementExport
  <2>5. e.run \in Made' /\ Keeps(e)'
    BY <2>2, <2>3, <2>4 DEF Keeps, Made
  <2>6. QED
    BY <1>2, <2>2, <2>5 DEF ExportsKeep
<1>5. QED
  BY <1>3, <1>4 DEF ReconciliationNext, allVars, CreateReconciliationRun

-------------------------------------------------------------------------------
(* The balance of a run *)

MatchedTxns(b, p, w) == {m.txn : m \in MatchesFor(b, p, w)}

MatchedRequests(b, p, w) == {m.request : m \in MatchesFor(b, p, w)}

UnmatchedTxns(b, p, w) == TxnsFor(b, p, w) \ MatchedTxns(b, p, w)

PendingRequests(b, p, w) == RequestsFor(b, p, w) \ MatchedRequests(b, p, w)

\* A match is in a selection only with its transaction.
LEMMA MatchIsSelectedWithTxn ==
  ASSUME IInv, TablesInv, ReadableInv, NEW b, NEW p, NEW w, NEW m \in MatchesFor(b, p, w)
  PROVE  /\ m \in matches
         /\ m.request \in RequestId /\ m.txn \in TxnId
         /\ m.request # Absent /\ m.txn # Absent
         /\ m.txn \in TxnsFor(b, p, w)
<1>1. /\ m \in matches /\ m \in Match
      /\ requests[m.request].business = b
      /\ InPeriod(p, m.at)
      /\ OnWallet(w, txns[m.txn].wallet)
  BY DEF MatchesFor, IInv, TypeOK
<1>2. m.txn \in TxnId /\ txns[m.txn] # Absent /\ m.request \in RequestId
  BY <1>1 DEF IInv, NoDanglingId, TablesClosed, Match
<1>3. m.request # Absent /\ m.txn # Absent
  BY <1>2, AbsentAssumption
<1>4. txns[m.txn].business = b
  BY <1>1 DEF TablesInv, VerdictsJust, Just
<1>5. txns[m.txn].detectedAt = m.at
  BY <1>1 DEF ReadableInv, MatchesCarryTime
<1>6. QED
  BY <1>1, <1>2, <1>3, <1>4, <1>5 DEF TxnsFor

\* The rows of a run, by what they are made of.
LEMMA RowsAre ==
  ASSUME NEW b, NEW p, NEW w
  PROVE  Rows(b, p, w) = {MatchRow(m) : m \in MatchesFor(b, p, w)}
                           \cup {UnmatchedRow(t) : t \in UnmatchedTxns(b, p, w)}
                           \cup {PendingRow(r) : r \in PendingRequests(b, p, w)}
BY DEF Rows, UnmatchedTxns, PendingRequests, MatchedTxns, MatchedRequests

\* What tells the three kinds of row apart.
LEMMA RowFields ==
  /\ \A m : /\ MatchRow(m).request = m.request /\ MatchRow(m).txn = m.txn
            /\ MatchRow(m).status \in {"reconciled", "exception"}
  /\ \A t : /\ UnmatchedRow(t).request = Absent /\ UnmatchedRow(t).txn = t
            /\ UnmatchedRow(t).status = "unmatched"
  /\ \A r : /\ PendingRow(r).request = r /\ PendingRow(r).txn = Absent
            /\ PendingRow(r).status \in {"pending", "exception"}
BY DEF MatchRow, UnmatchedRow, PendingRow

\* Every transaction of the selection has a row.
LEMMA TxnsHaveRows ==
  ASSUME NEW b, NEW p, NEW w
  PROVE  \A t \in TxnsFor(b, p, w) :
           t # Absent /\ \E row \in Rows(b, p, w) : row.txn = t
<1> SUFFICES ASSUME NEW t \in TxnsFor(b, p, w)
             PROVE  t # Absent /\ \E row \in Rows(b, p, w) : row.txn = t
  OBVIOUS
<1>1. t # Absent
  BY AbsentAssumption DEF TxnsFor
<1>2. CASE t \in MatchedTxns(b, p, w)
  <2>1. PICK m \in MatchesFor(b, p, w) : m.txn = t
    BY <1>2 DEF MatchedTxns
  <2>2. MatchRow(m) \in Rows(b, p, w) /\ MatchRow(m).txn = t
    BY <2>1, RowsAre, RowFields
  <2>3. QED
    BY <1>1, <2>2
<1>3. CASE t \in UnmatchedTxns(b, p, w)
  <2>1. UnmatchedRow(t) \in Rows(b, p, w) /\ UnmatchedRow(t).txn = t
    BY <1>3, RowsAre, RowFields
  <2>2. QED
    BY <1>1, <2>1
<1>4. QED
  BY <1>2, <1>3 DEF UnmatchedTxns

\* So has every request of it.
LEMMA RequestsHaveRows ==
  ASSUME NEW b, NEW p, NEW w
  PROVE  \A r \in RequestsFor(b, p, w) :
           r # Absent /\ \E row \in Rows(b, p, w) : row.request = r
<1> SUFFICES ASSUME NEW r \in RequestsFor(b, p, w)
             PROVE  r # Absent /\ \E row \in Rows(b, p, w) : row.request = r
  OBVIOUS
<1>1. r # Absent
  BY AbsentAssumption DEF RequestsFor
<1>2. CASE r \in MatchedRequests(b, p, w)
  <2>1. PICK m \in MatchesFor(b, p, w) : m.request = r
    BY <1>2 DEF MatchedRequests
  <2>2. MatchRow(m) \in Rows(b, p, w) /\ MatchRow(m).request = r
    BY <2>1, RowsAre, RowFields
  <2>3. QED
    BY <1>1, <2>2
<1>3. CASE r \in PendingRequests(b, p, w)
  <2>1. PendingRow(r) \in Rows(b, p, w) /\ PendingRow(r).request = r
    BY <1>3, RowsAre, RowFields
  <2>2. QED
    BY <1>1, <2>1
<1>4. QED
  BY <1>2, <1>3 DEF PendingRequests

\* Rows that name a transaction name one of the selection, and each once.
LEMMA PaidRows ==
  ASSUME IInv, TablesInv, ReadableInv, NEW b, NEW p, NEW w,
         NEW S, S = {row \in Rows(b, p, w) : row.txn # Absent}
  PROVE  /\ \A row \in S : row.txn \in TxnsFor(b, p, w)
         /\ \A row, col \in S : row.txn = col.txn => row = col
<1>1. ASSUME NEW row \in S
      PROVE  \/ \E m \in MatchesFor(b, p, w) : row = MatchRow(m)
             \/ \E t \in UnmatchedTxns(b, p, w) : row = UnmatchedRow(t)
  BY RowsAre, RowFields
<1>2. \A m \in MatchesFor(b, p, w) :
        m.txn \in MatchedTxns(b, p, w) /\ m.txn \in TxnsFor(b, p, w)
  BY MatchIsSelectedWithTxn DEF MatchedTxns
<1>3. \A m, n \in MatchesFor(b, p, w) : m.txn = n.txn => m = n
  BY MatchIsSelectedWithTxn DEF IInv, SettledOnce
<1>4. \A t \in UnmatchedTxns(b, p, w) :
        t \in TxnsFor(b, p, w) /\ t \notin MatchedTxns(b, p, w)
  BY DEF UnmatchedTxns
<1>5. \A row \in S : row.txn \in TxnsFor(b, p, w)
  BY <1>1, <1>2, <1>4, RowFields
<1>6. ASSUME NEW row \in S, NEW col \in S, row.txn = col.txn
      PROVE  row = col
  BY <1>1, <1>2, <1>3, <1>4, <1>6, RowFields
<1>7. QED
  BY <1>5, <1>6

\* Rows that name a request name each once.
LEMMA AskedRows ==
  ASSUME IInv, TablesInv, ReadableInv, NEW b, NEW p, NEW w,
         NEW S, S = {row \in Rows(b, p, w) : row.request # Absent}
  PROVE  /\ \A row \in S : row.request \in RequestId
         /\ \A row, col \in S : row.request = col.request => row = col
<1>1. ASSUME NEW row \in S
      PROVE  \/ \E m \in MatchesFor(b, p, w) : row = MatchRow(m)
             \/ \E r \in PendingRequests(b, p, w) : row = PendingRow(r)
  BY RowsAre, RowFields
<1>2. \A m \in MatchesFor(b, p, w) :
        m.request \in MatchedRequests(b, p, w) /\ m.request \in RequestId
  BY MatchIsSelectedWithTxn DEF MatchedRequests
<1>3. \A m, n \in MatchesFor(b, p, w) : m.request = n.request => m = n
  BY MatchIsSelectedWithTxn DEF IInv, SettledOnce
<1>4. \A r \in PendingRequests(b, p, w) :
        r \in RequestId /\ r \notin MatchedRequests(b, p, w)
  BY DEF PendingRequests, RequestsFor
<1>5. \A row \in S : row.request \in RequestId
  BY <1>1, <1>2, <1>4, RowFields
<1>6. ASSUME NEW row \in S, NEW col \in S, row.request = col.request
      PROVE  row = col
  BY <1>1, <1>2, <1>3, <1>4, <1>6, RowFields
<1>7. QED
  BY <1>5, <1>6

\* The rows of a run just made account for its period as its totals do.
LEMMA RowsBalanceWhenMade ==
  ASSUME IInv, TablesInv, ReadableInv, NEW b, NEW p, NEW w, NEW run,
         run.rows = Rows(b, p, w), run.totals = TotalsFor(b, p, w),
         run.selected = Selected(b, p, w)
  PROVE  RowsBalance(run)
<1> DEFINE ts == TxnsFor(b, p, w)
           rs == RequestsFor(b, p, w)
           ms == MatchesFor(b, p, w)
           Paid == {row \in run.rows : row.txn # Absent}
           Asked == {row \in run.rows : row.request # Absent}
           Left == {row \in run.rows : row.status \in {"unmatched"}}
           Final == {row \in run.rows : row.status \in {"reconciled"}}
           PaidTxns == {row.txn : row \in Paid}
           AskedRequests == {row.request : row \in Asked}
           TxnOf == [row \in Paid |-> row.txn]
           RequestOf == [row \in Asked |-> row.request]
           MatchTxn == [m \in ms |-> m.txn]
           LeftTxn == [row \in Left |-> row.txn]
           FinalTxn == [row \in Final |-> row.txn]
<1>1. IsFiniteSet(ts)
  BY FiniteAssumption, FS_Subset DEF TxnsFor
<1>2. MatchedTxns(b, p, w) \subseteq ts
  BY MatchIsSelectedWithTxn DEF MatchedTxns
<1>3. /\ IsFiniteSet(MatchedTxns(b, p, w)) /\ IsFiniteSet(UnmatchedTxns(b, p, w))
      /\ Cardinality(ts) = Cardinality(MatchedTxns(b, p, w)) + Cardinality(UnmatchedTxns(b, p, w))
  <2>1. IsFiniteSet(MatchedTxns(b, p, w)) /\ IsFiniteSet(UnmatchedTxns(b, p, w))
    BY <1>1, <1>2, FS_Subset DEF UnmatchedTxns
  <2>2. /\ MatchedTxns(b, p, w) \cap UnmatchedTxns(b, p, w) = {}
        /\ ts = MatchedTxns(b, p, w) \cup UnmatchedTxns(b, p, w)
    BY <1>2 DEF UnmatchedTxns
  <2>3. QED
    BY <2>1, <2>2, CountApart
<1>4. /\ \A row \in Paid : row.txn \in ts
      /\ \A t \in ts : \E row \in Paid : row.txn = t
      /\ \A row, col \in Paid : row.txn = col.txn => row = col
  <2>1. PICK S : S = {row \in Rows(b, p, w) : row.txn # Absent}
    OBVIOUS
  <2>2. /\ \A row \in S : row.txn \in ts
        /\ \A t \in ts : \E row \in S : row.txn = t
        /\ \A row, col \in S : row.txn = col.txn => row = col
    <3> HIDE DEF Paid
    <3>1. \A row \in S : row.txn \in ts
      BY <2>1, PaidRows
    <3>2. \A t \in ts : t # Absent /\ \E row \in Rows(b, p, w) : row.txn = t
      BY TxnsHaveRows
    <3>3. \A row, col \in S : row.txn = col.txn => row = col
      BY <2>1, PaidRows
    <3>4. QED
      BY <2>1, <3>1, <3>2, <3>3
  <2>3. Paid = S
    BY <2>1
  <2> HIDE DEF Paid
  <2>4. QED
    BY <2>2, <2>3
<1>5. /\ \A row \in Asked : row.request \in RequestId
      /\ \A r \in rs : \E row \in Asked : row.request = r
      /\ \A row, col \in Asked : row.request = col.request => row = col
  <2>1. PICK S : S = {row \in Rows(b, p, w) : row.request # Absent}
    OBVIOUS
  <2>2. /\ \A row \in S : row.request \in RequestId
        /\ \A r \in rs : \E row \in S : row.request = r
        /\ \A row, col \in S : row.request = col.request => row = col
    <3> HIDE DEF Asked
    <3>1. /\ \A row \in S : row.request \in RequestId
          /\ \A row, col \in S : row.request = col.request => row = col
      BY <2>1, AskedRows
    <3>2. \A r \in rs : r # Absent /\ \E row \in Rows(b, p, w) : row.request = r
      BY RequestsHaveRows
    <3>3. QED
      BY <2>1, <3>1, <3>2
  <2>3. Asked = S
    BY <2>1
  <2> HIDE DEF Asked
  <2>4. QED
    BY <2>2, <2>3
<1>6. /\ PaidTxns = ts
      /\ Cardinality(Paid) = Cardinality(ts)
      /\ Cardinality(PaidTxns) = Cardinality(Paid)
  <2>1. TxnOf = [row \in Paid |-> row.txn] /\ PaidTxns = {row.txn : row \in Paid}
    OBVIOUS
  <2> HIDE DEF TxnOf, PaidTxns, Paid, ts
  <2>2. /\ TxnOf \in [Paid -> ts]
        /\ \A row, col \in Paid : TxnOf[row] = TxnOf[col] => row = col
        /\ \A t \in ts : \E row \in Paid : TxnOf[row] = t
    BY <1>4, <2>1
  <2>3. PaidTxns = ts
    BY <1>4, <2>1
  <2>4. QED
    BY <1>1, <2>2, <2>3, Numbered
<1>7. /\ rs \subseteq AskedRequests
      /\ Cardinality(rs) <= Cardinality(Asked)
      /\ Cardinality(AskedRequests) = Cardinality(Asked)
  <2>1. /\ RequestOf = [row \in Asked |-> row.request]
        /\ AskedRequests = {row.request : row \in Asked}
    OBVIOUS
  <2> HIDE DEF RequestOf, AskedRequests, Asked, rs
  <2>2. /\ RequestOf \in [Asked -> AskedRequests]
        /\ \A row, col \in Asked : RequestOf[row] = RequestOf[col] => row = col
        /\ \A r \in AskedRequests : \E row \in Asked : RequestOf[row] = r
    BY <1>5, <2>1
  <2>3. IsFiniteSet(AskedRequests)
    <3>1. AskedRequests \in SUBSET RequestId
      BY <1>5, <2>1
    <3>2. QED
      BY <3>1, FiniteAssumption, FS_Subset
  <2>4. Cardinality(AskedRequests) = Cardinality(Asked)
    BY <2>2, <2>3, Numbered
  <2>5. rs \subseteq AskedRequests
    BY <1>5, <2>1
  <2>6. Cardinality(rs) <= Cardinality(AskedRequests)
    BY <2>3, <2>5, FS_Subset
  <2>7. QED
    BY <2>4, <2>5, <2>6
<1>8. Cardinality(ms) = Cardinality(MatchedTxns(b, p, w))
  <2>1. MatchTxn \in [ms -> MatchedTxns(b, p, w)]
    BY DEF MatchedTxns
  <2>2. \A m, n \in ms : MatchTxn[m] = MatchTxn[n] => m = n
    BY MatchIsSelectedWithTxn DEF IInv, SettledOnce
  <2>3. \A t \in MatchedTxns(b, p, w) : \E m \in ms : MatchTxn[m] = t
    BY DEF MatchedTxns
  <2> HIDE DEF MatchTxn, ms
  <2>4. QED
    BY <1>3, <2>1, <2>2, <2>3, Numbered
<1>9. Cardinality(Left) = Cardinality(UnmatchedTxns(b, p, w))
  <2>1. \A row \in Left : \E t \in UnmatchedTxns(b, p, w) : row = UnmatchedRow(t)
    BY RowsAre, RowFields
  <2>2. \A t \in UnmatchedTxns(b, p, w) : UnmatchedRow(t) \in Left
    BY RowsAre, RowFields
  <2>3. LeftTxn \in [Left -> UnmatchedTxns(b, p, w)]
    BY <2>1, RowFields
  <2>4. \A row, col \in Left : LeftTxn[row] = LeftTxn[col] => row = col
    BY <2>1, RowFields
  <2>5. \A t \in UnmatchedTxns(b, p, w) : \E row \in Left : LeftTxn[row] = t
    BY <2>2, RowFields
  <2> HIDE DEF LeftTxn, Left
  <2>6. QED
    BY <1>3, <2>3, <2>4, <2>5, Numbered
<1>10. Cardinality(Final) <= Cardinality(MatchedTxns(b, p, w))
  <2>1. \A row \in Final : \E m \in ms : row = MatchRow(m)
    BY RowsAre, RowFields
  <2>2. FinalTxn \in [Final -> MatchedTxns(b, p, w)]
    BY <2>1, RowFields DEF MatchedTxns
  <2>3. \A m, n \in ms : m.txn = n.txn => m = n
    BY MatchIsSelectedWithTxn DEF IInv, SettledOnce
  <2>4. \A row, col \in Final : FinalTxn[row] = FinalTxn[col] => row = col
    BY <2>1, <2>3, RowFields
  <2> HIDE DEF FinalTxn, Final
  <2>5. QED
    BY <1>3, <2>2, <2>4, Numbered
<1>11. /\ run.selected.txns = ts /\ run.selected.requests = rs
       /\ run.totals.txns = Cardinality(ts)
       /\ run.totals.requests = Cardinality(rs)
       /\ run.totals.matched = Cardinality(MatchedTxns(b, p, w))
       /\ run.totals.matches = Cardinality(ms)
       /\ run.totals.unmatched = Cardinality(ts) - Cardinality(MatchedTxns(b, p, w))
  BY DEF TotalsFor, Selected, MatchedTxns
<1>12. /\ Cardinality(MatchedTxns(b, p, w)) \in Nat
       /\ Cardinality(UnmatchedTxns(b, p, w)) \in Nat
  BY <1>3, FS_CardinalityType
<1> HIDE DEF ts, ms, rs
<1>13. run.totals.unmatched = Cardinality(Left)
  BY <1>3, <1>9, <1>11, <1>12
<1>14. QED
  BY <1>6, <1>7, <1>8, <1>10, <1>11, <1>13 DEF RowsBalance

\* What the code adds up transaction by transaction is the sum of their amounts.
LEMMA ReceivedIs ==
  ASSUME NEW S, IsFiniteSet(S)
  PROVE  \E f, g : /\ f = [t \in S |-> txns[t].evidence.amount]
                   /\ Sums(g, f, S)
                   /\ Received(S) = g[S]
<1>1. PICK f : f = [t \in S |-> txns[t].evidence.amount]
  OBVIOUS
<1>2. PICK g : g = [T \in SUBSET S |-> g[T]] /\ Sums(g, f, S)
  BY SumsExist
<1>3. \E h : /\ h = [T \in SUBSET S |-> IF T = {} THEN 0
                       ELSE txns[Chosen(T)].evidence.amount + h[T \ {Chosen(T)}]]
             /\ Received(S) = h[S]
  <2>1. \A T \in SUBSET S :
          g[T] = IF T = {} THEN 0
                 ELSE txns[Chosen(T)].evidence.amount + g[T \ {Chosen(T)}]
    BY <1>1, <1>2, ChosenIn DEF SumStep, Sums
  <2>2. g = [T \in SUBSET S |-> IF T = {} THEN 0
               ELSE txns[Chosen(T)].evidence.amount + g[T \ {Chosen(T)}]]
    BY <1>2, <2>1
  <2>3. QED
    BY <2>2 DEF Received, MapThenSumSet, MapThenFoldSet, Chosen
<1>4. PICK h : /\ h = [T \in SUBSET S |-> IF T = {} THEN 0
                         ELSE txns[Chosen(T)].evidence.amount + h[T \ {Chosen(T)}]]
               /\ Received(S) = h[S]
  BY <1>3
<1>5. Sums(h, f, S)
  BY <1>1, <1>4, ChosenIn DEF Sums, SumStep
<1>6. QED
  BY <1>1, <1>4, <1>5

\* So it is with the counts of wallet snapshots.
LEMMA CountsAre ==
  ASSUME NEW S, IsFiniteSet(S)
  PROVE  \E f, g : /\ f = [s \in S |-> s.count]
                   /\ Sums(g, f, S)
                   /\ MapThenSumSet(LAMBDA s : s.count, S) = g[S]
<1>1. PICK f : f = [s \in S |-> s.count]
  OBVIOUS
<1>2. PICK g : g = [T \in SUBSET S |-> g[T]] /\ Sums(g, f, S)
  BY SumsExist
<1>3. \E h : /\ h = [T \in SUBSET S |->
                       IF T = {} THEN 0 ELSE Chosen(T).count + h[T \ {Chosen(T)}]]
             /\ MapThenSumSet(LAMBDA s : s.count, S) = h[S]
  <2>1. \A T \in SUBSET S :
          g[T] = IF T = {} THEN 0 ELSE Chosen(T).count + g[T \ {Chosen(T)}]
    BY <1>1, <1>2, ChosenIn DEF SumStep, Sums
  <2>2. g = [T \in SUBSET S |->
               IF T = {} THEN 0 ELSE Chosen(T).count + g[T \ {Chosen(T)}]]
    BY <1>2, <2>1
  <2>3. QED
    BY <2>2 DEF MapThenSumSet, MapThenFoldSet, Chosen
<1>4. PICK h : /\ h = [T \in SUBSET S |->
                         IF T = {} THEN 0 ELSE Chosen(T).count + h[T \ {Chosen(T)}]]
               /\ MapThenSumSet(LAMBDA s : s.count, S) = h[S]
  BY <1>3
<1>5. Sums(h, f, S)
  BY <1>1, <1>4, ChosenIn DEF Sums, SumStep
<1>6. QED
  BY <1>1, <1>4, <1>5

\* And with what they say was received.
LEMMA InboundsAre ==
  ASSUME NEW S, IsFiniteSet(S)
  PROVE  \E f, g : /\ f = [s \in S |-> s.inbound]
                   /\ Sums(g, f, S)
                   /\ MapThenSumSet(LAMBDA s : s.inbound, S) = g[S]
<1>1. PICK f : f = [s \in S |-> s.inbound]
  OBVIOUS
<1>2. PICK g : g = [T \in SUBSET S |-> g[T]] /\ Sums(g, f, S)
  BY SumsExist
<1>3. \E h : /\ h = [T \in SUBSET S |->
                       IF T = {} THEN 0 ELSE Chosen(T).inbound + h[T \ {Chosen(T)}]]
             /\ MapThenSumSet(LAMBDA s : s.inbound, S) = h[S]
  <2>1. \A T \in SUBSET S :
          g[T] = IF T = {} THEN 0 ELSE Chosen(T).inbound + g[T \ {Chosen(T)}]
    BY <1>1, <1>2, ChosenIn DEF SumStep, Sums
  <2>2. g = [T \in SUBSET S |->
               IF T = {} THEN 0 ELSE Chosen(T).inbound + g[T \ {Chosen(T)}]]
    BY <1>2, <2>1
  <2>3. QED
    BY <2>2 DEF MapThenSumSet, MapThenFoldSet, Chosen
<1>4. PICK h : /\ h = [T \in SUBSET S |->
                         IF T = {} THEN 0 ELSE Chosen(T).inbound + h[T \ {Chosen(T)}]]
               /\ MapThenSumSet(LAMBDA s : s.inbound, S) = h[S]
  BY <1>3
<1>5. Sums(h, f, S)
  BY <1>1, <1>4, ChosenIn DEF Sums, SumStep
<1>6. QED
  BY <1>1, <1>4, <1>5

\* What is received in the transactions of a selection is measured by one function.
LEMMA ReceivedMeasures ==
  ASSUME IInv, NEW S \in SUBSET {t \in TxnId : txns[t] # Absent}
  PROVE  \E m : Measures(m, S) /\ \A T \in SUBSET S : Received(T) = m[T]
<1>1. IsFiniteSet(S) /\ \A T \in SUBSET S : IsFiniteSet(T)
  BY FiniteAssumption, FS_Subset
<1>2. \A t \in S : txns[t].evidence.amount \in Nat
  BY ConstantsAssumption DEF IInv, TypeOK, Txn
<1>3. PICK f, g : f = [t \in S |-> txns[t].evidence.amount] /\ Sums(g, f, S)
  BY <1>1, ReceivedIs
<1>4. \A t \in S : f[t] \in Nat
  BY <1>2, <1>3
<1>5. Measures(g, S)
  <2>1. g[{}] = 0
    BY <1>3 DEF Sums, SumStep
  <2>2. \A A \in SUBSET S : g[A] \in Nat
    BY <1>1, <1>3, <1>4, SumsTakeAny
  <2>3. ASSUME NEW B \in SUBSET S
        PROVE  \A A \in SUBSET S : A \cap B = {} => g[A \cup B] = g[A] + g[B]
    <3>1. IsFiniteSet(S) /\ Sums(g, f, S)
      BY <1>1, <1>3
    <3>2. QED
      BY <1>4, <3>1, SumsOfApart
  <2>4. QED
    BY <2>1, <2>2, <2>3 DEF Measures
<1>6. ASSUME NEW T \in SUBSET S
      PROVE  Received(T) = g[T]
  <2>1. PICK e, h : /\ e = [t \in T |-> txns[t].evidence.amount]
                    /\ Sums(h, e, T)
                    /\ Received(T) = h[T]
    BY <1>1, ReceivedIs
  <2>2. \A t \in T : e[t] = f[t]
    BY <1>3, <2>1
  <2>3. \A X \in SUBSET T : g[X] = h[X]
    <3>1. /\ IsFiniteSet(S) /\ Sums(g, f, S) /\ T \subseteq S
          /\ IsFiniteSet(T) /\ Sums(h, e, T) /\ T \subseteq T
      BY <1>1, <1>3, <2>1
    <3>2. QED
      BY <2>2, <3>1, SumsAgree
  <2>4. QED
    BY <2>1, <2>3
<1>7. QED
  BY <1>5, <1>6

\* Payments without decimals to round add up to such an amount.
LEMMA WholeReceived ==
  ASSUME IInv, NEW S \in SUBSET {t \in TxnId : txns[t] # Absent},
         \A t \in S : Whole(txns[t].evidence.amount)
  PROVE  \A T \in SUBSET S : Whole(Received(T))
<1> SUFFICES ASSUME NEW T \in SUBSET S PROVE Whole(Received(T))
  OBVIOUS
<1>1. IsFiniteSet(T)
  BY FiniteAssumption, FS_Subset
<1>2. PICK f, g : /\ f = [t \in T |-> txns[t].evidence.amount]
                  /\ Sums(g, f, T)
                  /\ Received(T) = g[T]
  BY <1>1, ReceivedIs
<1>3. \A t \in T : txns[t].evidence.amount \in Nat
  BY ConstantsAssumption DEF IInv, TypeOK, Txn
<1>4. \A t \in T : f[t] \in Nat /\ Whole(f[t])
  BY <1>2, <1>3
<1>5. Whole(g[T])
  BY <1>1, <1>2, <1>4, SumsOfWhole
<1>6. QED
  BY <1>2, <1>5

\* The snapshot of wallet v in a run.
SnapshotOf(b, p, w, v) ==
  LET ts == {t \in TxnsFor(b, p, w) : txns[t].wallet = v}
  IN  [wallet |-> v, inbound |-> formatRatAmount(Received(ts)), count |-> Cardinality(ts)]

\* Each transaction of a selection is in the snapshot of its wallet, and a
\* snapshot tells of the transactions of its wallet.
LEMMA SnapshotsGroup ==
  ASSUME IInv, TablesInv, NEW b, NEW p, NEW w
  PROVE  /\ IsFiniteSet(Snapshots(b, p, w))
         /\ \A t \in TxnsFor(b, p, w) :
              SnapshotOf(b, p, w, txns[t].wallet) \in Snapshots(b, p, w)
         /\ \A s \in Snapshots(b, p, w) :
              /\ s = SnapshotOf(b, p, w, s.wallet)
              /\ s.wallet \in WalletId
<1>1. \A s \in Snapshots(b, p, w) :
        \E v \in WalletId : s = SnapshotOf(b, p, w, v)
  BY DEF Snapshots, SnapshotOf
<1>2. \A v : SnapshotOf(b, p, w, v).wallet = v
  BY DEF SnapshotOf
<1>3. \A s \in Snapshots(b, p, w) : s = SnapshotOf(b, p, w, s.wallet) /\ s.wallet \in WalletId
  BY <1>1, <1>2
<1>4. IsFiniteSet(Snapshots(b, p, w))
  <2>1. PICK f : f = [s \in Snapshots(b, p, w) |-> s.wallet]
    OBVIOUS
  <2>2. f \in [Snapshots(b, p, w) -> WalletId]
    BY <1>3, <2>1
  <2>3. \A r, s \in Snapshots(b, p, w) : f[r] = f[s] => r = s
    BY <1>3, <2>1
  <2>4. QED
    BY <2>2, <2>3, FiniteAssumption, Numbered
<1>5. ASSUME NEW t \in TxnsFor(b, p, w)
      PROVE  SnapshotOf(b, p, w, txns[t].wallet) \in Snapshots(b, p, w)
  <2>1. t \in TxnId /\ txns[t] # Absent /\ txns[t].business = b /\ OnWallet(w, txns[t].wallet)
    BY DEF TxnsFor
  <2>2. txns[t].wallet \in WalletId
    BY <2>1 DEF IInv, TypeOK, Txn
  <2>3. OwnsWallet(b, txns[t].wallet)
    BY <2>1 DEF TablesInv, BookedOnOwnWallet
  <2>4. QED
    BY <2>1, <2>2, <2>3 DEF Snapshots, SnapshotOf
<1>6. QED
  BY <1>3, <1>4, <1>5

\* The totals of a run just made are those of its snapshots.
LEMMA SnapshotsBalanceWhenMade ==
  ASSUME IInv, TablesInv, NEW b, NEW p, NEW w, NEW run,
         run.snapshots = Snapshots(b, p, w), run.totals = TotalsFor(b, p, w),
         run.selected = Selected(b, p, w)
  PROVE  SnapshotsBalance(run)
<1>1. PICK ts : ts = TxnsFor(b, p, w)
  OBVIOUS
<1>2. PICK ss : ss = Snapshots(b, p, w)
  OBVIOUS
<1>3. ts \in SUBSET {t \in TxnId : txns[t] # Absent}
  BY <1>1 DEF TxnsFor
<1>4. IsFiniteSet(ts) /\ \A T \in SUBSET ts : IsFiniteSet(T)
  BY <1>3, FiniteAssumption, FS_Subset
<1>5. PICK group : group = [t \in ts |-> SnapshotOf(b, p, w, txns[t].wallet)]
  OBVIOUS
<1>6. IsFiniteSet(ss) /\ group \in [ts -> ss]
  BY <1>1, <1>2, <1>5, SnapshotsGroup
<1>7. ASSUME NEW s \in ss
      PROVE  /\ s.count = Cardinality({t \in ts : group[t] = s})
             /\ s.inbound = formatRatAmount(Received({t \in ts : group[t] = s}))
  <2>1. s = SnapshotOf(b, p, w, s.wallet)
    BY <1>2, SnapshotsGroup
  <2>2. PICK T : T = {t \in ts : txns[t].wallet = s.wallet}
    OBVIOUS
  <2>3. s.count = Cardinality(T) /\ s.inbound = formatRatAmount(Received(T))
    BY <1>1, <2>1, <2>2 DEF SnapshotOf
  <2>4. \A v : SnapshotOf(b, p, w, v).wallet = v
    BY DEF SnapshotOf
  <2>5. T = {t \in ts : group[t] = s}
    BY <1>5, <2>1, <2>2, <2>4
  <2>6. QED
    BY <2>3, <2>5
<1>8. run.totals.txns = MapThenSumSet(LAMBDA s : s.count, run.snapshots)
  <2>1. PICK m : m = [T \in SUBSET ts |-> Cardinality(T)]
    OBVIOUS
  <2>2. Measures(m, ts)
    <3>1. m[{}] = 0
      BY <2>1, FS_EmptySet
    <3>2. \A A \in SUBSET ts : m[A] \in Nat
      BY <1>4, <2>1, FS_CardinalityType
    <3>3. \A A, B \in SUBSET ts : A \cap B = {} => m[A \cup B] = m[A] + m[B]
      BY <1>4, <2>1, CountApart
    <3>4. QED
      BY <3>1, <3>2, <3>3 DEF Measures
  <2>3. PICK f, g : /\ f = [s \in ss |-> s.count]
                    /\ Sums(g, f, ss)
                    /\ MapThenSumSet(LAMBDA s : s.count, ss) = g[ss]
    BY <1>6, CountsAre
  <2>4. \A s \in ss : f[s] = m[{t \in ts : group[t] = s}]
    BY <1>7, <2>1, <2>3
  <2>5. g[ss] = m[ts]
    BY <1>6, <2>2, <2>3, <2>4, SumOfGroups
  <2>6. run.totals.txns = Cardinality(ts) /\ run.snapshots = ss
    BY <1>1, <1>2 DEF TotalsFor
  <2>7. QED
    BY <2>1, <2>3, <2>5, <2>6
<1>9. PICK m : Measures(m, ts) /\ \A T \in SUBSET ts : Received(T) = m[T]
  BY <1>3, ReceivedMeasures
<1>10. PICK e : e = [s \in ss |-> m[{t \in ts : group[t] = s}]]
  OBVIOUS
<1>11. PICK h : Sums(h, e, ss)
  BY <1>6, SumsExist
<1>12. h[ss] = m[ts]
  <2>1. PICK f : f = e
    OBVIOUS
  <2>2. \A s \in ss : f[s] = m[{t \in ts : group[t] = s}]
    BY <1>10, <2>1
  <2>3. PICK g : g = h
    OBVIOUS
  <2>4. Sums(g, f, ss)
    BY <1>11, <2>1, <2>3
  <2>5. g[ss] = m[ts]
    BY <1>6, <1>9, <2>2, <2>4, SumOfGroups
  <2>6. QED
    BY <2>3, <2>5
<1>13. PICK f, g : /\ f = [s \in ss |-> s.inbound]
                   /\ Sums(g, f, ss)
                   /\ MapThenSumSet(LAMBDA s : s.inbound, ss) = g[ss]
  BY <1>6, InboundsAre
<1>14. \A s \in ss : e[s] \in Nat /\ f[s] = formatRatAmount(e[s])
  <2> SUFFICES ASSUME NEW s \in ss PROVE e[s] \in Nat /\ f[s] = formatRatAmount(e[s])
    OBVIOUS
  <2>1. PICK T \in SUBSET ts : T = {t \in ts : group[t] = s}
    OBVIOUS
  <2>2. e[s] = m[T] /\ m[T] \in Nat /\ Received(T) = m[T]
    BY <1>9, <1>10, <2>1 DEF Measures
  <2>3. f[s] = formatRatAmount(Received(T))
    BY <1>7, <1>13, <2>1
  <2>4. QED
    BY <2>2, <2>3
<1>15. \A s \in ss : f[s] \in Nat /\ e[s] \in Nat /\ Near(f[s], e[s])
  BY <1>14, FormattedIsNear
<1>16. /\ run.totals.received = formatRatAmount(h[ss])
       /\ run.snapshots = ss
       /\ run.selected.txns = ts
  <2>1. /\ run.totals.received = formatRatAmount(Received(ts))
        /\ run.snapshots = ss /\ run.selected.txns = ts
    BY <1>1, <1>2 DEF TotalsFor, Selected
  <2>2. Received(ts) = h[ss]
    BY <1>9, <1>12
  <2>3. QED
    BY <2>1, <2>2
<1>17. PICK n : n = Precision * Cardinality(ss)
  OBVIOUS
<1>18. /\ g[ss] \in Nat /\ h[ss] \in Nat /\ n \in Nat
       /\ 2 * g[ss] <= 2 * h[ss] + n
       /\ 2 * h[ss] <= 2 * g[ss] + n
  <2>1. AddsUp(g, f, ss) /\ AddsUp(h, e, ss)
    BY <1>6, <1>11, <1>13, <1>15 DEF AddsUp
  <2>2. \A s \in ss : Near(f[s], e[s])
    BY <1>15
  <2>3. QED
    BY <1>17, <2>1, <2>2, SumsAreNear
<1>19. PICK received : received = formatRatAmount(h[ss])
  OBVIOUS
<1>20. received \in Nat /\ Near(received, h[ss]) /\ (Whole(h[ss]) => received = h[ss])
  BY <1>18, <1>19, FormattedIsNear
<1>21. /\ 2 * received <= 2 * g[ss] + (n + Precision)
       /\ 2 * g[ss] <= 2 * received + (n + Precision)
  BY <1>18, <1>20, PrecisionAssumption DEF Near
<1>22. Precision * (Cardinality(ss) + 1) = n + Precision
  <2>1. Cardinality(ss) \in Nat
    BY <1>6, FS_CardinalityType
  <2>2. QED
    BY <1>17, <2>1, PrecisionAssumption
<1>23. ASSUME \A t \in ts : Whole(txns[t].evidence.amount)
       PROVE  received = g[ss]
  <2>1. \A T \in SUBSET ts : Whole(Received(T))
    BY <1>3, <1>23, WholeReceived
  <2>2. Whole(h[ss])
    BY <1>9, <1>12, <2>1
  <2>3. ASSUME NEW s \in ss
        PROVE  f[s] = e[s]
    <3>1. PICK T \in SUBSET ts : T = {t \in ts : group[t] = s}
      OBVIOUS
    <3>2. e[s] = Received(T)
      BY <1>9, <1>10, <3>1
    <3>3. Whole(e[s])
      BY <2>1, <3>2
    <3>4. QED
      BY <1>14, <3>3, FormattedIsNear
  <2>4. g[ss] = h[ss]
    <3>1. /\ IsFiniteSet(ss) /\ ss \subseteq ss
          /\ Sums(h, e, ss) /\ Sums(g, f, ss)
      BY <1>6, <1>11, <1>13
    <3>2. \A T \in SUBSET ss : h[T] = g[T]
      BY <2>3, <3>1, SumsAgree
    <3>3. QED
      BY <3>2
  <2>5. QED
    BY <1>20, <2>2, <2>4
<1>24. (\A t \in ts : txns[t].evidence.amount % Precision = 0) => received = g[ss]
  BY <1>23 DEF Whole
<1>25. run.totals.received = received
       /\ MapThenSumSet(LAMBDA s : s.inbound, run.snapshots) = g[ss]
  BY <1>13, <1>16, <1>19
<1>26. QED
  BY <1>8, <1>16, <1>21, <1>22, <1>24, <1>25 DEF SnapshotsBalance

Balances(run) == RowsBalance(run) /\ SnapshotsBalance(run)

\* A run goes on to balance: nothing rewrites the amounts of the transactions it
\* selected, which its rows name.
LEMMA BalanceStays ==
  ASSUME IInv, [Next]_vars, NEW n, RunTrue(n), Balances(runs[n]), NEW run, run = runs[n]
  PROVE  Balances(run)'
<1>1. PICK S : S = run.selected.txns
  OBVIOUS
<1>2. ASSUME NEW t \in S
      PROVE  txns'[t] = txns[t]
  <2>1. \E row \in run.rows : row.txn # Absent /\ row.txn = t
    BY <1>1, <1>2 DEF Balances, RowsBalance
  <2>2. t \in TxnId /\ txns[t] # Absent
    BY <2>1 DEF RunTrue, RowTrue
  <2>3. QED
    BY <2>2, StepKeepsRows DEF IInv, RowsStay
<1>3. RowsBalance(run)'
  BY DEF Balances, RowsBalance
<1>4. (\A t \in S : txns'[t].evidence.amount % Precision = 0)
        <=> \A t \in S : txns[t].evidence.amount % Precision = 0
  BY <1>2
<1>5. SnapshotsBalance(run)'
  BY <1>1, <1>4 DEF Balances, SnapshotsBalance, MapThenSumSet, MapThenFoldSet
<1>6. QED
  BY <1>3, <1>5 DEF Balances

\* A run balances when it is made, and nothing rewrites it.
LEMMA BooksBalanceStep ==
  ASSUME ReconciliationInv, BooksBalance, [ReconciliationNext]_allVars
  PROVE  BooksBalance'
<1>1. [Next]_vars /\ RunsStay
  BY ReportsArePaymentSteps, RunsAreFrozen DEF ReconciliationInv
<1>2. ASSUME NEW n \in Made
      PROVE  Balances(runs[n])'
  <2>1. RunTrue(n) /\ runs'[n] = runs[n]
    BY <1>1, <1>2 DEF ReconciliationInv, RunsTrue, RunsStay
  <2>2. PICK run : run = runs[n]
    OBVIOUS
  <2>3. Balances(runs[n])
    BY DEF BooksBalance, Balances
  <2>4. Balances(run)'
    BY <1>1, <2>1, <2>2, <2>3, BalanceStays DEF ReconciliationInv
  <2>5. QED
    BY <2>1, <2>2, <2>4
<1>3. CASE UNCHANGED runs
  BY <1>2, <1>3 DEF BooksBalance, Balances, Made
<1>4. ASSUME NEW n \in RunId, NEW b \in Business, NEW p \in Period,
             NEW w \in WalletId \cup {Absent}, CreateReconciliationRun(n, b, p, w)
      PROVE  BooksBalance'
  <2>1. PICK run : run = [business |-> b, period |-> p, wallet |-> w, at |-> clock,
                          rows |-> Rows(b, p, w), snapshots |-> Snapshots(b, p, w),
                          totals |-> TotalsFor(b, p, w), selected |-> Selected(b, p, w)]
    OBVIOUS
  <2>2. runs' = [runs EXCEPT ![n] = run] /\ UNCHANGED vars
    BY <1>4, <2>1 DEF CreateReconciliationRun
  <2>3. /\ runs'[n] = run
        /\ \A m \in RunId \ {n} : runs'[m] = runs[m]
    BY <2>2 DEF ReconciliationInv, RunsTrue
  <2>4. /\ run.rows = Rows(b, p, w) /\ run.totals = TotalsFor(b, p, w)
        /\ run.snapshots = Snapshots(b, p, w) /\ run.selected = Selected(b, p, w)
    BY <2>1
  <2>5. RowsBalance(run) /\ SnapshotsBalance(run)
    BY <2>4, RowsBalanceWhenMade, SnapshotsBalanceWhenMade DEF ReconciliationInv
  <2>6. RowsBalance(run)' /\ SnapshotsBalance(run)'
    BY <2>2, <2>5 DEF RowsBalance, SnapshotsBalance, MapThenSumSet, MapThenFoldSet, vars, store
  <2>7. Balances(runs[n])'
    BY <2>3, <2>6 DEF Balances
  <2>8. \A m \in Made' : m = n \/ m \in Made
    BY <2>3 DEF Made
  <2>9. QED
    BY <1>2, <2>7, <2>8 DEF BooksBalance, Balances
<1>5. QED
  BY <1>3, <1>4 DEF ReconciliationNext, allVars, CreateExport

-------------------------------------------------------------------------------
(* Types *)

\* The exception of a row is one of the table, if there is any.
LEMMA AboutIsTyped == \A r, t : ExceptionAbout(r, t) \in ExceptionId \cup {Absent}
<1> TAKE r, t
<1> DEFINE xs == {x \in ExceptionId : /\ exceptions[x] # Absent
                                      /\ r = Absent \/ exceptions[x].request = r
                                      /\ t = Absent \/ exceptions[x].txn = t}
<1>1. ExceptionAbout(r, t) = IF xs = {} THEN Absent ELSE CHOOSE x \in xs : TRUE
  BY DEF ExceptionAbout
<1>2. xs \subseteq ExceptionId
  OBVIOUS
<1> HIDE DEF xs
<1>3. QED
  BY <1>1, <1>2

\* The rows of a run have the shape of rows.
LEMMA RowsAreTyped ==
  ASSUME IInv, TablesInv, ReadableInv, NEW b, NEW p, NEW w
  PROVE  Rows(b, p, w) \subseteq Row
<1>1. \A m \in MatchesFor(b, p, w) : MatchRow(m) \in Row
  BY MatchIsSelectedWithTxn, AboutIsTyped DEF MatchRow, Row, RowStatus
<1>2. \A t \in UnmatchedTxns(b, p, w) : UnmatchedRow(t) \in Row
  BY AboutIsTyped DEF UnmatchedTxns, TxnsFor, UnmatchedRow, Row, RowStatus
<1>3. \A r \in PendingRequests(b, p, w) : PendingRow(r) \in Row
  BY AboutIsTyped DEF PendingRequests, RequestsFor, PendingRow, Row, RowStatus
<1>4. QED
  BY <1>1, <1>2, <1>3, RowsAre

\* What is received is printed as an amount.
LEMMA ReceivedIsPrinted ==
  ASSUME IInv, NEW S \in SUBSET {t \in TxnId : txns[t] # Absent}
  PROVE  formatRatAmount(Received(S)) \in Nat
<1>1. PICK m : Measures(m, S) /\ \A T \in SUBSET S : Received(T) = m[T]
  BY ReceivedMeasures
<1>2. Received(S) \in Nat
  BY <1>1 DEF Measures
<1>3. QED
  BY <1>2, FormattedIsNear

\* So have its snapshots.
LEMMA SnapshotsAreTyped ==
  ASSUME IInv, TablesInv, NEW b, NEW p, NEW w
  PROVE  Snapshots(b, p, w) \subseteq Snapshot
<1> SUFFICES ASSUME NEW s \in Snapshots(b, p, w)
             PROVE  s \in Snapshot
  OBVIOUS
<1>1. s = SnapshotOf(b, p, w, s.wallet) /\ s.wallet \in WalletId
  BY SnapshotsGroup
<1>2. PICK ts : ts = {t \in TxnsFor(b, p, w) : txns[t].wallet = s.wallet}
  OBVIOUS
<1>3. ts \in SUBSET {t \in TxnId : txns[t] # Absent}
  BY <1>2 DEF TxnsFor
<1>4. formatRatAmount(Received(ts)) \in Nat
  BY <1>3, ReceivedIsPrinted
<1>5. Cardinality(ts) \in Nat
  BY <1>3, FiniteAssumption, FS_Subset, FS_CardinalityType
<1>6. s = [wallet |-> s.wallet, inbound |-> formatRatAmount(Received(ts)),
           count |-> Cardinality(ts)]
  BY <1>1, <1>2 DEF SnapshotOf
<1>7. QED
  BY <1>1, <1>4, <1>5, <1>6 DEF Snapshot

\* No total is negative, the difference of two counts among them.
LEMMA TotalsAreTyped ==
  ASSUME IInv, TablesInv, ReadableInv, NEW b, NEW p, NEW w
  PROVE  TotalsFor(b, p, w) \in Totals
<1> DEFINE rs == RequestsFor(b, p, w)
           ts == TxnsFor(b, p, w)
           ms == MatchesFor(b, p, w)
           xs == ExceptionsFor(b, p, w)
           confirmed == {r \in rs : requests[r].status = "confirmed"}
           open == {x \in xs : exceptions[x].status = "open"}
           matched == MatchedTxns(b, p, w)
<1>1. /\ Cardinality(rs) \in Nat /\ Cardinality(confirmed) \in Nat
      /\ Cardinality(xs) \in Nat /\ Cardinality(open) \in Nat
  <2>1. /\ rs \in SUBSET RequestId /\ confirmed \in SUBSET RequestId
        /\ xs \in SUBSET ExceptionId /\ open \in SUBSET ExceptionId
    BY DEF RequestsFor, ExceptionsFor
  <2> HIDE DEF rs, confirmed, xs, open
  <2>2. QED
    BY <2>1, FiniteAssumption, FS_Subset, FS_CardinalityType
<1>2. ts \in SUBSET {t \in TxnId : txns[t] # Absent} /\ ts \in SUBSET TxnId
  BY DEF TxnsFor
<1>3. matched \in SUBSET ts
  BY MatchIsSelectedWithTxn DEF MatchedTxns
<1>4. /\ IsFiniteSet(ts) /\ IsFiniteSet(matched)
      /\ Cardinality(matched) <= Cardinality(ts)
      /\ Cardinality(ts) \in Nat /\ Cardinality(matched) \in Nat
  <2> HIDE DEF ts, matched
  <2>1. IsFiniteSet(ts)
    BY <1>2, FiniteAssumption, FS_Subset
  <2>2. IsFiniteSet(matched) /\ Cardinality(matched) <= Cardinality(ts)
    BY <1>3, <2>1, FS_Subset
  <2>3. QED
    BY <2>1, <2>2, FS_CardinalityType
<1>5. formatRatAmount(Received(ts)) \in Nat
  <2> HIDE DEF ts
  <2>1. QED
    BY <1>2, ReceivedIsPrinted
<1>6. Cardinality(ms) \in Nat
  <2>1. PICK f : f = [m \in ms |-> m.txn]
    OBVIOUS
  <2>2. f \in [ms -> ts]
    BY <2>1, MatchIsSelectedWithTxn
  <2>3. \A m, n \in ms : f[m] = f[n] => m = n
    BY <2>1, MatchIsSelectedWithTxn DEF IInv, SettledOnce
  <2> HIDE DEF ms, ts
  <2>4. QED
    BY <1>4, <2>2, <2>3, Numbered
<1>7. TotalsFor(b, p, w) =
        [requests |-> Cardinality(rs), confirmed |-> Cardinality(confirmed),
         txns |-> Cardinality(ts), matched |-> Cardinality(matched),
         unmatched |-> Cardinality(ts) - Cardinality(matched),
         matches |-> Cardinality(ms), exceptions |-> Cardinality(xs),
         open |-> Cardinality(open), received |-> formatRatAmount(Received(ts))]
  BY DEF TotalsFor, MatchedTxns
<1> HIDE DEF rs, ts, ms, xs, confirmed, open, matched
<1>8. Cardinality(ts) - Cardinality(matched) \in Nat
  BY <1>4
<1>9. QED
  BY <1>1, <1>4, <1>5, <1>6, <1>7, <1>8 DEF Totals

\* Runs and exports keep their shape.
LEMMA ReportTypeStep ==
  ASSUME ReconciliationInv, ReportTypeOK, [ReconciliationNext]_allVars
  PROVE  ReportTypeOK'
<1>1. CASE UNCHANGED <<runs, exports>>
  BY <1>1 DEF ReportTypeOK
<1>2. ASSUME NEW n \in RunId, NEW b \in Business, NEW p \in Period,
             NEW w \in WalletId \cup {Absent}, CreateReconciliationRun(n, b, p, w)
      PROVE  ReportTypeOK'
  <2>1. PICK run : run = [business |-> b, period |-> p, wallet |-> w, at |-> clock,
                          rows |-> Rows(b, p, w), snapshots |-> Snapshots(b, p, w),
                          totals |-> TotalsFor(b, p, w), selected |-> Selected(b, p, w)]
    OBVIOUS
  <2>2. runs' = [runs EXCEPT ![n] = run] /\ exports' = exports
    BY <1>2, <2>1 DEF CreateReconciliationRun
  <2>3. /\ Rows(b, p, w) \subseteq Row
        /\ Snapshots(b, p, w) \subseteq Snapshot
        /\ TotalsFor(b, p, w) \in Totals
        /\ clock \in Nat
    BY RowsAreTyped, SnapshotsAreTyped, TotalsAreTyped DEF ReconciliationInv, IInv, TypeOK
  <2>4. Selected(b, p, w) \in Selection
    BY DEF Selected, Selection, TxnsFor, RequestsFor, ExceptionsFor
  <2>5. run \in Run
    BY <2>1, <2>3, <2>4 DEF Run
  <2>6. QED
    BY <2>2, <2>5 DEF ReportTypeOK
<1>3. ASSUME NEW n \in RunId, NEW b \in Business, NEW format \in Format,
             CreateExport(b, n, format)
      PROVE  ReportTypeOK'
  <2>1. PICK X : X = renderSettlementExport(n, format).exceptions
    OBVIOUS
  <2>2. PICK e : e = [run |-> n, format |-> format, rows |-> runs[n].rows, exceptions |-> X]
    OBVIOUS
  <2>3. e = renderSettlementExport(n, format)
    BY <2>1, <2>2 DEF renderSettlementExport
  <2>4. exports' = exports \cup {e} /\ runs' = runs /\ runs[n] # Absent
    BY <1>3, <2>3 DEF CreateExport
  <2>5. runs[n].rows \in SUBSET Row
    BY <2>4 DEF ReportTypeOK, Run
  <2>6. X \in SUBSET ExceptionId
    BY <2>1 DEF renderSettlementExport, ExceptionsFor
  <2>7. e \in Export
    BY <2>2, <2>5, <2>6 DEF Export
  <2>8. QED
    BY <2>4, <2>7 DEF ReportTypeOK
<1>4. QED
  BY <1>1, <1>2, <1>3 DEF ReconciliationNext, allVars

-------------------------------------------------------------------------------
(* Theorems *)

\* The invariant holds in every reachable state, for any periods, any number of
\* runs and exports, and any interleaving of them with payment calls.
THEOREM ReportsInductive == ReconciliationSpec => []ReconciliationInv
<1>1. ReconciliationInit => ReadableInv /\ RunsTrue /\ ExportsKeep
  BY ReadableInit
     DEF ReconciliationInit, RunsTrue, Made, ExportsKeep
<1>2. [ReconciliationNext]_allVars => [Next]_vars
  BY ReportsArePaymentSteps
<1>3. IInv /\ ReadableInv /\ [Next]_vars => ReadableInv'
  BY ReadableStep
<1>4. ReconciliationInv /\ [ReconciliationNext]_allVars => RunsTrue' /\ ExportsKeep'
  BY RunsTrueStep, ExportsKeepStep
<1>5. ReconciliationInv <=>
        IInv /\ TablesInv /\ StoryInv /\ ReadableInv /\ RunsTrue /\ ExportsKeep
  BY DEF ReconciliationInv
<1>6. QED
  BY ReportsLeavePaymentsAlone, TablesAgree, OneStory, <1>1, <1>2, <1>3, <1>4, <1>5, PTL
     DEF ReconciliationSpec

\* A row frozen as reconciled is true for ever: no later payment, resolution or
\* creation makes its request, its transaction or an exception say otherwise.
THEOREM ReconciledStaysFinal == ReconciliationSpec => []ReconciledIsFinal
<1>1. ASSUME ReconciliationInv, NEW n \in Made, NEW row \in runs[n].rows,
             row.status = "reconciled"
      PROVE  /\ requests[row.request].status = "confirmed"
             /\ txns[row.txn].status = "matched_to_request"
             /\ txns[row.txn].evidence.amount = requests[row.request].amount
             /\ \A x \in ExceptionId :
                  exceptions[x] # Absent =>
                    exceptions[x].request # row.request /\ exceptions[x].txn # row.txn
  <2>1. PICK m \in matches :
          m.request = row.request /\ m.txn = row.txn /\ m.status = "confirmed"
    BY <1>1 DEF ReconciliationInv, RunsTrue, RunTrue, RowTrue, Reconciles
  <2>2. m.txn \in TxnId /\ txns[m.txn] # Absent
    BY <1>1 DEF ReconciliationInv, IInv, TypeOK, Match, NoDanglingId, TablesClosed
  <2>3. txns[m.txn].status = "matched_to_request"
    BY <1>1, <2>2 DEF ReconciliationInv, StoryInv, Accounts, Account, Unmatched
  <2>4. txns[m.txn].evidence.amount = requests[m.request].amount
    BY <1>1, <2>1 DEF ReconciliationInv, TablesInv, VerdictsJust, Just
  <2>5. QED
    BY <1>1, <2>1, <2>3, <2>4 DEF ReconciliationInv, StoryInv, ConfirmedIsClean
<1>2. ReconciliationInv => ReconciledIsFinal
  BY <1>1 DEF ReconciledIsFinal
<1>3. QED
  BY ReportsInductive, <1>2, PTL

\* A payment a run reports was detected in the run's period, so that runs over
\* disjoint periods never count one twice.
THEOREM PeriodsShareNoPayment == ReconciliationSpec => []PaymentsStayInPeriod
<1>1. ReconciliationInv => PaymentsStayInPeriod
  BY DEF ReconciliationInv, RunsTrue, RunTrue, RowTrue, PaymentsStayInPeriod
<1>2. QED
  BY ReportsInductive, <1>1, PTL

\* Every export shows the exceptions that its run counted and that were opened in
\* the period, by its rows; and one with a list of exceptions, though it selects
\* them again, has all that the run counted.
THEOREM ExportsLoseNothing == ReconciliationSpec => []ExportsKeepExceptions
<1>1. ASSUME ReconciliationInv, NEW e \in exports,
             NEW x \in runs[e.run].selected.exceptions,
             InPeriod(runs[e.run].period, exceptions[x].at)
      PROVE  x \in {row.exception : row \in e.rows}
  <2>1. RunTrue(e.run) /\ e.rows = runs[e.run].rows
    BY <1>1 DEF ReconciliationInv, ExportsKeep, Keeps, RunsTrue
  <2>2. \E row \in e.rows : row.exception = x
    BY <1>1, <2>1 DEF RunTrue, Shown
  <2>3. QED
    BY <2>2
<1>2. ReconciliationInv => ExportsKeepExceptions
  BY <1>1 DEF ReconciliationInv, ExportsKeep, Keeps, ExportsKeepExceptions
<1>3. QED
  BY ReportsInductive, <1>2, PTL

\* Runs and exports have their shape, for any number of them: above all no total
\* is negative.
THEOREM ReportsTypeCorrect == ReconciliationSpec => []ReportTypeOK
<1>1. ReconciliationInit => ReportTypeOK
  BY DEF ReconciliationInit, ReportTypeOK
<1>2. ReconciliationInv /\ ReportTypeOK /\ [ReconciliationNext]_allVars => ReportTypeOK'
  BY ReportTypeStep
<1>3. QED
  BY ReportsInductive, <1>1, <1>2, PTL DEF ReconciliationSpec

\* The rows of a run tell of exactly the payments it selected and of every request
\* it selected, each in one row; and the rows, the totals and the snapshots, each
\* computed apart, agree, on amounts up to the rounding of what is printed.
THEOREM BooksAlwaysBalance == ReconciliationSpec => []BooksBalance
<1>1. ReconciliationInit => BooksBalance
  BY DEF ReconciliationInit, BooksBalance, Made
<1>2. ReconciliationInv /\ BooksBalance /\ [ReconciliationNext]_allVars => BooksBalance'
  BY BooksBalanceStep
<1>3. QED
  BY ReportsInductive, <1>1, <1>2, PTL DEF ReconciliationSpec

-------------------------------------------------------------------------------
(* What a match and an exception stand for *)

\* A match joins a request and a transaction of one business, and the
\* transaction is marked as matched.
LEMMA MatchJoins ==
  ASSUME ReconciliationInv, NEW m \in matches
  PROVE  /\ m \in Match
         /\ m.request \in RequestId /\ requests[m.request] # Absent
         /\ m.txn \in TxnId /\ txns[m.txn] # Absent
         /\ txns[m.txn].business = requests[m.request].business
         /\ txns[m.txn].status = "matched_to_request"
<1>1. m \in Match
  BY DEF ReconciliationInv, IInv, TypeOK
<1>2. /\ m.request \in RequestId /\ requests[m.request] # Absent
      /\ m.txn \in TxnId /\ txns[m.txn] # Absent
  BY <1>1 DEF ReconciliationInv, IInv, NoDanglingId, TablesClosed, Match
<1>3. txns[m.txn].business = requests[m.request].business
  BY DEF ReconciliationInv, TablesInv, VerdictsJust, Just
<1>4. txns[m.txn].status = "matched_to_request"
  BY <1>2 DEF ReconciliationInv, StoryInv, Accounts, Account, Unmatched
<1>5. QED
  BY <1>1, <1>2, <1>3, <1>4

\* An exception disputes a match, or stands for a payment that settled nothing.
LEMMA CaseStandsFor ==
  ASSUME ReconciliationInv, NEW x \in ExceptionId, exceptions[x] # Absent
  PROVE  /\ exceptions[x].txn \in TxnId /\ txns[exceptions[x].txn] # Absent
         /\ txns[exceptions[x].txn].business = exceptions[x].business
         /\ exceptions[x].status \in {"open", "resolved"}
         /\ \/ /\ exceptions[x].type \in Outcome
               /\ \E m \in matches : m.status # "confirmed" /\ Disputes(x, m)
            \/ /\ exceptions[x].type = "ambiguous_match"
               /\ txns[exceptions[x].txn].status = "confirmed_onchain"
            \/ /\ exceptions[x].type = "orphan"
               /\ txns[exceptions[x].txn].status = "orphan"
<1> DEFINE t == exceptions[x].txn
<1>1. exceptions[x] \in Exception
  BY DEF ReconciliationInv, IInv, TypeOK
<1>2. t \in TxnId /\ txns[t] # Absent /\ exceptions[x].status \in {"open", "resolved"}
  BY <1>1 DEF ReconciliationInv, IInv, NoDanglingId, TablesClosed, Exception
<1>3. txns[t].business = exceptions[x].business
  BY DEF ReconciliationInv, ReadableInv, ExceptionsFitTxns, FitsTxn
<1>4. \A y \in ExceptionId : exceptions[y] # Absent /\ exceptions[y].txn = t => y = x
  BY DEF ReconciliationInv, StoryInv, OneExceptionPerTxn
<1>5. Account(t)
  BY <1>2 DEF ReconciliationInv, StoryInv, Accounts
<1>6. CASE ~Unmatched(t)
  <2>1. PICK m \in matches : m.txn = t
    BY <1>6 DEF Unmatched
  <2>2. m.status # "confirmed"
    BY <2>1 DEF ReconciliationInv, StoryInv, ConfirmedIsClean
  <2>3. PICK y \in ExceptionId : Disputes(y, m)
    BY <2>2 DEF ReconciliationInv, StoryInv, DisputesAreRaised
  <2>4. y = x
    BY <1>4, <2>1, <2>3 DEF Disputes
  <2>5. m.status \in Outcome
    BY MatchJoins DEF Match
  <2>6. exceptions[x].type \in Outcome
    BY <2>3, <2>4, <2>5 DEF Disputes
  <2>7. QED
    BY <1>2, <1>3, <2>2, <2>3, <2>4, <2>6
<1>7. CASE Unmatched(t)
  <2>1. \/ /\ txns[t].status = "confirmed_onchain" /\ RaisedAbout(t, "ambiguous_match")
        \/ /\ txns[t].status = "orphan" /\ RaisedAbout(t, "orphan")
    BY <1>5, <1>7 DEF Account
  <2>2. \A type : RaisedAbout(t, type) => exceptions[x].type = type
    BY <1>4 DEF RaisedAbout
  <2>3. QED
    BY <1>2, <1>3, <2>1, <2>2
<1>8. QED
  BY <1>6, <1>7

-------------------------------------------------------------------------------
(* The sets that are counted *)

MatchesOf(b) == {n \in matches : requests[n.request].business = b}

ExactOf(b) == {n \in MatchesOf(b) : n.status = "confirmed"}

DisputedOf(b) == {n \in MatchesOf(b) : n.status # "confirmed"}

With(table, b, status) == {i \in Own(table, b) : table[i].status = status}

Cases(b, S) == {x \in Own(exceptions, b) : exceptions[x].type \in S}

OpenCases(b, S) == {x \in Cases(b, S) : exceptions[x].status = "open"}

\* The tables' own rows are rows with known ids.
LEMMA OwnRows ==
  ASSUME ReconciliationInv, NEW b
  PROVE  /\ Own(requests, b) =
              {r \in RequestId : requests[r] # Absent /\ requests[r].business = b}
         /\ Own(txns, b) = {t \in TxnId : txns[t] # Absent /\ txns[t].business = b}
         /\ Own(exceptions, b) =
              {x \in ExceptionId : exceptions[x] # Absent /\ exceptions[x].business = b}
         /\ Own(runs, b) = {n \in RunId : runs[n] # Absent /\ runs[n].business = b}
<1>1. /\ DOMAIN requests = RequestId /\ DOMAIN txns = TxnId
      /\ DOMAIN exceptions = ExceptionId
  BY DEF ReconciliationInv, IInv, TypeOK
<1>2. DOMAIN runs = RunId
  BY DEF ReconciliationInv, RunsTrue
<1>3. QED
  BY <1>1, <1>2 DEF Own

\* Each of them is finite.
LEMMA OwnRowsFinite ==
  ASSUME ReconciliationInv, NEW b
  PROVE  /\ IsFiniteSet(Own(requests, b)) /\ IsFiniteSet(Own(txns, b))
         /\ IsFiniteSet(Own(exceptions, b)) /\ IsFiniteSet(Own(runs, b))
<1>1. /\ Own(requests, b) \subseteq RequestId /\ Own(txns, b) \subseteq TxnId
      /\ Own(exceptions, b) \subseteq ExceptionId /\ Own(runs, b) \subseteq RunId
  BY OwnRows
<1>2. QED
  BY <1>1, FiniteAssumption, FS_Subset

\* Selections of them are finite.
LEMMA SelectionsFinite ==
  ASSUME ReconciliationInv, NEW b, NEW S
  PROVE  /\ IsFiniteSet(With(requests, b, S)) /\ IsFiniteSet(With(txns, b, S))
         /\ IsFiniteSet(With(exceptions, b, S))
         /\ IsFiniteSet(Cases(b, S)) /\ IsFiniteSet(OpenCases(b, S))
<1>1. /\ With(requests, b, S) \subseteq Own(requests, b)
      /\ With(txns, b, S) \subseteq Own(txns, b)
      /\ With(exceptions, b, S) \subseteq Own(exceptions, b)
      /\ Cases(b, S) \subseteq Own(exceptions, b)
      /\ OpenCases(b, S) \subseteq Own(exceptions, b)
  BY DEF With, Cases, OpenCases
<1>2. QED
  BY <1>1, OwnRowsFinite, FS_Subset

-------------------------------------------------------------------------------
(* The pairings *)

\* Each match made one transaction matched.
LEMMA MatchesPairTxns ==
  ASSUME ReconciliationInv, NEW b
  PROVE  /\ IsFiniteSet(MatchesOf(b))
         /\ Cardinality(MatchesOf(b)) = Cardinality(With(txns, b, "matched_to_request"))
<1> DEFINE S == MatchesOf(b)
           T == With(txns, b, "matched_to_request")
           R == {p \in matches \X TxnId : p[1].txn = p[2]}
<1>1. \A m \in matches, t \in TxnId : <<m, t>> \in R <=> m.txn = t
  OBVIOUS
<1>2. S \subseteq matches /\ T \subseteq TxnId
  BY OwnRows DEF MatchesOf, With
<1>3. \A m \in S : \E t \in T : m.txn = t
  BY MatchJoins, OwnRows DEF MatchesOf, With
<1>4. ASSUME NEW t \in T
      PROVE  \E m \in S : m.txn = t
  <2>1. /\ t \in TxnId /\ txns[t] # Absent /\ txns[t].business = b
        /\ txns[t].status = "matched_to_request"
    BY OwnRows DEF With
  <2>2. ~Unmatched(t)
    BY <2>1 DEF ReconciliationInv, StoryInv, Accounts, Account
  <2>3. QED
    BY <2>1, <2>2, MatchJoins DEF Unmatched, MatchesOf
<1>5. \A m, n \in S : m.txn = n.txn => m = n
  BY <1>2 DEF ReconciliationInv, IInv, SettledOnce
<1>6. IsFiniteSet(T)
  BY SelectionsFinite
<1> HIDE DEF S, T, R
<1>7. /\ \A m \in S : \E t \in T : <<m, t>> \in R
      /\ \A t \in T : \E m \in S : <<m, t>> \in R
      /\ \A m \in S, t, u \in T : <<m, t>> \in R /\ <<m, u>> \in R => t = u
      /\ \A m, n \in S, t \in T : <<m, t>> \in R /\ <<n, t>> \in R => m = n
  BY <1>1, <1>2, <1>3, <1>4, <1>5
<1>8. IsFiniteSet(S) /\ Cardinality(S) = Cardinality(T)
  BY <1>6, <1>7, Paired
<1>9. QED
  BY <1>8 DEF S, T

\* Each exact match confirmed one request, and nothing else confirms one.
LEMMA ExactPairRequests ==
  ASSUME ReconciliationInv, NEW b
  PROVE  Cardinality(ExactOf(b)) = Cardinality(With(requests, b, "confirmed"))
<1> DEFINE S == ExactOf(b)
           T == With(requests, b, "confirmed")
           R == {p \in matches \X RequestId : p[1].request = p[2]}
<1>1. \A m \in matches, r \in RequestId : <<m, r>> \in R <=> m.request = r
  OBVIOUS
<1>2. S \subseteq matches /\ T \subseteq RequestId
  BY OwnRows DEF ExactOf, MatchesOf, With
<1>3. ASSUME NEW m \in S
      PROVE  \E r \in T : m.request = r
  <2>1. m \in matches /\ m.status = "confirmed" /\ requests[m.request].business = b
    BY DEF ExactOf, MatchesOf
  <2>2. requests[m.request].status = "confirmed"
    BY <2>1 DEF ReconciliationInv, StoryInv, ConfirmedIsClean
  <2>3. QED
    BY <2>1, <2>2, MatchJoins, OwnRows DEF With
<1>4. ASSUME NEW r \in T
      PROVE  \E m \in S : m.request = r
  <2>1. /\ r \in RequestId /\ requests[r] # Absent /\ requests[r].business = b
        /\ requests[r].status = "confirmed"
    BY OwnRows DEF With
  <2>2. PICK m \in matches : m.request = r
    BY <2>1 DEF ReconciliationInv, StoryInv, SettledHaveMatch
  <2>3. m.status = "confirmed"
    <3>1. SUFFICES ASSUME m.status # "confirmed" PROVE FALSE
      OBVIOUS
    <3>2. PICK x \in ExceptionId : Disputes(x, m)
      BY <3>1 DEF ReconciliationInv, StoryInv, DisputesAreRaised
    <3>3. QED
      BY <2>1, <2>2, <3>1, <3>2 DEF Disputes
  <2>4. QED
    BY <2>1, <2>2, <2>3 DEF ExactOf, MatchesOf
<1>5. \A m, n \in S : m.request = n.request => m = n
  BY <1>2 DEF ReconciliationInv, IInv, SettledOnce
<1>6. IsFiniteSet(T)
  BY SelectionsFinite
<1> HIDE DEF S, T, R
<1>7. /\ \A m \in S : \E r \in T : <<m, r>> \in R
      /\ \A r \in T : \E m \in S : <<m, r>> \in R
      /\ \A m \in S, r, q \in T : <<m, r>> \in R /\ <<m, q>> \in R => r = q
      /\ \A m, n \in S, r \in T : <<m, r>> \in R /\ <<n, r>> \in R => m = n
  BY <1>1, <1>2, <1>3, <1>4, <1>5
<1>8. Cardinality(S) = Cardinality(T)
  BY <1>6, <1>7, Paired
<1>9. QED
  BY <1>8 DEF S, T

\* Each other match is disputed by one exception.
LEMMA DisputedPairCases ==
  ASSUME ReconciliationInv, NEW b
  PROVE  Cardinality(DisputedOf(b)) = Cardinality(Cases(b, Outcome))
<1> DEFINE S == DisputedOf(b)
           T == Cases(b, Outcome)
           R == {p \in matches \X ExceptionId : exceptions[p[2]].txn = p[1].txn}
<1>1. \A m \in matches, x \in ExceptionId :
        <<m, x>> \in R <=> exceptions[x].txn = m.txn
  OBVIOUS
<1>2. S \subseteq matches /\ T \subseteq ExceptionId
  BY OwnRows DEF DisputedOf, MatchesOf, Cases
<1>3. ASSUME NEW m \in S
      PROVE  \E x \in T : exceptions[x].txn = m.txn
  <2>1. m \in matches /\ m.status # "confirmed" /\ requests[m.request].business = b
    BY DEF DisputedOf, MatchesOf
  <2>2. PICK x \in ExceptionId : Disputes(x, m)
    BY <2>1 DEF ReconciliationInv, StoryInv, DisputesAreRaised
  <2>3. m.status \in Outcome
    BY <2>1, MatchJoins DEF Match
  <2>4. QED
    BY <2>1, <2>2, <2>3, OwnRows DEF Disputes, Cases
<1>4. ASSUME NEW x \in T
      PROVE  \E m \in S : exceptions[x].txn = m.txn
  <2>1. /\ x \in ExceptionId /\ exceptions[x] # Absent /\ exceptions[x].business = b
        /\ exceptions[x].type \in Outcome
    BY OwnRows DEF Cases
  <2>2. PICK m \in matches : m.status # "confirmed" /\ Disputes(x, m)
    BY <2>1, CaseStandsFor DEF Outcome
  <2>3. QED
    BY <2>1, <2>2 DEF Disputes, DisputedOf, MatchesOf
<1>5. \A m, n \in S : m.txn = n.txn => m = n
  BY <1>2 DEF ReconciliationInv, IInv, SettledOnce
<1>6. \A x, y \in T : exceptions[x].txn = exceptions[y].txn => x = y
  BY OwnRows DEF Cases, ReconciliationInv, StoryInv, OneExceptionPerTxn
<1>7. IsFiniteSet(T)
  BY SelectionsFinite
<1> HIDE DEF S, T, R
<1>8. /\ \A m \in S : \E x \in T : <<m, x>> \in R
      /\ \A x \in T : \E m \in S : <<m, x>> \in R
      /\ \A m \in S, x, y \in T : <<m, x>> \in R /\ <<m, y>> \in R => x = y
      /\ \A m, n \in S, x \in T : <<m, x>> \in R /\ <<n, x>> \in R => m = n
  BY <1>1, <1>2, <1>3, <1>4, <1>5, <1>6
<1>9. Cardinality(S) = Cardinality(T)
  BY <1>7, <1>8, Paired
<1>10. QED
  BY <1>9 DEF S, T

\* Each payment that settled nothing has its own exception.
LEMMA UnsettledPairCases ==
  ASSUME ReconciliationInv, NEW b, NEW st, NEW type,
         \/ st = "orphan" /\ type = "orphan"
         \/ st = "confirmed_onchain" /\ type = "ambiguous_match"
  PROVE  Cardinality(With(txns, b, st)) = Cardinality(Cases(b, {type}))
<1> DEFINE S == With(txns, b, st)
           T == Cases(b, {type})
           R == {p \in TxnId \X ExceptionId : exceptions[p[2]].txn = p[1]}
<1>1. \A t \in TxnId, x \in ExceptionId : <<t, x>> \in R <=> exceptions[x].txn = t
  OBVIOUS
<1>2. S \subseteq TxnId /\ T \subseteq ExceptionId
  BY OwnRows DEF With, Cases
<1>3. ASSUME NEW t \in S
      PROVE  \E x \in T : exceptions[x].txn = t
  <2>1. t \in TxnId /\ txns[t] # Absent /\ txns[t].business = b /\ txns[t].status = st
    BY OwnRows DEF With
  <2>2. RaisedAbout(t, type)
    BY <2>1 DEF ReconciliationInv, StoryInv, Accounts, Account
  <2>3. PICK x \in ExceptionId :
          exceptions[x] # Absent /\ exceptions[x].txn = t /\ exceptions[x].type = type
    BY <2>2 DEF RaisedAbout
  <2>4. exceptions[x].business = b
    BY <2>1, <2>3, CaseStandsFor
  <2>5. QED
    BY <2>3, <2>4, OwnRows DEF Cases
<1>4. ASSUME NEW x \in T
      PROVE  \E t \in S : exceptions[x].txn = t
  <2>1. /\ x \in ExceptionId /\ exceptions[x] # Absent /\ exceptions[x].business = b
        /\ exceptions[x].type = type
    BY OwnRows DEF Cases
  <2>2. exceptions[x].type \notin Outcome
    BY <2>1 DEF Outcome
  <2>3. /\ exceptions[x].txn \in TxnId /\ txns[exceptions[x].txn] # Absent
        /\ txns[exceptions[x].txn].business = b
        /\ txns[exceptions[x].txn].status = st
    BY <2>1, <2>2, CaseStandsFor
  <2>4. QED
    BY <2>3, OwnRows DEF With
<1>5. \A x, y \in T : exceptions[x].txn = exceptions[y].txn => x = y
  BY OwnRows DEF Cases, ReconciliationInv, StoryInv, OneExceptionPerTxn
<1>6. IsFiniteSet(T)
  BY SelectionsFinite
<1> HIDE DEF S, T, R
<1>7. /\ \A t \in S : \E x \in T : <<t, x>> \in R
      /\ \A x \in T : \E t \in S : <<t, x>> \in R
      /\ \A t \in S, x, y \in T : <<t, x>> \in R /\ <<t, y>> \in R => x = y
      /\ \A t, u \in S, x \in T : <<t, x>> \in R /\ <<u, x>> \in R => t = u
  BY <1>1, <1>2, <1>3, <1>4, <1>5
<1>8. Cardinality(S) = Cardinality(T)
  BY <1>6, <1>7, Paired
<1>9. QED
  BY <1>8 DEF S, T

\* Requests of business b that a payment left underpaid, overpaid or expired.
Disputed(b) ==
  With(requests, b, "underpaid") \cup With(requests, b, "overpaid")
    \cup With(requests, b, "expired")

\* Each of them is named by one open exception, until that is resolved.
LEMMA DisputedPairOpenCases ==
  ASSUME ReconciliationInv, NEW b
  PROVE  Cardinality(Disputed(b)) = Cardinality(OpenCases(b, Outcome))
<1> DEFINE S == Disputed(b)
           T == OpenCases(b, Outcome)
           R == {p \in RequestId \X ExceptionId : exceptions[p[2]].request = p[1]}
<1>1. \A r \in RequestId, x \in ExceptionId :
        <<r, x>> \in R <=> exceptions[x].request = r
  OBVIOUS
<1>2. S \subseteq RequestId /\ T \subseteq ExceptionId
  BY OwnRows DEF Disputed, With, OpenCases, Cases
<1>3. ASSUME NEW r \in S
      PROVE  \E x \in T : exceptions[x].request = r
  <2>1. /\ r \in RequestId /\ requests[r] # Absent /\ requests[r].business = b
        /\ requests[r].status \in {"underpaid", "overpaid", "expired"}
    BY OwnRows DEF Disputed, With
  <2>2. PICK m \in matches : m.request = r
    BY <2>1 DEF ReconciliationInv, StoryInv, SettledHaveMatch
  <2>3. m.status # "confirmed"
    BY <2>1, <2>2 DEF ReconciliationInv, StoryInv, ConfirmedIsClean
  <2>4. PICK x \in ExceptionId : Disputes(x, m)
    BY <2>3 DEF ReconciliationInv, StoryInv, DisputesAreRaised
  <2>5. m.status \in Outcome
    BY MatchJoins DEF Match
  <2>6. /\ exceptions[x] # Absent /\ exceptions[x].business = b
        /\ exceptions[x].type \in Outcome /\ exceptions[x].request = r
        /\ exceptions[x].status = "open"
    BY <2>1, <2>2, <2>4, <2>5 DEF Disputes
  <2>7. QED
    BY <2>6, OwnRows DEF OpenCases, Cases
<1>4. ASSUME NEW x \in T
      PROVE  \E r \in S : exceptions[x].request = r
  <2>1. /\ x \in ExceptionId /\ exceptions[x] # Absent /\ exceptions[x].business = b
        /\ exceptions[x].type \in Outcome /\ exceptions[x].status = "open"
    BY OwnRows DEF OpenCases, Cases
  <2>2. PICK m \in matches : m.status # "confirmed" /\ Disputes(x, m)
    BY <2>1, CaseStandsFor DEF Outcome
  <2>3. m.request \in RequestId /\ requests[m.request] # Absent /\ m.status \in Outcome
    BY MatchJoins DEF Match
  <2>4. /\ exceptions[x].request = m.request
        /\ requests[m.request].business = b
        /\ requests[m.request].status = m.status
    BY <2>1, <2>2 DEF Disputes
  <2>5. m.status \in {"underpaid", "overpaid", "expired"}
    BY <2>2, <2>3 DEF Outcome
  <2>6. m.request \in S
    BY <2>3, <2>4, <2>5, OwnRows DEF Disputed, With
  <2>7. QED
    BY <2>4, <2>6
<1>5. \A x, y \in T : exceptions[x].request = exceptions[y].request => x = y
  <2>1. ASSUME NEW x \in T
        PROVE  exceptions[x] # Absent /\ exceptions[x].request # Absent
    <3>1. exceptions[x] # Absent
      BY OwnRows DEF OpenCases, Cases
    <3>2. PICK r \in S : exceptions[x].request = r
      BY <1>4
    <3>3. r # Absent
      BY <1>2, AbsentAssumption
    <3>4. QED
      BY <3>1, <3>2, <3>3
  <2>2. QED
    BY <1>2, <2>1 DEF ReconciliationInv, IInv, OneDisputePerRequest
<1>6. IsFiniteSet(T)
  BY SelectionsFinite
<1> HIDE DEF S, T, R
<1>7. /\ \A r \in S : \E x \in T : <<r, x>> \in R
      /\ \A x \in T : \E r \in S : <<r, x>> \in R
      /\ \A r \in S, x, y \in T : <<r, x>> \in R /\ <<r, y>> \in R => x = y
      /\ \A r, q \in S, x \in T : <<r, x>> \in R /\ <<q, x>> \in R => r = q
  BY <1>1, <1>2, <1>3, <1>4, <1>5
<1>8. Cardinality(S) = Cardinality(T)
  BY <1>6, <1>7, Paired
<1>9. QED
  BY <1>8 DEF S, T

-------------------------------------------------------------------------------
(* The sums *)

\* All matches are exact or disputed.
LEMMA MatchesSplit ==
  ASSUME ReconciliationInv, NEW b
  PROVE  Cardinality(MatchesOf(b)) = Cardinality(ExactOf(b)) + Cardinality(DisputedOf(b))
<1>1. /\ MatchesOf(b) = ExactOf(b) \cup DisputedOf(b)
      /\ ExactOf(b) \cap DisputedOf(b) = {}
  BY DEF ExactOf, DisputedOf
<1>2. IsFiniteSet(MatchesOf(b))
  BY MatchesPairTxns
<1>3. IsFiniteSet(ExactOf(b)) /\ IsFiniteSet(DisputedOf(b))
  BY <1>1, <1>2, FS_Subset
<1>4. QED
  BY <1>1, <1>3, CountApart

\* Disputed requests have one of three statuses.
LEMMA DisputedSplit ==
  ASSUME ReconciliationInv, NEW b
  PROVE  Cardinality(Disputed(b)) = Cardinality(With(requests, b, "underpaid"))
                                      + Cardinality(With(requests, b, "overpaid"))
                                      + Cardinality(With(requests, b, "expired"))
<1> DEFINE U == With(requests, b, "underpaid")
           O == With(requests, b, "overpaid")
           E == With(requests, b, "expired")
<1>1. IsFiniteSet(U) /\ IsFiniteSet(O) /\ IsFiniteSet(E)
  BY SelectionsFinite
<1>2. U \cap O = {} /\ (U \cup O) \cap E = {}
  BY DEF With
<1>3. Disputed(b) = (U \cup O) \cup E
  BY DEF Disputed
<1> HIDE DEF U, O, E
<1>4. IsFiniteSet(U \cup O) /\ Cardinality(U \cup O) = Cardinality(U) + Cardinality(O)
  BY <1>1, <1>2, CountApart
<1>5. Cardinality((U \cup O) \cup E) = Cardinality(U \cup O) + Cardinality(E)
  BY <1>1, <1>2, <1>4, CountApart
<1>6. Cardinality(Disputed(b)) = Cardinality(U) + Cardinality(O) + Cardinality(E)
  BY <1>3, <1>4, <1>5
<1>7. QED
  BY <1>6 DEF U, O, E

\* Every stored transaction has one of four statuses.
LEMMA TxnsSplit ==
  ASSUME ReconciliationInv, NEW b
  PROVE  Cardinality(Own(txns, b)) = Cardinality(With(txns, b, "matched_to_request"))
                                       + Cardinality(With(txns, b, "orphan"))
                                       + Cardinality(With(txns, b, "confirmed_onchain"))
                                       + Cardinality(With(txns, b, "pending_finality"))
<1> DEFINE M == With(txns, b, "matched_to_request")
           O == With(txns, b, "orphan")
           C == With(txns, b, "confirmed_onchain")
           P == With(txns, b, "pending_finality")
<1>1. IsFiniteSet(M) /\ IsFiniteSet(O) /\ IsFiniteSet(C) /\ IsFiniteSet(P)
  BY SelectionsFinite
<1>2. M \cap O = {} /\ (M \cup O) \cap C = {} /\ ((M \cup O) \cup C) \cap P = {}
  BY DEF With
<1>3. Own(txns, b) = ((M \cup O) \cup C) \cup P
  <2>1. \A t \in Own(txns, b) : txns[t].status \in TxnStatus
    BY OwnRows DEF ReconciliationInv, IInv, TypeOK, Txn
  <2>2. QED
    BY <2>1 DEF With, TxnStatus
<1> HIDE DEF M, O, C, P
<1>4. IsFiniteSet(M \cup O) /\ Cardinality(M \cup O) = Cardinality(M) + Cardinality(O)
  BY <1>1, <1>2, CountApart
<1>5. /\ IsFiniteSet((M \cup O) \cup C)
      /\ Cardinality((M \cup O) \cup C) = Cardinality(M \cup O) + Cardinality(C)
  BY <1>1, <1>2, <1>4, CountApart
<1>6. Cardinality(((M \cup O) \cup C) \cup P) = Cardinality((M \cup O) \cup C) + Cardinality(P)
  BY <1>1, <1>2, <1>5, CountApart
<1>7. Cardinality(Own(txns, b))
        = Cardinality(M) + Cardinality(O) + Cardinality(C) + Cardinality(P)
  BY <1>3, <1>4, <1>5, <1>6
<1>8. QED
  BY <1>7 DEF M, O, C, P

\* Every exception disputes a match, is about an orphan or about an ambiguous
\* payment; and it is open or resolved.
LEMMA CasesSplit ==
  ASSUME ReconciliationInv, NEW b
  PROVE  /\ Cardinality(With(exceptions, b, "open"))
              + Cardinality(With(exceptions, b, "resolved"))
              = Cardinality(Cases(b, Outcome)) + Cardinality(Cases(b, {"orphan"}))
                  + Cardinality(Cases(b, {"ambiguous_match"}))
<1> DEFINE A == Cases(b, Outcome)
           O == Cases(b, {"orphan"})
           M == Cases(b, {"ambiguous_match"})
           N == With(exceptions, b, "open")
           D == With(exceptions, b, "resolved")
<1>1. /\ IsFiniteSet(A) /\ IsFiniteSet(O) /\ IsFiniteSet(M)
      /\ IsFiniteSet(N) /\ IsFiniteSet(D)
  BY SelectionsFinite
<1>2. A \cap O = {} /\ (A \cup O) \cap M = {} /\ N \cap D = {}
  BY DEF Cases, With, Outcome
<1>3. \A x \in Own(exceptions, b) :
        /\ exceptions[x].status \in {"open", "resolved"}
        /\ exceptions[x].type \in Outcome \cup {"orphan", "ambiguous_match"}
  BY OwnRows, CaseStandsFor
<1>4. N \cup D = (A \cup O) \cup M
  BY <1>3 DEF With, Cases
<1> HIDE DEF A, O, M, N, D
<1>5. IsFiniteSet(A \cup O) /\ Cardinality(A \cup O) = Cardinality(A) + Cardinality(O)
  BY <1>1, <1>2, CountApart
<1>6. Cardinality((A \cup O) \cup M) = Cardinality(A \cup O) + Cardinality(M)
  BY <1>1, <1>2, <1>5, CountApart
<1>7. Cardinality(N \cup D) = Cardinality(N) + Cardinality(D)
  BY <1>1, <1>2, CountApart
<1>8. Cardinality(N) + Cardinality(D) = Cardinality(A) + Cardinality(O) + Cardinality(M)
  BY <1>4, <1>5, <1>6, <1>7
<1>9. QED
  BY <1>8 DEF A, O, M, N, D

\* Every request has a receipt.
LEMMA AllHaveReceipts ==
  ASSUME ReconciliationInv, TimelineTellsTheStatus, NEW b
  PROVE  {r \in Own(requests, b) : receipts[r] # {}} = Own(requests, b)
<1>1. ASSUME NEW r \in RequestId, requests[r] # Absent
      PROVE  receipts[r] # {}
  <2>1. \E e \in receipts[r] : EventsOf(r, "payment_request.created") = {e}
    BY <1>1 DEF TimelineTellsTheStatus, EventType
  <2>2. QED
    BY <2>1
<1>2. QED
  BY <1>1, OwnRows

\* A run has at most one reconciled row for each confirmed request.
LEMMA ReconciledAreConfirmed ==
  ASSUME ReconciliationInv, NEW b
  PROVE  /\ IsFiniteSet(ReconciledRows(b))
         /\ Cardinality(ReconciledRows(b))
              <= Cardinality(Own(runs, b)) * Cardinality(With(requests, b, "confirmed"))
<1> DEFINE S == ReconciledRows(b)
           N == Own(runs, b)
           C == With(requests, b, "confirmed")
           f == [p \in S |-> <<p[1], p[2].request>>]
<1>1. ASSUME NEW p \in S
      PROVE  /\ p = <<p[1], p[2]>> /\ p[1] \in N
             /\ \E m \in matches : Reconciles(p[2], m, b)
  <2>1. PICK n \in N : p \in {n} \X {row \in runs[n].rows : row.status = "reconciled"}
    BY DEF ReconciledRows
  <2>2. PICK row \in runs[n].rows : row.status = "reconciled" /\ p = <<n, row>>
    BY <2>1
  <2>3. n \in Made /\ runs[n].business = b
    BY OwnRows DEF Made
  <2>4. RowTrue(row, b, runs[n].period, runs[n].wallet)
    BY <2>3 DEF ReconciliationInv, RunsTrue, RunTrue
  <2>5. QED
    BY <2>2, <2>4 DEF RowTrue
<1>2. ASSUME NEW row, NEW m \in matches, Reconciles(row, m, b)
      PROVE  row.request = m.request /\ row.request \in C
  <2>1. /\ m.status = "confirmed" /\ requests[m.request].business = b
        /\ row.request = m.request
    BY <1>2 DEF Reconciles
  <2>2. requests[m.request].status = "confirmed"
    BY <2>1 DEF ReconciliationInv, StoryInv, ConfirmedIsClean
  <2>3. QED
    BY <2>1, <2>2, MatchJoins, OwnRows DEF With
<1>3. ASSUME NEW row, NEW col, NEW m \in matches, NEW n \in matches,
             Reconciles(row, m, b), Reconciles(col, n, b), row.request = col.request
      PROVE  row = col
  <2>1. m = n
    BY <1>2, <1>3 DEF ReconciliationInv, IInv, SettledOnce
  <2>2. QED
    BY <1>3, <2>1 DEF Reconciles
<1>4. \A p \in S : p[2].request \in C
  BY <1>1, <1>2
<1>5. \A p, q \in S : p[1] = q[1] /\ p[2].request = q[2].request => p = q
  <2> SUFFICES ASSUME NEW p \in S, NEW q \in S, p[1] = q[1], p[2].request = q[2].request
               PROVE  p = q
    OBVIOUS
  <2>1. p[2] = q[2]
    BY <1>1, <1>3
  <2>2. QED
    BY <1>1, <2>1
<1>6. IsFiniteSet(N) /\ IsFiniteSet(C)
  BY OwnRowsFinite, SelectionsFinite
<1> HIDE DEF S, N, C
<1>7. /\ f \in [S -> N \X C]
      /\ \A p, q \in S : f[p] = f[q] => p = q
  BY <1>1, <1>4, <1>5
<1> HIDE DEF f
<1>8. f \in Injection(S, N \X C)
  BY <1>7 DEF Injection, IsInjective
<1>9. IsFiniteSet(N \X C) /\ Cardinality(N \X C) = Cardinality(N) * Cardinality(C)
  BY <1>6, FS_Product
<1>10. IsFiniteSet(S) /\ Cardinality(S) <= Cardinality(N \X C)
  BY <1>8, <1>9, FS_Injection
<1>11. Cardinality(S) <= Cardinality(N) * Cardinality(C)
  BY <1>9, <1>10
<1>12. QED
  BY <1>10, <1>11 DEF S, N, C

-------------------------------------------------------------------------------
(* The theorem *)

\* In every state that keeps the reconciliation invariant the counters agree.
LEMMA MetricsAgree ==
  ReconciliationInv /\ TimelineTellsTheStatus => MetricsTellTheBooks
<1> SUFFICES ASSUME ReconciliationInv, TimelineTellsTheStatus, NEW b \in Business
             PROVE  LET m == Metrics(b)
                        Exceptions(S) == {x \in Own(exceptions, b) : exceptions[x].type \in S}
                        Open(S) == Cardinality({x \in Exceptions(S) :
                                                  exceptions[x].status = "open"})
                        confirmed == WithStatus(requests, b, "confirmed")
                    IN  /\ m.matched = Cardinality({n \in matches :
                                                      requests[n.request].business = b})
                        /\ m.matched = confirmed + Cardinality(Exceptions(Outcome))
                        /\ m.underpaid + m.overpaid + m.expired = Open(Outcome)
                        /\ m.orphan = Cardinality(Exceptions({"orphan"}))
                        /\ m.detected = m.matched + m.orphan
                                          + Cardinality(Exceptions({"ambiguous_match"}))
                                          + WithStatus(txns, b, "pending_finality")
                        /\ m.open + m.resolved = m.detected - confirmed
                                                   - WithStatus(txns, b, "pending_finality")
                        /\ m.receipts = m.requests
                        /\ m.reconciled <= m.runs * confirmed
  BY DEF MetricsTellTheBooks
<1>1. PICK m : m = Metrics(b)
  OBVIOUS
<1>2. /\ m.requests = Cardinality(Own(requests, b))
      /\ m.underpaid = Cardinality(With(requests, b, "underpaid"))
      /\ m.overpaid = Cardinality(With(requests, b, "overpaid"))
      /\ m.expired = Cardinality(With(requests, b, "expired"))
      /\ m.detected = Cardinality(Own(txns, b))
      /\ m.matched = Cardinality(With(txns, b, "matched_to_request"))
      /\ m.orphan = Cardinality(With(txns, b, "orphan"))
      /\ m.open = Cardinality(With(exceptions, b, "open"))
      /\ m.resolved = Cardinality(With(exceptions, b, "resolved"))
      /\ m.receipts = Cardinality({r \in Own(requests, b) : receipts[r] # {}})
      /\ m.runs = Cardinality(Own(runs, b))
      /\ m.reconciled = Cardinality(ReconciledRows(b))
  BY <1>1 DEF Metrics, WithStatus, With
<1>3. /\ m.matched = Cardinality(MatchesOf(b))
      /\ m.matched = Cardinality(With(requests, b, "confirmed"))
                       + Cardinality(Cases(b, Outcome))
  BY <1>2, MatchesPairTxns, MatchesSplit, ExactPairRequests, DisputedPairCases
<1>4. m.underpaid + m.overpaid + m.expired = Cardinality(OpenCases(b, Outcome))
  BY <1>2, DisputedSplit, DisputedPairOpenCases
<1>5. /\ m.orphan = Cardinality(Cases(b, {"orphan"}))
      /\ Cardinality(With(txns, b, "confirmed_onchain"))
           = Cardinality(Cases(b, {"ambiguous_match"}))
  BY <1>2, UnsettledPairCases
<1>6. m.detected = m.matched + m.orphan + Cardinality(Cases(b, {"ambiguous_match"}))
                     + Cardinality(With(txns, b, "pending_finality"))
  BY <1>2, <1>5, TxnsSplit
<1>7. m.open + m.resolved = Cardinality(Cases(b, Outcome)) + m.orphan
                              + Cardinality(Cases(b, {"ambiguous_match"}))
  BY <1>2, <1>5, CasesSplit
<1>8. /\ Cardinality(With(requests, b, "confirmed")) \in Nat
      /\ Cardinality(With(txns, b, "pending_finality")) \in Nat
      /\ Cardinality(Cases(b, Outcome)) \in Nat
      /\ Cardinality(Cases(b, {"ambiguous_match"})) \in Nat
      /\ Cardinality(Cases(b, {"orphan"})) \in Nat
  BY SelectionsFinite, FS_CardinalityType
<1>9. m.open + m.resolved = m.detected - Cardinality(With(requests, b, "confirmed"))
                              - Cardinality(With(txns, b, "pending_finality"))
  BY <1>3, <1>5, <1>6, <1>7, <1>8
<1>10. m.receipts = m.requests
  BY <1>2, AllHaveReceipts
<1>11. m.reconciled <= m.runs * Cardinality(With(requests, b, "confirmed"))
  BY <1>2, ReconciledAreConfirmed
<1>12. QED
  BY <1>1, <1>3, <1>4, <1>5, <1>6, <1>9, <1>10, <1>11
     DEF MatchesOf, With, WithStatus, Cases, OpenCases

\* For any number of requests, payments, exceptions and runs, and any
\* interleaving of their operations, the counters tell what the books say.
THEOREM MetricsAreTrue == ReconciliationSpec => []MetricsTellTheBooks
BY ReportsInductive, ReportsLeavePaymentsAlone, ReceiptsAreComplete, MetricsAgree, PTL
===============================================================================
