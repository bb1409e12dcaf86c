---------------------------- MODULE PointsProofs ----------------------------
(***************************************************************************)
(* Proofs about the operators of Points, for lines and points of any       *)
(* length: the metrics tell points apart, and the two readers agree on     *)
(* lines as the files should have.  Sums are folds, recursive functions on *)
(* finite sets; the library's induction rules have an operator as          *)
(* parameter, but that every set of numbers has a least one, and every set *)
(* of finite sets a minimal one, are first-order facts, and suffice.       *)
(***************************************************************************)
EXTENDS Points, FiniteSetTheorems, SequenceTheorems, TLAPS

-----------------------------------------------------------------------------
(* Induction *)


\* What holds of a set if it holds of it without any one of its elements
LEMMA SetInduction ==
    ASSUME NEW S, IsFiniteSet(S), NEW Good,
           \A T \in SUBSET S : (\A x \in T : T \ {x} \in Good) => T \in Good
    PROVE  S \in Good
<1>. DEFINE Bad == (SUBSET S) \ Good
<1>. SUFFICES ASSUME S \notin Good  PROVE FALSE
  OBVIOUS
<1>1. Bad # {} /\ Bad \subseteq FiniteSubsetsOf(S)
  BY FS_Subset DEF FiniteSubsetsOf
<1>2. PICK T \in Bad : \A U \in Bad : <<U, T>> \notin StrictSubsetOrdering(S)
  <2>. HIDE DEF Bad
  <2>1. IsWellFoundedOn(StrictSubsetOrdering(S), FiniteSubsetsOf(S))
    BY FS_StrictSubsetOrderingWellFounded
  <2>. QED BY <1>1, <2>1, WFMin
<1>3. ASSUME NEW x \in T  PROVE T \ {x} \in Good
  <2>1. T \ {x} \in SUBSET S /\ T \in SUBSET S /\ T \ {x} # T
    BY <1>2, <1>3
  <2>2. <<T \ {x}, T>> \in StrictSubsetOrdering(S)
    BY <2>1 DEF StrictSubsetOrdering
  <2>. QED BY <1>2, <2>1, <2>2
<1>. QED BY <1>2, <1>3

\* Numbers have a least one.
LEMMA Smallest ==
    ASSUME NEW Bad, Bad \subseteq Nat, Bad # {}
    PROVE  \E n \in Bad : \A m \in Bad : n <= m
<1>1. \E n \in Bad : \A m \in Bad : ~ (<<m, n>> \in OpToRel(<, Nat))
  BY NatLessThanWellFounded, WFMin, Zenon
<1>2. \A n \in Nat, m \in Nat : m < n => <<m, n>> \in OpToRel(<, Nat)
  BY Zenon DEF OpToRel
<1>3. \E n \in Bad : \A m \in Bad : ~ (m < n)
  BY <1>1, <1>2, Zenon
<1>. QED BY <1>3

\* A set with 0, and with every successor, has all numbers.
LEMMA CountInduction ==
    ASSUME NEW Good, 0 \in Good, \A n \in Nat : n \in Good => n + 1 \in Good
    PROVE  Nat \subseteq Good
<1>. DEFINE Bad == Nat \ Good
<1>. SUFFICES ASSUME Bad # {}  PROVE FALSE
  OBVIOUS
<1>1. PICK n \in Bad : \A m \in Bad : n <= m
  BY Smallest
<1>2. n - 1 \in Nat /\ n = (n - 1) + 1
  OBVIOUS
<1>. QED BY <1>1, <1>2

\* Finitely many integers have a greatest one.
LEMMA Greatest ==
    ASSUME NEW S, IsFiniteSet(S), S \subseteq Int, S # {}
    PROVE  \E x \in S : \A y \in S : x >= y
<1>. DEFINE Good == {T \in SUBSET S : T = {} \/ \E x \in T : \A y \in T : x >= y}
<1>1. ASSUME NEW T \in SUBSET S, \A x \in T : T \ {x} \in Good
      PROVE  T \in Good
  <2>1. CASE T = {}
    BY <2>1
  <2>2. ASSUME NEW x \in T  PROVE T \in Good
    <3>1. CASE T \ {x} = {}
      BY <3>1, <2>2
    <3>2. ASSUME NEW z \in T \ {x}, \A y \in T \ {x} : z >= y
          PROVE  T \in Good
      <4>1. CASE z >= x
        BY <2>2, <3>2, <4>1
      <4>2. CASE x >= z
        <5>1. \A y \in T : x >= y
          BY <2>2, <3>2, <4>2
        <5>. QED BY <2>2, <5>1
      <4>. QED BY <2>2, <3>2, <4>1, <4>2
    <3>. QED BY <1>1, <2>2, <3>1, <3>2
  <2>. QED BY <2>1, <2>2
<1>. HIDE DEF Good
<1>2. S \in Good
  BY <1>1, SetInduction
<1>. QED BY <1>2 DEF Good

-----------------------------------------------------------------------------
(* Sums *)

\* The recursive function behind SumFunction, and the element it takes next
Pick(T) == CHOOSE x \in T : TRUE

Equation(f, g, S) ==
    f = [T \in SUBSET S |-> IF T = {} THEN 0 ELSE g[Pick(T)] + f[T \ {Pick(T)}]]

Sums(g, S) == CHOOSE f : Equation(f, g, S)

\* There is a function with that equation: one that has it for all sets of up
\* to n elements is extended to those of n + 1.
LEMMA SumRecursion ==
    ASSUME NEW S, IsFiniteSet(S), NEW g
    PROVE  \E f : Equation(f, g, S)
<1>. DEFINE Step(f, T) == IF T = {} THEN 0 ELSE g[Pick(T)] + f[T \ {Pick(T)}]
            Has(f, n) == f = [T \in SUBSET S |-> IF Cardinality(T) <= n THEN Step(f, T) ELSE 0]
            Upto == {n \in Nat : \E f : Has(f, n)}
<1>0. \A T \in SUBSET S : /\ Cardinality(T) \in Nat /\ Cardinality(T) <= Cardinality(S)
                          /\ T = {} <=> Cardinality(T) = 0
                          /\ T # {} => /\ Pick(T) \in T /\ T \ {Pick(T)} \in SUBSET S
                                       /\ Cardinality(T \ {Pick(T)}) = Cardinality(T) - 1
  <2>. TAKE T \in SUBSET S
  <2>1. IsFiniteSet(T) /\ Cardinality(T) <= Cardinality(S)
    BY FS_Subset
  <2>2. Cardinality(T) \in Nat /\ (T = {} <=> Cardinality(T) = 0)
    BY <2>1, FS_CardinalityType, FS_EmptySet
  <2>3. T # {} => Pick(T) \in T
    BY DEF Pick
  <2>4. T # {} => Cardinality(T \ {Pick(T)}) = Cardinality(T) - 1
    BY <2>1, <2>3, FS_RemoveElement
  <2>. QED BY <2>1, <2>2, <2>3, <2>4
<1>1. Has([T \in SUBSET S |-> 0], 0)
  <2>1. \A f : \A T \in SUBSET S : Cardinality(T) <= 0 => Step(f, T) = 0
    <3>. TAKE f
    <3>. TAKE T \in SUBSET S
    <3>1. Cardinality(T) \in Nat
      BY <1>0
    <3>2. T = {} <=> Cardinality(T) = 0
      BY <1>0
    <3>. QED BY <3>1, <3>2
  <2>. HIDE DEF Step
  <2>. QED BY <2>1
<1>2. ASSUME NEW n \in Nat, NEW f, Has(f, n)
      PROVE  \E h : Has(h, n + 1)
  <2>. DEFINE h == [T \in SUBSET S |-> IF Cardinality(T) <= n + 1 THEN Step(f, T) ELSE 0]
  <2>1. ASSUME NEW T \in SUBSET S, Cardinality(T) <= n  PROVE h[T] = f[T]
    <3>. HIDE DEF Step
    <3>1. Cardinality(T) <= n + 1
      <4>1. Cardinality(T) \in Nat
        BY <1>0
      <4>. QED BY <4>1, <2>1
    <3>2. h[T] = Step(f, T)
      BY <3>1
    <3>3. f[T] = IF Cardinality(T) <= n THEN Step(f, T) ELSE 0
      BY <1>2
    <3>. QED BY <2>1, <3>2, <3>3
  <2>2. ASSUME NEW T \in SUBSET S, Cardinality(T) <= n + 1  PROVE Step(h, T) = Step(f, T)
    <3>. HIDE DEF h
    <3>. QED BY <1>0, <2>1, <2>2
  <2>3. Has(h, n + 1)
    <3>. HIDE DEF Step
    <3>. QED BY <2>2
  <2>. QED BY <2>3
<1>. HIDE DEF Step
<1>3. Nat \subseteq Upto
  <2>. HIDE DEF Has
  <2>1. 0 \in Upto /\ \A n \in Nat : n \in Upto => n + 1 \in Upto
    BY <1>1, <1>2
  <2>. HIDE DEF Upto
  <2>. QED BY <2>1, CountInduction
<1>4. PICK f : Has(f, Cardinality(S))
  BY <1>0, <1>3
<1>5. f = [T \in SUBSET S |-> Step(f, T)]
  BY <1>0, <1>4
<1>. QED BY <1>5 DEF Step, Equation

\* The equation, and what it says of one set
LEMMA SumEquation ==
    ASSUME NEW S, IsFiniteSet(S), NEW g
    PROVE  /\ Sums(g, S)[{}] = 0
           /\ \A T \in SUBSET S : T # {} =>
                /\ Pick(T) \in T /\ T \ {Pick(T)} \in SUBSET S
                /\ Sums(g, S)[T] = g[Pick(T)] + Sums(g, S)[T \ {Pick(T)}]
<1>. DEFINE F == Sums(g, S)
<1>1. F = [T \in SUBSET S |-> IF T = {} THEN 0 ELSE g[Pick(T)] + F[T \ {Pick(T)}]]
  <2>1. \E f : Equation(f, g, S)
    BY SumRecursion
  <2>2. F = CHOOSE f : Equation(f, g, S)
    BY DEF Sums
  <2>. HIDE DEF F
  <2>3. Equation(F, g, S)
    BY <2>1, <2>2
  <2>. QED BY <2>3 DEF Equation
<1>2. \A T \in SUBSET S : T # {} => Pick(T) \in T /\ T \ {Pick(T)} \in SUBSET S
  BY DEF Pick
<1>. HIDE DEF F
<1>3. {} \in SUBSET S
  OBVIOUS
<1>4. F[{}] = 0
  BY <1>1, <1>3
<1>5. \A T \in SUBSET S : T # {} => F[T] = g[Pick(T)] + F[T \ {Pick(T)}]
  BY <1>1
<1>. QED BY <1>2, <1>4, <1>5 DEF F

\* SumFunction adds up the values of a function.
LEMMA SumFunctionIsSums ==
    ASSUME NEW g  PROVE SumFunction(g) = Sums(g, DOMAIN g)[DOMAIN g]
BY DEF SumFunction, SumFunctionOnSet, FoldFunctionOnSet, MapThenFoldSet, Sums, Equation, Pick

\* So does Sum.
LEMMA SumIsSums ==
    ASSUME NEW g  PROVE Sum(g) = Sums(g, DOMAIN g)[DOMAIN g]
BY DEF Sum, FoldSeq, FoldFunction, FoldFunctionOnSet, MapThenFoldSet, Sums, Equation, Pick

\* Sums of integers are integers.
LEMMA SumsAreIntegers ==
    ASSUME NEW S, IsFiniteSet(S), NEW g, \A x \in S : g[x] \in Int
    PROVE  \A T \in SUBSET S : Sums(g, S)[T] \in Int
<1>. TAKE U \in SUBSET S
<1>. DEFINE F == Sums(g, S)
            Good == {T \in SUBSET S : F[T] \in Int}
<1>1. ASSUME NEW T \in SUBSET U, \A x \in T : T \ {x} \in Good
      PROVE  T \in Good
  <2>. HIDE DEF F
  <2>1. CASE T = {}
    BY <2>1, SumEquation DEF F
  <2>2. CASE T # {}
    <3>1. Pick(T) \in T /\ F[T] = g[Pick(T)] + F[T \ {Pick(T)}] /\ T \in SUBSET S
      BY <2>2, SumEquation DEF F
    <3>2. g[Pick(T)] \in Int /\ F[T \ {Pick(T)}] \in Int
      BY <1>1, <3>1
    <3>. QED BY <3>1, <3>2
  <2>. QED BY <2>1, <2>2
<1>2. IsFiniteSet(U)
  BY FS_Subset
<1>. HIDE DEF Good
<1>3. U \in Good
  BY <1>1, <1>2, SetInduction
<1>. QED BY <1>3 DEF Good

\* A sum of numbers that are not negative is 0 only if they all are.
LEMMA SumsOfNaturals ==
    ASSUME NEW S, IsFiniteSet(S), NEW g, \A x \in S : g[x] \in Nat
    PROVE  /\ Sums(g, S)[S] \in Nat
           /\ Sums(g, S)[S] = 0 <=> \A x \in S : g[x] = 0
<1>. DEFINE F == Sums(g, S)
            Good == {T \in SUBSET S : F[T] \in Nat /\ (F[T] = 0 <=> \A x \in T : g[x] = 0)}
<1>1. ASSUME NEW T \in SUBSET S, \A x \in T : T \ {x} \in Good
      PROVE  T \in Good
  <2>. HIDE DEF F
  <2>1. CASE T = {}
    BY <2>1, SumEquation DEF F
  <2>2. CASE T # {}
    <3>1. Pick(T) \in T /\ F[T] = g[Pick(T)] + F[T \ {Pick(T)}]
      BY <2>2, SumEquation DEF F
    <3>2. PICK x \in T : x = Pick(T)
      BY <3>1
    <3>3. /\ g[x] \in Nat /\ F[T \ {x}] \in Nat /\ F[T] = g[x] + F[T \ {x}]
          /\ F[T \ {x}] = 0 <=> \A y \in T \ {x} : g[y] = 0
      BY <1>1, <3>1, <3>2
    <3>4. F[T] \in Nat /\ (F[T] = 0 <=> g[x] = 0 /\ F[T \ {x}] = 0)
      BY <3>3
    <3>5. (\A y \in T : g[y] = 0) <=> g[x] = 0 /\ \A y \in T \ {x} : g[y] = 0
      BY <3>2
    <3>. QED BY <3>3, <3>4, <3>5
  <2>. QED BY <2>1, <2>2
<1>. HIDE DEF Good
<1>2. S \in Good
  BY <1>1, SetInduction
<1>. QED BY <1>2 DEF Good

\* The points of one value each, for all values of a set, are the points that
\* have one of these values.
LEMMA CountsAddUp ==
    ASSUME NEW I, IsFiniteSet(I), NEW S, IsFiniteSet(S), NEW v, NEW g,
           \A d \in S : g[d] = Cardinality({i \in I : v[i] = d})
    PROVE  Sums(g, S)[S] = Cardinality({i \in I : v[i] \in S})
<1>. DEFINE F == Sums(g, S)
            In(T) == {i \in I : v[i] \in T}
            Good == {T \in SUBSET S : F[T] = Cardinality(In(T))}
<1>1. ASSUME NEW T \in SUBSET S, \A x \in T : T \ {x} \in Good
      PROVE  T \in Good
  <2>. HIDE DEF F
  <2>1. CASE T = {}
    <3>1. In(T) = {} /\ F[T] = 0
      BY <2>1, SumEquation DEF F
    <3>. QED BY <3>1, FS_EmptySet
  <2>2. CASE T # {}
    <3>1. PICK x \in T : F[T] = g[x] + F[T \ {x}]
      BY <2>2, SumEquation DEF F
    <3>2. F[T \ {x}] = Cardinality(In(T \ {x})) /\ g[x] = Cardinality(In({x}))
      BY <1>1, <3>1
    <3>3. /\ In(T) = In(T \ {x}) \cup In({x}) /\ In(T \ {x}) \cap In({x}) = {}
          /\ In(T \ {x}) \in SUBSET I /\ In({x}) \in SUBSET I
      BY <3>1
    <3>. HIDE DEF In
    <3>4. /\ IsFiniteSet(In(T \ {x})) /\ IsFiniteSet(In({x}))
          /\ Cardinality(In(T \ {x})) \in Nat /\ Cardinality(In({x})) \in Nat
      BY <3>3, FS_Subset, FS_CardinalityType
    <3>5. Cardinality(In(T)) = Cardinality(In(T \ {x})) + Cardinality(In({x}))
      <4>. DEFINE A == In(T \ {x})
                  B == In({x})
      <4>1. Cardinality(A \cup B) = Cardinality(A) + Cardinality(B) - Cardinality(A \cap B)
        BY <3>4, FS_Union
      <4>2. Cardinality(A \cap B) = 0
        BY <3>3, FS_EmptySet
      <4>3. Cardinality(In(T)) = Cardinality(A \cup B)
        BY <3>3, Zenon
      <4>. HIDE DEF A, B
      <4>. QED BY <3>4, <4>1, <4>2, <4>3 DEF A, B
    <3>. QED BY <3>1, <3>2, <3>4, <3>5
  <2>. QED BY <2>1, <2>2
<1>. HIDE DEF Good
<1>2. S \in Good
  BY <1>1, SetInduction
<1>. QED BY <1>2 DEF Good

\* What rounding down takes from a sum of percentages is less than one each.
LEMMA QuotientsAddUp ==
    ASSUME NEW S, IsFiniteSet(S), NEW g, \A x \in S : g[x] \in Nat,
           NEW t \in Nat \ {0}, NEW q, \A x \in S : q[x] = (100 * g[x]) \div t
    PROVE  /\ Sums(g, S)[S] \in Int /\ Sums(q, S)[S] \in Int
           /\ t * Sums(q, S)[S] <= 100 * Sums(g, S)[S]
           /\ 100 * Sums(g, S)[S] <= t * Sums(q, S)[S] + (t - 1) * Cardinality(S)
<1>. DEFINE F == Sums(g, S)
            Q == Sums(q, S)
            Good == {T \in SUBSET S :
                       /\ F[T] \in Int /\ Q[T] \in Int
                       /\ t * Q[T] <= 100 * F[T]
                       /\ 100 * F[T] <= t * Q[T] + (t - 1) * Cardinality(T)}
<1>1. ASSUME NEW a \in Nat  PROVE LET b == (100 * a) \div t
                                  IN  b \in Int /\ t * b <= 100 * a /\ 100 * a <= t * b + (t - 1)
  <2>1. PICK x, b : x = 100 * a /\ b = x \div t
    OBVIOUS
  <2>2. x \in Nat
    BY <2>1
  <2>3. b \in Int
    BY <2>1, <2>2
  <2>4. t * b <= x
    BY <2>1, <2>2, <2>3
  <2>5. x < t * b + t
    BY <2>1, <2>2, <2>3
  <2>6. t * b \in Int
    BY <2>3
  <2>. QED BY <2>1, <2>2, <2>3, <2>4, <2>5, <2>6
<1>2. ASSUME NEW T \in SUBSET S, \A x \in T : T \ {x} \in Good
      PROVE  T \in Good
  <2>. HIDE DEF F, Q
  <2>1. CASE T = {}
    <3>1. F[T] = 0 /\ Q[T] = 0 /\ Cardinality(T) = 0
      BY <2>1, SumEquation, FS_EmptySet DEF F, Q
    <3>. QED BY <3>1
  <2>2. CASE T # {}
    <3>1. PICK x \in T : F[T] = g[x] + F[T \ {x}] /\ Q[T] = q[x] + Q[T \ {x}]
      <4>1. Pick(T) \in T /\ F[T] = g[Pick(T)] + F[T \ {Pick(T)}]
        BY <2>2, SumEquation DEF F
      <4>2. Q[T] = q[Pick(T)] + Q[T \ {Pick(T)}]
        <5>1. Sums(q, S)[T] = q[Pick(T)] + Sums(q, S)[T \ {Pick(T)}]
          BY ONLY IsFiniteSet(S), T \in SUBSET S, <2>2, SumEquation
        <5>. QED BY <5>1 DEF Q
      <4>. QED BY <4>1, <4>2
    <3>2. PICK a, b, f, h, c : /\ a = g[x] /\ b = q[x] /\ f = F[T \ {x}] /\ h = Q[T \ {x}]
                               /\ c = Cardinality(T \ {x})
      OBVIOUS
    <3>3. a \in Nat /\ b \in Int /\ t * b <= 100 * a /\ 100 * a <= t * b + (t - 1)
      BY <1>1, <3>1, <3>2
    <3>4. /\ f \in Int /\ h \in Int /\ t * h <= 100 * f
          /\ 100 * f <= t * h + (t - 1) * c
      BY <1>2, <3>1, <3>2
    <3>5. c \in Nat /\ Cardinality(T) = c + 1
      <4>1. IsFiniteSet(T)
        BY FS_Subset
      <4>2. IsFiniteSet(T \ {x}) /\ Cardinality(T \ {x}) = Cardinality(T) - 1
        BY <3>1, <4>1, FS_RemoveElement
      <4>3. Cardinality(T) \in Nat /\ Cardinality(T \ {x}) \in Nat
        BY <4>1, <4>2, FS_CardinalityType
      <4>. QED BY <3>2, <4>2, <4>3
    <3>6. F[T] = a + f /\ Q[T] = b + h
      BY <3>1, <3>2
    <3>7. a + f \in Int /\ b + h \in Int
      BY <3>3, <3>4
    <3>8. t * (b + h) = t * b + t * h /\ (t - 1) * (c + 1) = (t - 1) * c + (t - 1)
      BY <3>3, <3>4, <3>5
    <3>9. t * (b + h) <= 100 * (a + f)
      BY <3>3, <3>4, <3>8
    <3>10. 100 * (a + f) <= t * (b + h) + (t - 1) * (c + 1)
      <4>1. t * b \in Int /\ t * h \in Int /\ (t - 1) * c \in Int
        BY <3>3, <3>4, <3>5
      <4>. QED BY <3>3, <3>4, <3>8, <4>1
    <3>. QED BY <3>5, <3>6, <3>7, <3>9, <3>10
  <2>. QED BY <2>1, <2>2
<1>. HIDE DEF Good
<1>3. S \in Good
  BY <1>2, SetInduction
<1>. QED BY <1>3 DEF Good

-----------------------------------------------------------------------------
(* Distances *)

\* Every metric is a number, and 0 only between equal points.
THEOREM MetricsSeparate ==
    ASSUME NEW metric \in Metrics, NEW p \in Seq(Int), NEW q \in Seq(Int), Len(p) = Len(q)
    PROVE  /\ Distance(metric, p, q) \in Nat
           /\ Distance(metric, p, q) = 0 <=> p = q
<1>. DEFINE D == DOMAIN p
            diff == [j \in D |-> p[j] - q[j]]
            Squares == [j \in D |-> diff[j] * diff[j]]
            Moduli == [j \in D |-> Abs(diff[j])]
<1>1. /\ D = 1..Len(p) /\ Len(p) \in Nat /\ IsFiniteSet(D)
      /\ \A j \in D : p[j] \in Int /\ q[j] \in Int /\ diff[j] \in Int
  <2>1. D = 1..Len(p) /\ Len(p) \in Nat
    BY LenProperties
  <2>2. IsFiniteSet(D)
    BY <2>1, FS_Interval
  <2>3. \A j \in 1..Len(p) : p[j] \in Int /\ q[j] \in Int
    BY ElementOfSeq
  <2>. QED BY <2>1, <2>2, <2>3
<1>2. p = q <=> \A j \in D : diff[j] = 0
  <2>1. (\A j \in 1..Len(p) : p[j] = q[j]) => p = q
    BY SeqEqual
  <2>2. \A j \in D : diff[j] = 0 <=> p[j] = q[j]
    BY <1>1
  <2>. HIDE DEF diff
  <2>. QED BY <1>1, <2>1, <2>2
<1>3. \A x \in Int : /\ x * x \in Nat /\ (x * x = 0 <=> x = 0)
                     /\ Abs(x) \in Nat /\ (Abs(x) = 0 <=> x = 0)
  BY DEF Abs
<1>4. CASE metric = "EUC"
  <2>1. \A j \in D : Squares[j] \in Nat /\ (Squares[j] = 0 <=> diff[j] = 0)
    BY <1>1, <1>3
  <2>. HIDE DEF diff
  <2>2. Distance(metric, p, q) = Sum(Squares)
    BY <1>4 DEF Distance, diff
  <2>3. DOMAIN Squares = D
    OBVIOUS
  <2>. HIDE DEF Squares
  <2>4. Sum(Squares) = Sums(Squares, D)[D]
    BY <2>3, SumIsSums
  <2>5. Sum(Squares) \in Nat /\ (Sum(Squares) = 0 <=> \A j \in D : Squares[j] = 0)
    BY <1>1, <2>1, <2>4, SumsOfNaturals
  <2>. QED BY <1>2, <2>1, <2>2, <2>5
<1>5. CASE metric = "MAN"
  <2>1. \A j \in D : Moduli[j] \in Nat /\ (Moduli[j] = 0 <=> diff[j] = 0)
    BY <1>1, <1>3
  <2>. HIDE DEF diff
  <2>2. Distance(metric, p, q) = Sum(Moduli)
    BY <1>5 DEF Distance, diff
  <2>3. DOMAIN Moduli = D
    OBVIOUS
  <2>. HIDE DEF Moduli
  <2>4. Sum(Moduli) = Sums(Moduli, D)[D]
    BY <2>3, SumIsSums
  <2>5. Sum(Moduli) \in Nat /\ (Sum(Moduli) = 0 <=> \A j \in D : Moduli[j] = 0)
    BY <1>1, <2>1, <2>4, SumsOfNaturals
  <2>. QED BY <1>2, <2>1, <2>2, <2>5
<1>6. CASE metric = "CHE"
  <2>. DEFINE M == {Moduli[j] : j \in D}
              All == M \cup {0}
  <2>1. \A j \in D : Moduli[j] \in Nat /\ (Moduli[j] = 0 <=> diff[j] = 0)
    BY <1>1, <1>3
  <2>2. M = {Abs(diff[j]) : j \in D}
    OBVIOUS
  <2>. HIDE DEF diff
  <2>3. Distance(metric, p, q) = Max(All)
    BY <1>6, <2>2 DEF Distance, diff
  <2>4. Moduli \in Surjection(D, M)
    BY DEF Surjection
  <2>. HIDE DEF Moduli
  <2>5. IsFiniteSet(M)
    BY <1>1, <2>4, FS_Surjection
  <2>6. IsFiniteSet(All) /\ All \subseteq Int /\ 0 \in All
    <3>1. IsFiniteSet(M \cup {0})
      BY <2>5, FS_AddElement
    <3>. QED BY <2>1, <3>1
  <2>7. Max(All) \in All /\ \A y \in All : Max(All) >= y
    <3>. HIDE DEF All
    <3>1. \E x \in All : \A y \in All : x >= y
      BY <2>6, Greatest
    <3>. QED BY <3>1 DEF Max
  <2>8. Max(All) \in Nat
    BY <2>1, <2>7
  <2>9. Max(All) = 0 <=> \A j \in D : Moduli[j] = 0
    <3>1. Max(All) = 0 => \A j \in D : Moduli[j] <= 0
      BY <2>7
    <3>2. (\A j \in D : Moduli[j] = 0) => All = {0}
      OBVIOUS
    <3>. HIDE DEF All
    <3>. QED BY <2>1, <2>7, <3>1, <3>2
  <2>. QED BY <1>2, <2>1, <2>3, <2>8, <2>9
<1>. QED BY <1>4, <1>5, <1>6 DEF Metrics

-----------------------------------------------------------------------------
(* Readers *)

\* All but the last element
LEMMA FrontProperties ==
    ASSUME NEW S, NEW s \in Seq(S), s # <<>>
    PROVE  /\ Len(s) \in Nat \ {0} /\ Last(s) \in S /\ Head(s) = s[1] /\ s[1] \in S
           /\ Front(s) \in Seq(S) /\ Len(Front(s)) = Len(s) - 1
           /\ \A j \in 1..(Len(s) - 1) : Front(s)[j] = s[j]
<1>1. Len(s) \in Nat \ {0} /\ Head(s) = s[1]
  BY EmptySeq
<1>2. Last(s) \in S /\ s[1] \in S
  BY <1>1, ElementOfSeq DEF Last
<1>3. \A j \in 1..(Len(s) - 1) : s[j] \in S
  BY <1>1, ElementOfSeq
<1>4. /\ Front(s) \in Seq(S)
      /\ Len(Front(s)) = IF 1 <= Len(s) - 1 THEN Len(s) - 1 - 1 + 1 ELSE 0
      /\ \A j \in 1..(Len(s) - 1 - 1 + 1) : Front(s)[j] = s[1 + j - 1]
  BY <1>1, <1>3, SubSeqProperties DEF Front
<1>5. Len(Front(s)) = Len(s) - 1
  <2>1. PICK n \in Nat \ {0} : n = Len(s)
    BY <1>1
  <2>2. Len(Front(s)) = IF 1 <= n - 1 THEN n - 1 - 1 + 1 ELSE 0
    BY <1>4, <2>1
  <2>. QED BY <2>1, <2>2
<1>6. \A j \in 1..(Len(s) - 1) : Front(s)[j] = s[j]
  BY <1>1, <1>4
<1>. QED BY <1>1, <1>2, <1>4, <1>5, <1>6

\* A line as get_point takes it apart, put together again
LEMMA FieldsOfLine ==
    ASSUME NEW S, NEW s \in Seq(S), s # <<>>
    PROVE  /\ Append(<<Head(s)>> \o SubSeq(s, 2, Len(s) - 1), Last(s)) \in Seq(S)
           /\ Len(s) >= 2 => Append(<<Head(s)>> \o SubSeq(s, 2, Len(s) - 1), Last(s)) = s
<1>. DEFINE first == <<Head(s)>>
            middle == SubSeq(s, 2, Len(s) - 1)
            before == first \o middle
            all == Append(before, Last(s))
<1>1. Len(s) \in Nat \ {0} /\ Last(s) \in S /\ Head(s) = s[1] /\ s[1] \in S
  BY FrontProperties
<1>2. first \in Seq(S) /\ Len(first) = 1 /\ first[1] = s[1]
  BY <1>1
<1>3. \A j \in 2..(Len(s) - 1) : s[j] \in S
  BY <1>1, ElementOfSeq
<1>4. /\ middle \in Seq(S)
      /\ Len(middle) = IF 2 <= Len(s) - 1 THEN Len(s) - 1 - 2 + 1 ELSE 0
      /\ \A j \in 1..(Len(s) - 1 - 2 + 1) : middle[j] = s[2 + j - 1]
  BY <1>1, <1>3, SubSeqProperties
<1>. HIDE DEF first, middle
<1>5. /\ before \in Seq(S) /\ Len(before) = 1 + Len(middle)
      /\ \A j \in 1..(1 + Len(middle)) :
            before[j] = IF j <= 1 THEN first[j] ELSE middle[j - 1]
  <2>1. /\ before \in Seq(S) /\ Len(before) = Len(first) + Len(middle)
        /\ \A j \in 1..(Len(first) + Len(middle)) :
              before[j] = IF j <= Len(first) THEN first[j] ELSE middle[j - Len(first)]
    BY <1>2, <1>4, ConcatProperties
  <2>. QED BY <1>2, <2>1
<1>. HIDE DEF before
<1>6. /\ all \in Seq(S) /\ Len(all) = Len(before) + 1 /\ all[Len(before) + 1] = Last(s)
      /\ \A j \in 1..Len(before) : all[j] = before[j]
  BY <1>1, <1>5, AppendProperties
<1>. HIDE DEF all
<1>7. ASSUME Len(s) >= 2  PROVE all = s
  <2>1. Len(middle) = Len(s) - 2 /\ Len(before) = Len(s) - 1 /\ Len(all) = Len(s)
    <3>1. Len(middle) = Len(s) - 2
      <4>1. PICK n \in Nat \ {0} : n = Len(s)
        BY <1>1
      <4>2. Len(middle) = IF 2 <= n - 1 THEN n - 1 - 2 + 1 ELSE 0
        BY <1>4, <4>1
      <4>. QED BY <1>7, <4>1, <4>2
    <3>2. Len(before) = Len(s) - 1
      BY <1>1, <1>5, <3>1
    <3>. QED BY <1>1, <1>6, <3>1, <3>2
  <2>2. \A j \in 1..Len(s) : all[j] = s[j]
    <3>. TAKE j \in 1..Len(s)
    <3>1. CASE j = Len(s)
      BY <1>1, <1>6, <2>1, <3>1 DEF Last
    <3>2. CASE j = 1 /\ j < Len(s)
      BY <1>1, <1>2, <1>5, <1>6, <2>1, <3>2
    <3>3. CASE j > 1 /\ j < Len(s)
      <4>1. j \in 1..Len(before) /\ j - 1 \in 1..Len(middle)
        BY <1>1, <2>1, <3>3
      <4>2. all[j] = middle[j - 1]
        BY <1>5, <1>6, <2>1, <3>3, <4>1
      <4>3. middle[j - 1] = s[2 + (j - 1) - 1]
        BY <1>1, <1>4, <3>3, <4>1
      <4>. QED BY <4>2, <4>3
    <3>. QED BY <1>1, <3>1, <3>2, <3>3
  <2>. QED BY <1>6, <2>1, <2>2, SeqEqual
<1>. QED BY <1>6, <1>7 DEF all, before, first, middle

\* Fields that are all converted are coordinates.
LEMMA ConvertedFields ==
    ASSUME NEW s \in Seq(Texts), ToSet(s) \subseteq Numbers
    PROVE  s \in Seq(Numbers)
<1>1. Len(s) \in Nat /\ DOMAIN s = 1..Len(s) /\ s = [j \in 1..Len(s) |-> s[j]]
  BY LenProperties
<1>2. \A j \in 1..Len(s) : s[j] \in Numbers
  BY <1>1 DEF ToSet
<1>. QED BY <1>1, <1>2, SeqDef

\* What read_point makes of a training line, if no field throws
LEMMA ReadPointReturns ==
    ASSUME NEW line \in Seq(Texts), line # <<>>
    PROVE  LET p == ReadPoint(line, TRUE) IN
           /\ ~p.thrown => /\ p.data \in Seq(Numbers) /\ p.class \in Texts
                           /\ p.class = IF Len(line) = 1 THEN Empty ELSE Last(line)
<1>. DEFINE last == IF Len(line) = 1 THEN Empty ELSE Last(line)
            fields == Front(Found(line))
<1>1. Front(line) \in Seq(Texts) /\ last \in Texts
  BY FrontProperties DEF Texts
<1>2. Found(line) \in Seq(Texts)
  BY <1>1 DEF Found
<1>3. fields \in Seq(Texts)
  <2>1. CASE Found(line) = <<>>
    <3>1. fields = <<>>
      BY <2>1, SubSeqEmpty, EmptySeq DEF Front
    <3>. QED BY <3>1, EmptySeq
  <2>2. CASE Found(line) # <<>>
    BY <1>2, <2>2, FrontProperties
  <2>. QED BY <2>1, <2>2
<1>. HIDE DEF fields
<1>0. PICK p : p = ReadPoint(line, TRUE)
  OBVIOUS
<1>4. p = PointOf(fields, last)
  BY <1>0 DEF ReadPoint, fields
<1>5. CASE ToSet(fields) \subseteq Numbers
  <2>1. p = [thrown |-> FALSE, data |-> fields, class |-> last]
    BY <1>4, <1>5 DEF PointOf
  <2>2. /\ ~p.thrown /\ p.data = fields
        /\ p.class = last
    BY <2>1
  <2>3. fields \in Seq(Numbers)
    BY <1>3, <1>5, ConvertedFields
  <2>. QED BY <1>0, <1>1, <2>2, <2>3
<1>6. CASE ~(ToSet(fields) \subseteq Numbers)
  <2>1. p = [thrown |-> TRUE]
    BY <1>4, <1>6 DEF PointOf, Throws
  <2>2. p.thrown
    BY <2>1
  <2>. QED BY <1>0, <2>2
<1>. QED BY <1>0, <1>5, <1>6

\* What get_point makes of a test line, if no field throws
LEMMA GetPointReturns ==
    ASSUME NEW line \in Seq(Texts), line # <<>>
    PROVE  LET p == GetPoint(line, FALSE) IN
           /\ ~p.thrown => p.data \in Seq(Numbers) /\ (Len(line) >= 2 => p.data = line)
           /\ Len(line) >= 2 /\ ToSet(line) \subseteq Numbers => ~p.thrown
<1>. DEFINE fields == Append(<<Head(line)>> \o SubSeq(line, 2, Len(line) - 1), Last(line))
<1>1. fields \in Seq(Texts) /\ (Len(line) >= 2 => fields = line)
  BY FieldsOfLine
<1>. HIDE DEF fields
<1>0. PICK p : p = GetPoint(line, FALSE)
  OBVIOUS
<1>2. p = PointOf(fields, Empty)
  BY <1>0 DEF GetPoint, fields
<1>3. CASE ToSet(fields) \subseteq Numbers
  <2>1. p = [thrown |-> FALSE, data |-> fields, class |-> Empty]
    BY <1>2, <1>3 DEF PointOf
  <2>2. ~p.thrown /\ p.data = fields
    BY <2>1
  <2>3. fields \in Seq(Numbers)
    BY <1>1, <1>3, ConvertedFields
  <2>. QED BY <1>0, <1>1, <2>2, <2>3
<1>4. CASE ~(ToSet(fields) \subseteq Numbers)
  <2>1. p = [thrown |-> TRUE]
    BY <1>2, <1>4 DEF PointOf, Throws
  <2>2. p.thrown
    BY <2>1
  <2>. QED BY <1>0, <1>1, <1>4, <2>2
<1>. QED BY <1>0, <1>3, <1>4

\* A line with two coordinates or more and a class is read by read_point as
\* what get_point makes of it without the class: the two functions, which
\* look for commas in different ways, agree on well-formed files.
THEOREM ReadersAgree ==
    ASSUME NEW line \in Seq(Texts), Len(line) >= 3,
           ToSet(Front(line)) \subseteq Numbers, Last(line) # Empty
    PROVE  LET r == ReadPoint(line, TRUE)
               g == GetPoint(Front(line), FALSE)
           IN  /\ ~r.thrown /\ r.data = Front(line) /\ r.class = Last(line)
               /\ ~g.thrown /\ g.data = Front(line)
<1>7. PICK n \in Nat : n = Len(line)
  BY LenProperties
<1>8. Len(line) # 1
  BY <1>7
<1>1. line # <<>> /\ Len(line) \in Nat
  BY LenProperties, EmptySeq
<1>2. Front(line) \in Seq(Texts) /\ Len(Front(line)) = Len(line) - 1
  BY <1>1, FrontProperties
<1>0. PICK r : r = ReadPoint(line, TRUE)
  OBVIOUS
<1>3. Front(line) # <<>> /\ Len(Front(line)) >= 2
  BY <1>1, <1>2, EmptySeq
<1>4. r = [thrown |-> FALSE, data |-> Front(line), class |-> Last(line)]
  <2>1. Found(line) = line /\ Len(line) # 1
    <3>1. Found(line) = line
      BY DEF Found
    <3>2. Len(line) # 1
      BY <1>8
    <3>. QED BY <3>1, <3>2
  <2>. QED BY <1>0, <2>1 DEF ReadPoint, PointOf
<1>5. LET g == GetPoint(Front(line), FALSE) IN ~g.thrown /\ g.data = Front(line)
  BY <1>2, <1>3, GetPointReturns
<1>6. ~r.thrown /\ r.data = Front(line) /\ r.class = Last(line)
  BY <1>4
<1>. QED BY <1>0, <1>5, <1>6
=============================================================================
