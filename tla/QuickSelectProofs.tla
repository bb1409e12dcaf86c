------------------------- MODULE QuickSelectProofs -------------------------
(***************************************************************************)
(* Proofs about QuickSelect for data sets of any size, any K, any distances*)
(* and any choice of pivots: the bounds of the search stay sound, no point *)
(* is duplicated or lost, and a call with K at most the number of points   *)
(* never divides by zero; if all distances are numbers, it returns K       *)
(* nearest ones.  The first three are inductive without a word about order,*)
(* so that they hold with NaN as well; the last needs the order of what    *)
(* has been partitioned.                                                   *)
(***************************************************************************)
EXTENDS QuickSelect, FiniteSetTheorems, TLAPS

-----------------------------------------------------------------------------
(* The inductive invariant *)

\* What holds for any distances.
Base == TypeOK /\ EachPointOnce /\ KthInside

\* What was left behind on the left is nearest, on the right farthest.
Below == \A a \in 0..(l - 1), b \in l..(n - 1) : distance[vec[a]] <= distance[vec[b]]
Above == \A a \in 0..h, b \in (h + 1)..(n - 1) : distance[vec[a]] <= distance[vec[b]]

\* The loop invariant of partition.
Scanned ==
    pc = "scan" =>
        /\ vec[h] = pivot
        /\ \A j \in l..(x - 1) : distance[vec[j]] < distance[pivot]
        /\ \A j \in x..(i - 1) : distance[pivot] <= distance[vec[j]]

\* What partition returns: the pivot stands at x between the two parts.
Partitioned ==
    pc = "decide" =>
        /\ \A j \in l..(x - 1) : distance[vec[j]] <= distance[vec[x]]
        /\ \A j \in (x + 1)..h : distance[vec[x]] <= distance[vec[j]]

Order ==
    /\ Below
    /\ Above
    /\ Scanned
    /\ Partitioned
    /\ FirstKAreNearest

IInv == Base /\ (Numeric => Order)

-----------------------------------------------------------------------------
\* The distance of every element is an integer, unless one is NaN.
LEMMA DistanceIsInt ==
    ASSUME TypeOK, Numeric
    PROVE  \A p \in Domain : distance[p] \in Int
<1>. SUFFICES ASSUME NEW p \in Domain  PROVE distance[p] \in Int
  OBVIOUS
<1>1. distance[p] \in Distances
  BY DEF TypeOK
<1>2. distance[p] # NaN
  BY DEF Numeric
<1>. QED BY <1>1, <1>2, InputAssumption

\* The bounds are integers inside the vector.
LEMMA BoundsInside ==
    ASSUME TypeOK
    PROVE  /\ n \in Nat /\ k \in Nat \ {0} /\ l \in Nat /\ h \in Int
           /\ l <= h + 1 /\ h <= n - 1 /\ l <= n
           /\ \A j \in l..h : j \in Domain
BY InputAssumption DEF TypeOK, Domain

\* What an exchange of two elements of the searched part does.
LEMMA SwapInside ==
    ASSUME TypeOK, EachPointOnce,
           NEW p \in l..h, NEW q \in l..h,
           vec' = Swapped(p, q), UNCHANGED <<n, k, distance, l, h>>
    PROVE  /\ p \in Domain /\ q \in Domain
           /\ vec' \in [Domain -> Domain]
           /\ EachPointOnce'
           /\ \A j \in Domain : vec'[j] = IF j = q THEN vec[p]
                                          ELSE IF j = p THEN vec[q] ELSE vec[j]
<1>1. p \in Domain /\ q \in Domain /\ vec \in [Domain -> Domain]
  BY BoundsInside DEF TypeOK
<1>2. \A j \in Domain : vec'[j] = IF j = q THEN vec[p]
                                  ELSE IF j = p THEN vec[q] ELSE vec[j]
  BY <1>1 DEF Swapped
<1>3. vec' \in [Domain -> Domain]
  BY <1>1 DEF Swapped
<1>4. EachPointOnce'
  BY <1>1, <1>2 DEF EachPointOnce, Domain
<1>. QED BY <1>1, <1>2, <1>3, <1>4

\* It keeps that part between what was left behind on either side.
LEMMA SwapKeepsOrder ==
    ASSUME TypeOK, EachPointOnce, Below, Above,
           NEW p \in l..h, NEW q \in l..h,
           vec' = Swapped(p, q), UNCHANGED <<n, k, distance, l, h>>
    PROVE  Below' /\ Above'
<1>1. /\ n \in Nat /\ l \in Nat /\ h \in Int /\ h <= n - 1
      /\ p \in Int /\ q \in Int /\ l <= p /\ p <= h /\ l <= q /\ q <= h
  BY BoundsInside
<1>2. \A j \in Domain : vec'[j] = IF j = q THEN vec[p]
                                  ELSE IF j = p THEN vec[q] ELSE vec[j]
  BY SwapInside
<1>6. Below'
  <2>. SUFFICES ASSUME NEW a \in 0..(l - 1), NEW b \in l..(n - 1)
                PROVE  distance[vec'[a]] <= distance[vec'[b]]
    BY DEF Below
  <2>1. a \in Domain /\ b \in Domain /\ vec'[a] = vec[a]
    BY <1>1, <1>2 DEF Domain
  <2>2. \E c \in l..(n - 1) : vec'[b] = vec[c]
    BY <1>1, <1>2, <2>1
  <2>. QED BY <2>1, <2>2 DEF Below
<1>7. Above'
  <2>. SUFFICES ASSUME NEW a \in 0..h, NEW b \in (h + 1)..(n - 1)
                PROVE  distance[vec'[a]] <= distance[vec'[b]]
    BY DEF Above
  <2>1. b \in Int /\ h < b /\ b # p /\ b # q
    BY <1>1
  <2>2. a \in Domain /\ b \in Domain
    BY <1>1, <2>1 DEF Domain
  <2>3. vec'[b] = vec[b]
    BY <1>2, <2>1, <2>2
  <2>4. \E c \in 0..h : vec'[a] = vec[c]
    BY <1>1, <1>2, <2>2
  <2>. QED BY <2>3, <2>4 DEF Above
<1>. QED BY <1>6, <1>7

\* Every initial state satisfies the invariant.
LEMMA InitInv == Init => IInv
<1>. SUFFICES ASSUME Init  PROVE IInv
  OBVIOUS
<1>1. TypeOK
  BY InputAssumption DEF Init, TypeOK, Domain
<1>2. EachPointOnce
  BY DEF Init, EachPointOnce
<1>3. Below /\ Above
  BY <1>1, BoundsInside DEF Init, Below, Above
<1>4. Scanned /\ Partitioned /\ FirstKAreNearest
  BY DEF Init, Scanned, Partitioned, FirstKAreNearest
<1>5. KthInside
  BY <1>1, BoundsInside DEF Init, KthInside
<1>. QED BY <1>1, <1>2, <1>3, <1>4, <1>5 DEF IInv, Base, Order

-----------------------------------------------------------------------------
\* The input does not change.
LEMMA SameInput == [Next]_vars => UNCHANGED <<n, k, distance>>
BY DEF Next, Step, Returned, ReturnSingle, DivideByZero, ChoosePivot,
   MoveSmaller, LeaveGreater, PlacePivot, Found, GoLeft, GoRight, vars, input

\* Every step keeps what holds for any distances: of Less, only that it says
\* something is used.
LEMMA StepBase == Base /\ [Next]_vars => Base'
<1>. SUFFICES ASSUME Base, [Next]_vars  PROVE Base'
  OBVIOUS
<1>0. TypeOK /\ EachPointOnce /\ KthInside
  BY DEF Base
<1>a. /\ n \in Nat /\ k \in Nat \ {0} /\ l \in Nat /\ h \in Int
      /\ l <= h + 1 /\ h <= n - 1 /\ l <= n
      /\ \A j \in l..h : j \in Domain
  BY <1>0, BoundsInside
<1>b. UNCHANGED <<n, k, distance>> /\ Domain' = Domain
  BY SameInput DEF Domain
<1>1. CASE ReturnSingle
  BY <1>0, <1>a, <1>b, <1>1 DEF ReturnSingle, input, Base, TypeOK, EachPointOnce, KthInside
<1>2. CASE DivideByZero
  BY <1>0, <1>a, <1>b, <1>2 DEF DivideByZero, input, Base, TypeOK, EachPointOnce, KthInside
<1>3. ASSUME NEW r \in l..h, ChoosePivot(r)  PROVE Base'
  <2>1. /\ pc = "loop" /\ l # h /\ pivot' = vec[r] /\ vec' = Swapped(r, h)
        /\ x' = l /\ i' = l /\ pc' = "scan" /\ UNCHANGED <<n, k, distance, l, h>>
    BY <1>3 DEF ChoosePivot, input
  <2>2. l < h /\ h \in l..h /\ r \in Domain
    BY <1>a, <2>1
  <2>3. vec' \in [Domain -> Domain] /\ EachPointOnce'
    BY <1>0, <2>1, <2>2, SwapInside
  <2>4. TypeOK'
    BY <1>0, <1>a, <1>b, <2>1, <2>2, <2>3 DEF TypeOK
  <2>. QED BY <1>0, <2>1, <2>3, <2>4 DEF Base, KthInside
<1>4. CASE MoveSmaller
  <2>1. /\ pc = "scan" /\ i < h
        /\ vec' = Swapped(x, i) /\ x' = x + 1 /\ i' = i + 1
        /\ pc' = "scan" /\ UNCHANGED <<n, k, distance, l, h, pivot>>
    BY <1>4 DEF MoveSmaller, input
  <2>2. x \in l..i /\ i \in l..h /\ x \in l..h
    BY <1>0, <1>a, <2>1 DEF TypeOK
  <2>3. vec' \in [Domain -> Domain] /\ EachPointOnce'
    BY <1>0, <2>1, <2>2, SwapInside
  <2>4. TypeOK'
    BY <1>0, <1>a, <1>b, <2>1, <2>2, <2>3 DEF TypeOK
  <2>. QED BY <1>0, <2>1, <2>3, <2>4 DEF Base, KthInside
<1>5. CASE LeaveGreater
  BY <1>0, <1>a, <1>b, <1>5 DEF LeaveGreater, input, Base, TypeOK, EachPointOnce, KthInside
<1>6. CASE PlacePivot
  <2>1. /\ pc = "scan" /\ i >= h /\ vec' = Swapped(h, x) /\ pc' = "decide"
        /\ UNCHANGED <<n, k, distance, l, h, x, i, pivot>>
    BY <1>6 DEF PlacePivot, input
  <2>2. x \in l..i /\ i = h /\ x \in l..h /\ h \in l..h
    BY <1>0, <1>a, <2>1 DEF TypeOK
  <2>3. vec' \in [Domain -> Domain] /\ EachPointOnce'
    BY <1>0, <2>1, <2>2, SwapInside
  <2>4. TypeOK'
    BY <1>0, <1>a, <1>b, <2>1, <2>2, <2>3 DEF TypeOK
  <2>. QED BY <1>0, <2>1, <2>3, <2>4 DEF Base, KthInside
<1>7. CASE Found
  BY <1>0, <1>a, <1>b, <1>7 DEF Found, input, Base, TypeOK, EachPointOnce, KthInside
<1>8. CASE GoLeft
  BY <1>0, <1>a, <1>b, <1>8 DEF GoLeft, input, Base, TypeOK, EachPointOnce, KthInside
<1>9. CASE GoRight
  BY <1>0, <1>a, <1>b, <1>9 DEF GoRight, input, Base, TypeOK, EachPointOnce, KthInside
<1>10. CASE UNCHANGED vars
  BY <1>0, <1>b, <1>10 DEF vars, input, Base, TypeOK, EachPointOnce, KthInside
<1>. QED
  BY <1>1, <1>2, <1>3, <1>4, <1>5, <1>6, <1>7, <1>8, <1>9, <1>10
     DEF Next, Step, Returned

\* Every step keeps the order, if the distances are numbers.
LEMMA StepOrder == Base /\ Numeric /\ Order /\ [Next]_vars => Order'
<1>. SUFFICES ASSUME Base, Numeric, Order, [Next]_vars  PROVE Order'
  OBVIOUS
<1>0. /\ TypeOK /\ EachPointOnce /\ KthInside
      /\ Below /\ Above /\ Scanned /\ Partitioned /\ FirstKAreNearest
  BY DEF Base, Order
<1>a. /\ n \in Nat /\ k \in Nat \ {0} /\ l \in Nat /\ h \in Int
      /\ l <= h + 1 /\ h <= n - 1 /\ l <= n
      /\ \A j \in l..h : j \in Domain
  BY <1>0, BoundsInside
<1>b. \A p \in Domain : distance[p] \in Int /\ distance[vec[p]] \in Int
  BY <1>0, DistanceIsInt DEF TypeOK
<1>c. \A p, q \in Domain : Less(p, q) <=> distance[p] < distance[q]
  BY DEF Less, Numeric
<1>d. /\ UNCHANGED <<n, k, distance>> /\ Domain' = Domain
      /\ vec \in [Domain -> Domain]
  BY <1>0, SameInput DEF Domain, TypeOK
<1>e. \A p, q \in Domain : ~Less(p, q) <=> distance[q] <= distance[p]
  <2>. SUFFICES ASSUME NEW p \in Domain, NEW q \in Domain
                PROVE  ~Less(p, q) <=> distance[q] <= distance[p]
    OBVIOUS
  <2>1. Less(p, q) <=> distance[p] < distance[q]
    BY <1>c
  <2>2. distance[p] \in Int /\ distance[q] \in Int
    BY <1>b
  <2>. QED BY <2>1, <2>2
<1>1. CASE ReturnSingle
  <2>1. pc = "loop" /\ l = h /\ pc' = "done"
        /\ UNCHANGED <<n, k, distance, vec, l, h, x, i, pivot>>
    BY <1>1 DEF ReturnSingle, input
  <2>2. FirstKAreNearest'
    <3>. SUFFICES ASSUME k <= n, NEW a \in 0..(k - 1), NEW b \in k..(n - 1)
                  PROVE  ~Less(vec[b], vec[a])
      BY <2>1 DEF FirstKAreNearest, Less
    <3>1. h = k - 1
      BY <1>0, <1>a, <2>1 DEF KthInside
    <3>2. a \in 0..h /\ b \in (h + 1)..(n - 1) /\ a \in Domain /\ b \in Domain
      BY <3>1, <1>a DEF Domain
    <3>3. distance[vec[a]] <= distance[vec[b]]
      BY <3>2, <1>0 DEF Above
    <3>4. vec[a] \in Domain /\ vec[b] \in Domain
      BY <3>2, <1>d
    <3>. QED BY <3>3, <3>4, <1>e
  <2>. QED BY <1>0, <2>1, <2>2 DEF Order, Below, Above, Scanned, Partitioned
<1>2. CASE DivideByZero
  BY <1>0, <1>2 DEF DivideByZero, input, Order, Below, Above, Scanned,
     Partitioned, FirstKAreNearest
<1>3. ASSUME NEW r \in l..h, ChoosePivot(r)  PROVE Order'
  <2>1. /\ pc = "loop" /\ l # h /\ pivot' = vec[r] /\ vec' = Swapped(r, h)
        /\ x' = l /\ i' = l /\ pc' = "scan" /\ UNCHANGED <<n, k, distance, l, h>>
    BY <1>3 DEF ChoosePivot, input
  <2>2. l < h /\ h \in l..h /\ r \in Domain /\ h \in Domain
    BY <1>a, <2>1
  <2>3. Below' /\ Above'
    BY <1>0, <2>1, <2>2, SwapKeepsOrder
  <2>4. vec'[h] = vec[r]
    BY <1>0, <2>1, <2>2, SwapInside
  <2>5. Scanned'
    BY <1>a, <2>1, <2>4 DEF Scanned
  <2>. QED BY <2>1, <2>3, <2>5 DEF Order, Partitioned, FirstKAreNearest
<1>4. CASE MoveSmaller
  <2>1. /\ pc = "scan" /\ i < h /\ Less(vec[i], pivot)
        /\ vec' = Swapped(x, i) /\ x' = x + 1 /\ i' = i + 1
        /\ pc' = "scan" /\ UNCHANGED <<n, k, distance, l, h, pivot>>
    BY <1>4 DEF MoveSmaller, input
  <2>2. /\ l < h /\ x \in l..i /\ i \in l..h /\ x \in l..h /\ pivot \in Domain
        /\ x \in Int /\ i \in Int
    BY <1>0, <1>a, <2>1 DEF TypeOK
  <2>3. Below' /\ Above'
    BY <1>0, <2>1, <2>2, SwapKeepsOrder
  <2>4. /\ vec'[x] = vec[i] /\ vec'[i] = vec[x]
        /\ \A j \in Domain : j # x /\ j # i => vec'[j] = vec[j]
    BY <1>0, <1>a, <2>1, <2>2, SwapInside
  <2>5. Scanned'
    <3>1. vec'[h] = pivot
      BY <1>0, <1>a, <2>1, <2>2, <2>4 DEF Scanned
    <3>2. ASSUME NEW j \in l..x  PROVE distance[vec'[j]] < distance[pivot]
      <4>1. distance[vec[i]] < distance[pivot]
        BY <1>a, <1>c, <1>d, <2>1, <2>2
      <4>. QED BY <1>0, <1>a, <2>1, <2>2, <2>4, <4>1 DEF Scanned
    <3>3. ASSUME NEW j \in (x + 1)..i  PROVE distance[pivot] <= distance[vec'[j]]
      BY <1>0, <1>a, <2>1, <2>2, <2>4 DEF Scanned
    <3>. QED BY <2>1, <2>2, <3>1, <3>2, <3>3 DEF Scanned
  <2>. QED BY <2>1, <2>3, <2>5 DEF Order, Partitioned, FirstKAreNearest
<1>5. CASE LeaveGreater
  <2>1. /\ pc = "scan" /\ i < h /\ ~Less(vec[i], pivot)
        /\ i' = i + 1 /\ pc' = "scan"
        /\ UNCHANGED <<n, k, distance, vec, l, h, x, pivot>>
    BY <1>5 DEF LeaveGreater, input
  <2>2. /\ l < h /\ x \in l..i /\ i \in l..h /\ pivot \in Domain
        /\ x \in Int /\ i \in Int /\ i \in Domain
    BY <1>0, <1>a, <2>1 DEF TypeOK
  <2>3. distance[pivot] <= distance[vec[i]]
    <3>1. vec[i] \in Domain
      BY <1>d, <2>2
    <3>. QED BY <1>e, <2>1, <2>2, <3>1
  <2>5. Scanned'
    BY <1>0, <1>a, <2>1, <2>2, <2>3 DEF Scanned
  <2>. QED
    BY <1>0, <2>1, <2>5 DEF Order, Below, Above, Partitioned, FirstKAreNearest
<1>6. CASE PlacePivot
  <2>1. /\ pc = "scan" /\ i >= h /\ vec' = Swapped(h, x) /\ pc' = "decide"
        /\ UNCHANGED <<n, k, distance, l, h, x, i, pivot>>
    BY <1>6 DEF PlacePivot, input
  <2>2. /\ l < h /\ x \in l..i /\ i = h /\ x \in l..h /\ h \in l..h
        /\ pivot \in Domain /\ x \in Int
    BY <1>0, <1>a, <2>1 DEF TypeOK
  <2>3. Below' /\ Above'
    BY <1>0, <2>1, <2>2, SwapKeepsOrder
  <2>4. /\ vec'[x] = vec[h] /\ vec'[h] = vec[x]
        /\ \A j \in Domain : j # x /\ j # h => vec'[j] = vec[j]
    BY <1>0, <1>a, <2>1, <2>2, SwapInside
  <2>5. Partitioned'
    <3>1. vec'[x] = pivot
      BY <1>0, <2>1, <2>4 DEF Scanned
    <3>2. ASSUME NEW j \in l..(x - 1)  PROVE distance[vec'[j]] <= distance[pivot]
      <4>1. j \in Domain /\ j # x /\ j # h /\ vec'[j] = vec[j]
        BY <1>a, <2>2, <2>4
      <4>2. distance[vec[j]] < distance[pivot]
        BY <1>0, <2>1 DEF Scanned
      <4>3. distance[vec[j]] \in Int /\ distance[pivot] \in Int
        BY <4>1, <1>b, <2>2
      <4>. QED BY <4>1, <4>2, <4>3
    <3>3. ASSUME NEW j \in (x + 1)..h  PROVE distance[pivot] <= distance[vec'[j]]
      <4>1. CASE j = h
        BY <4>1, <1>0, <1>a, <2>1, <2>2, <2>4 DEF Scanned
      <4>2. CASE j # h
        BY <4>2, <1>0, <1>a, <2>1, <2>2, <2>4 DEF Scanned
      <4>. QED BY <4>1, <4>2
    <3>. QED BY <2>1, <3>1, <3>2, <3>3 DEF Partitioned
  <2>. QED BY <2>1, <2>3, <2>5 DEF Order, Scanned, FirstKAreNearest
<1>7. CASE Found
  <2>1. /\ pc = "decide" /\ x = k - 1 /\ pc' = "done"
        /\ UNCHANGED <<n, k, distance, vec, l, h, x, i, pivot>>
    BY <1>7 DEF Found, input
  <2>2. x \in l..h /\ x \in Domain
    BY <1>0, <1>a, <2>1 DEF TypeOK
  <2>3. FirstKAreNearest'
    <3>. SUFFICES ASSUME NEW a \in 0..x, NEW b \in (x + 1)..(n - 1)
                  PROVE  ~Less(vec[b], vec[a])
      BY <2>1, <1>a DEF FirstKAreNearest, Less
    <3>1. a \in Domain /\ b \in Domain
      BY <1>a, <2>2 DEF Domain
    <3>2. distance[vec[a]] <= distance[vec[b]]
      BY <1>0, <1>a, <1>b, <2>1, <2>2 DEF Below, Above, Partitioned, Domain
    <3>3. vec[a] \in Domain /\ vec[b] \in Domain
      BY <3>1, <1>d
    <3>. QED BY <1>e, <3>2, <3>3
  <2>. QED BY <1>0, <2>1, <2>3 DEF Order, Below, Above, Scanned, Partitioned
<1>8. CASE GoLeft
  <2>1. /\ pc = "decide" /\ k - 1 < x /\ h' = x - 1 /\ pc' = "loop"
        /\ UNCHANGED <<n, k, distance, vec, l, x, i, pivot>>
    BY <1>8 DEF GoLeft, input
  <2>2. x \in l..h /\ x \in Domain
    BY <1>0, <1>a, <2>1 DEF TypeOK
  <2>3. Above'
    <3>. SUFFICES ASSUME NEW a \in 0..(x - 1), NEW b \in x..(n - 1)
                  PROVE  distance[vec[a]] <= distance[vec[b]]
      BY <2>1, <1>a, <2>2 DEF Above
    <3>. QED BY <1>0, <1>a, <1>b, <2>1, <2>2 DEF Below, Above, Partitioned, Domain
  <2>. QED BY <1>0, <2>1, <2>3 DEF Order, Below, Scanned, Partitioned, FirstKAreNearest
<1>9. CASE GoRight
  <2>1. /\ pc = "decide" /\ x < k - 1 /\ l' = x + 1 /\ pc' = "loop"
        /\ UNCHANGED <<n, k, distance, vec, h, x, i, pivot>>
    BY <1>9 DEF GoRight, input
  <2>2. x \in l..h /\ x \in Domain
    BY <1>0, <1>a, <2>1 DEF TypeOK
  <2>3. Below'
    <3>. SUFFICES ASSUME NEW a \in 0..x, NEW b \in (x + 1)..(n - 1)
                  PROVE  distance[vec[a]] <= distance[vec[b]]
      BY <2>1, <1>a, <2>2 DEF Below
    <3>. QED BY <1>0, <1>a, <1>b, <2>1, <2>2 DEF Below, Above, Partitioned, Domain
  <2>. QED BY <1>0, <2>1, <2>3 DEF Order, Above, Scanned, Partitioned, FirstKAreNearest
<1>10. CASE UNCHANGED vars
  BY <1>0, <1>10 DEF vars, input, Order, Below, Above, Scanned, Partitioned,
     FirstKAreNearest, Numeric, Less, Domain
<1>. QED
  BY <1>1, <1>2, <1>3, <1>4, <1>5, <1>6, <1>7, <1>8, <1>9, <1>10
     DEF Next, Step, Returned

\* Every step keeps the invariant: Numeric is about the input.
LEMMA StepInv == IInv /\ [Next]_vars => IInv'
<1>1. [Next]_vars => (Numeric' <=> Numeric)
  BY SameInput DEF Numeric, Domain
<1>. QED BY <1>1, StepBase, StepOrder DEF IInv

-----------------------------------------------------------------------------
(* Theorems *)

\* Every reachable state of a call of quickselect satisfies the invariant.
THEOREM Invariance == SafetySpec => []IInv
BY InitInv, StepInv, PTL DEF SafetySpec

\* The bounds of the search and every index that is used stay in the vector,
\* for distances that are not numbers too.
THEOREM IndicesInside == SafetySpec => []TypeOK
<1>1. IInv => TypeOK
  BY DEF IInv, Base
<1>. QED BY <1>1, Invariance, PTL

\* The vector keeps every data point exactly once, for any distances.
THEOREM PointsKept == SafetySpec => []EachPointOnce
<1>1. IInv => EachPointOnce
  BY DEF IInv, Base
<1>. QED BY <1>1, Invariance, PTL

\* With at least K points, the K that get_k_nearest takes are nearest, if all
\* distances are numbers.
THEOREM SelectsNearest == SafetySpec => []FirstKAreNearest
<1>1. IInv => FirstKAreNearest
  BY DEF IInv, Order, FirstKAreNearest
<1>. QED BY <1>1, Invariance, PTL

\* With at least K points, rand is never divided by zero, for any distances.
THEOREM NeverDividesByZero == SafetySpec => []KthInside
<1>1. IInv => KthInside
  BY DEF IInv, Base
<1>. QED BY <1>1, Invariance, PTL

-----------------------------------------------------------------------------
(* The result *)

\* The data points that get_k_nearest takes
Chosen == {vec[a] : a \in 0..(k - 1)}

\* They are K different points, none of the others nearer: what Classifier
\* takes for the result of this call (its Nearest).
ChosenAreNearest ==
    (pc = "done" /\ k <= n /\ Numeric) =>
        /\ Chosen \subseteq Domain /\ Cardinality(Chosen) = k
        /\ \A p \in Chosen, q \in Domain \ Chosen : distance[p] <= distance[q]

\* A permutation of the vector leaves out no point.
LEMMA EveryPointOnce ==
    ASSUME TypeOK, EachPointOnce
    PROVE  \A q \in Domain : \E b \in Domain : vec[b] = q
<1>1. vec \in Injection(Domain, Domain)
  BY DEF TypeOK, EachPointOnce, Injection, IsInjective
<1>2. IsFiniteSet(Domain)
  BY BoundsInside, FS_Interval DEF Domain
<1>3. vec \in Surjection(Domain, Domain)
  BY <1>1, <1>2, FS_Injection
<1>. QED BY <1>3 DEF Surjection

\* The result of quickselect is what the vote needs, for any size and K, any
\* pivots, and distances that are numbers.
THEOREM ResultIsNearest == SafetySpec => []ChosenAreNearest
<1>1. IInv => ChosenAreNearest
  <2>. SUFFICES ASSUME IInv, pc = "done", k <= n, Numeric
                PROVE  /\ Chosen \subseteq Domain /\ Cardinality(Chosen) = k
                       /\ \A p \in Chosen, q \in Domain \ Chosen : distance[p] <= distance[q]
    BY DEF ChosenAreNearest
  <2>0. TypeOK /\ EachPointOnce /\ FirstKAreNearest /\ n \in Nat /\ k \in Nat \ {0}
    BY BoundsInside DEF IInv, Base, Order
  <2>1. (0..(k - 1)) \subseteq Domain /\ vec \in [Domain -> Domain]
    BY <2>0 DEF Domain, TypeOK
  <2>2. Chosen \subseteq Domain
    BY <2>1 DEF Chosen
  <2>3. Cardinality(Chosen) = k
    <3>. DEFINE first == [a \in 0..(k - 1) |-> vec[a]]
    <3>1. first \in Bijection(0..(k - 1), Chosen)
      BY <2>0, <2>1 DEF EachPointOnce, Chosen, Bijection, Injection, Surjection, IsInjective
    <3>2. ExistsBijection(0..(k - 1), Chosen)
      BY <3>1 DEF ExistsBijection
    <3>3. IsFiniteSet(0..(k - 1)) /\ Cardinality(0..(k - 1)) = k
      BY <2>0, FS_Interval
    <3>. QED BY <3>2, <3>3, FS_Bijection
  <2>4. ASSUME NEW p \in Chosen, NEW q \in Domain \ Chosen
        PROVE  distance[p] <= distance[q]
    <3>1. PICK a \in 0..(k - 1) : vec[a] = p
      BY DEF Chosen
    <3>2. PICK b \in Domain : vec[b] = q
      BY <2>0, EveryPointOnce
    <3>3. b \in k..(n - 1)
      BY <2>0, <3>2 DEF Chosen, Domain
    <3>4. ~Less(q, p)
      BY <2>0, <3>1, <3>2, <3>3 DEF FirstKAreNearest
    <3>5. p \in Domain /\ distance[p] \in Int /\ distance[q] \in Int
      BY <2>0, <2>2, DistanceIsInt
    <3>. QED BY <3>4, <3>5 DEF Less, Numeric
  <2>. QED BY <2>2, <2>3, <2>4
<1>. QED BY <1>1, Invariance, PTL

-----------------------------------------------------------------------------
(* The loop has an end *)

\* How many steps are left at most: a partition of the part from l to h takes
\* fewer than n + 4 steps, and leaves a part that is smaller.
StepsLeft ==
    LET size == h - l + 1 IN
    CASE pc = "loop"   -> size * (n + 4) + n + 3
      [] pc = "scan"   -> size * (n + 4) + 2 + (h - i)
      [] pc = "decide" -> size * (n + 4) + 1
      [] OTHER         -> 0

\* A smaller part takes a whole partition less.
LEMMA SmallerPart ==
    ASSUME NEW a \in Nat, NEW b \in Nat, NEW m \in Nat, a < b
    PROVE  a * m + m <= b * m
<1>1. (a + 1) * m <= b * m
  OBVIOUS
<1>. QED BY <1>1

\* The number of steps left is never negative.
LEMMA StepsAreCounted == ASSUME TypeOK PROVE StepsLeft \in Nat
<1>1. n \in Nat /\ h - l + 1 \in Nat
  BY BoundsInside
<1>2. (h - l + 1) * (n + 4) \in Nat
  BY <1>1
<1>3. pc = "scan" => h - i \in Nat
  BY BoundsInside DEF TypeOK
<1>. QED BY <1>1, <1>2, <1>3 DEF StepsLeft

\* A scan comes closer to its end, and what partition leaves is smaller by the
\* pivot at least.
LEMMA StepsDecrease == TypeOK /\ TypeOK' /\ Step => StepsLeft' < StepsLeft
<1>. SUFFICES ASSUME TypeOK, TypeOK', Step  PROVE StepsLeft' < StepsLeft
  OBVIOUS
<1>. DEFINE size == h - l + 1
            left == size * (n + 4)
<1>0. /\ n \in Nat /\ l \in Nat /\ h \in Int /\ size \in Nat /\ size <= n /\ left \in Nat
      /\ n' = n
  <2>1. n \in Nat /\ l \in Nat /\ h \in Int /\ l <= h + 1 /\ h <= n - 1
    BY BoundsInside
  <2>2. n' = n
    BY SameInput DEF Next
  <2>3. size \in Nat /\ size <= n
    BY <2>1
  <2>. QED BY <2>1, <2>2, <2>3
<1>. HIDE DEF left
<1>1. CASE pc = "loop"
  <2>1. StepsLeft = left + n + 3
    BY <1>1 DEF StepsLeft, left
  <2>2. CASE ReturnSingle \/ DivideByZero
    <3>1. StepsLeft' = 0
      BY <2>2 DEF StepsLeft, ReturnSingle, DivideByZero
    <3>. QED BY <1>0, <2>1, <3>1
  <2>3. ASSUME NEW r \in l..h, ChoosePivot(r)  PROVE StepsLeft' < StepsLeft
    <3>1. pc' = "scan" /\ i' = l /\ l' = l /\ h' = h
      BY <2>3 DEF ChoosePivot
    <3>2. StepsLeft' = left + 2 + (h - l)
      BY <1>0, <3>1 DEF StepsLeft, left
    <3>. QED BY <1>0, <2>1, <3>2
  <2>. QED
    BY <1>1, <2>2, <2>3
       DEF Step, MoveSmaller, LeaveGreater, PlacePivot, Found, GoLeft, GoRight
<1>2. CASE pc = "scan"
  <2>1. StepsLeft = left + 2 + (h - i) /\ i \in Int
    BY <1>0, <1>2 DEF StepsLeft, left, TypeOK
  <2>2. CASE MoveSmaller \/ LeaveGreater
    <3>1. pc' = "scan" /\ i' = i + 1 /\ l' = l /\ h' = h
      BY <2>2 DEF MoveSmaller, LeaveGreater
    <3>2. StepsLeft' = left + 2 + (h - (i + 1))
      BY <1>0, <3>1 DEF StepsLeft, left
    <3>. QED BY <1>0, <2>1, <3>2
  <2>3. CASE PlacePivot
    <3>1. pc' = "decide" /\ l' = l /\ h' = h /\ i <= h
      BY <1>2, <2>3 DEF PlacePivot, TypeOK
    <3>2. StepsLeft' = left + 1
      BY <1>0, <3>1 DEF StepsLeft, left
    <3>. QED BY <1>0, <2>1, <3>1, <3>2
  <2>. QED
    BY <1>2, <2>2, <2>3
       DEF Step, ReturnSingle, DivideByZero, ChoosePivot, Found, GoLeft, GoRight
<1>3. CASE pc = "decide"
  <2>1. StepsLeft = left + 1 /\ x \in l..h
    BY <1>3 DEF StepsLeft, left, TypeOK
  <2>2. CASE Found
    <3>1. StepsLeft' = 0
      BY <2>2 DEF StepsLeft, Found
    <3>. QED BY <1>0, <2>1, <3>1
  <2>3. CASE GoLeft \/ GoRight
    <3>. DEFINE rest == h' - l' + 1
    <3>1. pc' = "loop" /\ ((h' = x - 1 /\ l' = l) \/ (l' = x + 1 /\ h' = h))
      BY <2>3 DEF GoLeft, GoRight
    <3>2. rest \in Nat /\ rest < size
      BY <1>0, <2>1, <3>1
    <3>3. StepsLeft' = rest * (n + 4) + n + 3
      BY <1>0, <3>1 DEF StepsLeft
    <3>. HIDE DEF rest, size
    <3>4. rest * (n + 4) + (n + 4) <= left /\ rest * (n + 4) \in Nat
      BY <1>0, <3>2, SmallerPart DEF left
    <3>. QED BY <1>0, <2>1, <3>3, <3>4
  <2>. QED
    BY <1>3, <2>2, <2>3
       DEF Step, ReturnSingle, DivideByZero, ChoosePivot, MoveSmaller, LeaveGreater, PlacePivot
<1>. QED
  BY <1>1, <1>2, <1>3
     DEF Step, ReturnSingle, DivideByZero, ChoosePivot, MoveSmaller, LeaveGreater, PlacePivot,
         Found, GoLeft, GoRight

\* Every step of the loops leaves fewer steps to do, whatever the pivots and
\* the distances, NaN among them: a call cannot go on for ever.
THEOREM StepsRunOut == SafetySpec => [](StepsLeft \in Nat) /\ [][StepsLeft' < StepsLeft]_vars
<1>1. TypeOK => StepsLeft \in Nat
  BY StepsAreCounted
<1>2. TypeOK /\ TypeOK' /\ [Next]_vars => [StepsLeft' < StepsLeft]_vars
  BY StepsDecrease DEF Next, Returned
<1>. QED BY <1>1, <1>2, IndicesInside, PTL DEF SafetySpec
=============================================================================
