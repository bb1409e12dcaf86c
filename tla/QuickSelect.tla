---------------------------- MODULE QuickSelect ----------------------------
(***************************************************************************)
(* quickselect of include/knn-algo.h with its partition, as get_k_nearest  *)
(* (lib/knn-datastructs.tpp) calls it: vec is a vector of DistancePoints,  *)
(* each the index of a data point with its distance to the point that is   *)
(* classified.  A step is one iteration of a loop.  Indices count from 0.  *)
(***************************************************************************)
EXTENDS Integers

CONSTANTS Sizes,        \* how many points a data set may have
          Ks,           \* the values of K
          Distances,    \* the distances that occur
          NaN           \* not a number: what a coordinate "nan" leads to

ASSUME InputAssumption ==
    /\ Sizes \subseteq Nat /\ Ks \subseteq Nat \ {0}
    /\ Distances \subseteq Int \cup {NaN} /\ NaN \notin Int

VARIABLES n, k, distance,   \* the input: size, K, the distance of each index
          vec,              \* new_vec, the index member of each element
          l, h,             \* the part of new_vec that is still unordered
          x, i, pivot,      \* the locals of partition; pivot as an index
          pc                \* "loop": at the top of while; "scan": in the for
                            \* of partition; "decide": pi is known; or how
                            \* the call ended

input == <<n, k, distance>>
vars == <<input, vec, l, h, x, i, pivot, pc>>

Domain == 0..(n - 1)

\* mutant: h starts at size() instead of size() - 1
InitPastEnd ==
    /\ n \in Sizes
    /\ k \in Ks
    /\ distance \in [Domain -> Distances]
    /\ vec = [j \in Domain |-> j]
    /\ l = 0
    /\ h = n
    /\ x = 0
    /\ i = 0
    /\ pivot = 0
    /\ pc = "loop"

\* transform_data numbers the distances in the order of the data points
Init ==
    /\ n \in Sizes
    /\ k \in Ks
    /\ distance \in [Domain -> Distances]
    /\ vec = [j \in Domain |-> j]
    /\ l = 0
    /\ h = n - 1
    /\ x = 0
    /\ i = 0
    /\ pivot = 0
    /\ pc = "loop"

\* DistancePoint::operator<: a comparison with NaN is false either way
Less(p, q) == NaN \notin {distance[p], distance[q]} /\ distance[p] < distance[q]

Numeric == \A p \in Domain : distance[p] # NaN

Swapped(a, b) == [vec EXCEPT ![a] = vec[b], ![b] = vec[a]]

-----------------------------------------------------------------------------
ReturnSingle ==
    /\ pc = "loop"
    /\ l = h
    /\ pc' = "done"
    /\ UNCHANGED <<input, vec, l, h, x, i, pivot>>

\* random_partition: rand() % (h - l + 1) divides by zero when l has passed h
DivideByZero ==
    /\ pc = "loop"
    /\ h - l + 1 = 0
    /\ pc' = "SIGFPE"
    /\ UNCHANGED <<input, vec, l, h, x, i, pivot>>

\* mutant: the pivot is not moved out of the way of the scan
ChoosePivotInPlace(r) ==
    /\ pc = "loop"
    /\ l # h
    /\ pivot' = vec[r]
    /\ x' = l
    /\ i' = l
    /\ pc' = "scan"
    /\ UNCHANGED <<input, vec, l, h>>

\* partition starts: the pivot goes to the end
ChoosePivot(r) ==
    /\ pc = "loop"
    /\ l # h
    /\ pivot' = vec[r]
    /\ vec' = Swapped(r, h)
    /\ x' = l
    /\ i' = l
    /\ pc' = "scan"
    /\ UNCHANGED <<input, l, h>>

\* mutant: the smaller element overwrites instead of changing places
MoveSmallerOverwrites ==
    /\ pc = "scan"
    /\ i < h
    /\ Less(vec[i], pivot)
    /\ vec' = [vec EXCEPT ![x] = vec[i]]
    /\ x' = x + 1
    /\ i' = i + 1
    /\ UNCHANGED <<input, l, h, pivot, pc>>

MoveSmaller ==
    /\ pc = "scan"
    /\ i < h
    /\ Less(vec[i], pivot)
    /\ vec' = Swapped(x, i)
    /\ x' = x + 1
    /\ i' = i + 1
    /\ UNCHANGED <<input, l, h, pivot, pc>>

LeaveGreater ==
    /\ pc = "scan"
    /\ i < h
    /\ ~Less(vec[i], pivot)
    /\ i' = i + 1
    /\ UNCHANGED <<input, vec, l, h, x, pivot, pc>>

\* partition ends: the pivot goes between the smaller and the others, and its
\* place, x, is returned as pi
PlacePivot ==
    /\ pc = "scan"
    /\ i >= h
    /\ vec' = Swapped(h, x)
    /\ pc' = "decide"
    /\ UNCHANGED <<input, l, h, x, i, pivot>>

Found ==
    /\ pc = "decide"
    /\ x = k - 1
    /\ pc' = "done"
    /\ UNCHANGED <<input, vec, l, h, x, i, pivot>>

\* mutant: the pivot stays in the part that is searched
GoLeftWithPivot ==
    /\ pc = "decide"
    /\ k - 1 < x
    /\ h' = x
    /\ pc' = "loop"
    /\ UNCHANGED <<input, vec, l, x, i, pivot>>

GoLeft ==
    /\ pc = "decide"
    /\ k - 1 < x
    /\ h' = x - 1
    /\ pc' = "loop"
    /\ UNCHANGED <<input, vec, l, x, i, pivot>>

\* mutant: one element too many is left behind
GoRightTooFar ==
    /\ pc = "decide"
    /\ x < k - 1
    /\ l' = x + 2
    /\ pc' = "loop"
    /\ UNCHANGED <<input, vec, h, x, i, pivot>>

GoRight ==
    /\ pc = "decide"
    /\ x < k - 1
    /\ l' = x + 1
    /\ pc' = "loop"
    /\ UNCHANGED <<input, vec, h, x, i, pivot>>

Step ==
    \/ ReturnSingle \/ DivideByZero \/ (\E r \in l..h : ChoosePivot(r))
    \/ MoveSmaller \/ LeaveGreater \/ PlacePivot
    \/ Found \/ GoLeft \/ GoRight

Returned == pc \in {"done", "SIGFPE"} /\ UNCHANGED vars

Next == Step \/ Returned

SafetySpec == Init /\ [][Next]_vars

\* One thread runs the loop.
Spec == SafetySpec /\ WF_vars(Step)

-----------------------------------------------------------------------------
(* Properties *)

\* Every index of new_vec that is used is inside it, whatever pivot rand
\* chooses and for any K, and the bounds stay those of a part of it.
TypeOK ==
    /\ n \in Sizes /\ k \in Ks /\ distance \in [Domain -> Distances]
    /\ vec \in [Domain -> Domain]
    /\ l \in 0..n /\ h \in -1..(n - 1) /\ l <= h + 1
    /\ pc \in {"loop", "scan", "decide", "done", "SIGFPE"}
    /\ pc = "scan" => l < h /\ x \in l..i /\ i \in l..h /\ pivot \in Domain
    /\ pc = "decide" => x \in l..h

\* The result holds every data point once: no neighbour is counted twice and
\* none is lost, although partition swaps elements, with themselves too, and
\* NaN makes Less no order.
EachPointOnce == \A a, b \in Domain : vec[a] = vec[b] => a = b

\* With at least K points, the first K of the result are nearest to the point:
\* none of the others is nearer, as long as every distance is a number.
FirstKAreNearest ==
    (pc = "done" /\ k <= n /\ Numeric) =>
        \A a \in 0..(k - 1), b \in k..(n - 1) : ~Less(vec[b], vec[a])

\* With at least K points, the part that is still searched holds the K-th
\* place, so that it is never empty and rand is never divided by zero.
KthInside == k <= n => l <= k - 1 /\ k - 1 <= h /\ pc # "SIGFPE"

\* The loop ends for any K, any pivots and any distances, NaN among them: each
\* partition makes the part that is searched smaller.
Terminates == <>(pc \in {"done", "SIGFPE"})

\* The header of DataSet::get_k_nearest, "an array whose first k elements are
\* the closest neighbors": the call returns, and with K elements to return.
ReturnsKNeighbors ==
    pc \in {"done", "SIGFPE"} => pc = "done" /\ 0..(k - 1) \subseteq DOMAIN vec
=============================================================================
