----------------------------- MODULE MCSession -----------------------------
EXTENDS Session, TLC

\* Two test files and two sizes of points are told apart only by equality.
Symmetry == Permutations(TestFiles) \cup Permutations(Dims)
=============================================================================
