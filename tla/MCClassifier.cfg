CONSTANTS
    A = A
    B = B
    Names = {A, B}
    Empty = Empty
    Numbers = {0, 1, 2, 3, 4}
    Lines <- SomeLines
    Ks = {1, 2, 3}
    MaxPoints = 3
SPECIFICATION Spec
INVARIANTS TypeOK NamedByNeighbors MatrixAccounts OwnNeighbor
