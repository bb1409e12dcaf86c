CONSTANTS
    Sizes = {0, 1, 2, 3}
    Ks = {4, 5}
    Distances = {0, 1}
    NaN = NaN
SPECIFICATION SafetySpec
INVARIANT ReturnsKNeighbors
