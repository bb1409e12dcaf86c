CONSTANTS
    Sizes = {0, 1, 2, 3, 4}
    Ks = {1, 2, 3, 4, 5}
    Distances = {0, 1, 2, 3, NaN}
    NaN = NaN
SPECIFICATION Spec
INVARIANTS TypeOK EachPointOnce FirstKAreNearest KthInside
PROPERTY Terminates
