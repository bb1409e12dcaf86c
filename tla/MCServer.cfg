CONSTANTS
    Workers = {w1, w2}
    Jobs = {c1, c2, c3, c4}
    Throwing = {c3}
    Main = main
    None = none
    MaxSpurious = 1
    Backlog = 2
    FdLimit = 3
SPECIFICATION ServerSpec
INVARIANTS ServerTypeOK NoConnectionLost SessionOwnsSocket SessionsOutlivedByMain
PROPERTIES ServedOrDropped IdleServerQuits
