CONSTANTS
    Ks = {1, 2}
    DefaultK = 5
    Metrics = {EUC, MAN}
    DefaultMetric = EUC
    TestFiles = {t1, t2}
    NoFile = nofile
    Dims = {d1, d2}
    MaxSets = 2
    MaxPoints = 2
    MaxLines = 2
SPECIFICATION SafetySpec
INVARIANT NoDoubleDelete
