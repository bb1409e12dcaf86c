CONSTANTS
    Workers = {w1, w2, w3}
    Jobs = {j1, j2, j3}
    Throwing = {j3}
    Main = main
    None = none
    MaxSpurious = 1
SPECIFICATION Spec
INVARIANTS TypeOK FifoOnce NoPopOfEmpty WorkConserving NoSleeperAtJoin
PROPERTIES NoJobAfterTermination ImplementsJobQueue EndReturns JobsAreRun
