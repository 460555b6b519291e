CONSTANTS
    t1 = t1
    t2 = t2
    Nothing = Nothing
    Threads <- TwoThreads
    Faults = {"none", "probe", "records"}
    MaxGeneration = 4
    MaxPid = 2
SPECIFICATION Spec
SYMMETRY ObserverSymmetry
CONSTRAINT Focus
INVARIANT TypeOK
INVARIANT HalvesAgree
PROPERTY PublishedForward
PROPERTY AtomicViewSpec
CHECK_DEADLOCK FALSE
