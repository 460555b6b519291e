CONSTANTS
    e1 = e1
    e2 = e2
    c1 = c1
    c2 = c2
    Emitters <- TwoEmitters
    Closers <- OneCloser
    MaxQueue = 1
    MaxSequence = 3
    MaxInvalid = 1
SPECIFICATION Spec
INVARIANT EveryRecordReported
CHECK_DEADLOCK FALSE
