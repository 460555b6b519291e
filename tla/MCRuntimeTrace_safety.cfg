CONSTANTS
    e1 = e1
    e2 = e2
    c1 = c1
    c2 = c2
    Emitters <- TwoEmitters
    Closers <- TwoClosers
    MaxQueue = 2
    MaxSequence = 3
    MaxInvalid = 2
SPECIFICATION Spec
SYMMETRY ThreadSymmetry
INVARIANT TypeOK
INVARIANT Conservation
INVARIANT FileIsPutOrder
INVARIANT CleanSummary
INVARIANT OneSentinel
PROPERTY LossIsTold
CHECK_DEADLOCK FALSE
