CONSTANTS
    None = None
    Rows <- Indexes
    Faces <- TwoFaces
    FaceOf <- Twins
    ZeroOil <- Cheap
    RewardBudget = 1
    StartBudget = 1
    MaxInvocations = 2
    MaxPending = 1
SPECIFICATION Spec
INVARIANT ClaimsFunded
CHECK_DEADLOCK FALSE
