CONSTANTS
    None = None
    Indices = {1, 2}
    Initials <- AnyPanel
    Requests <- FourRequests
    Qualified <- OneTwo
    AllowsSubmarine = TRUE
    StageBudget = 1
    FleetBudget = 3
    SortieBudget = 1
    MaxGeneration = 6
    MaxInvocations = 2
    MaxPending = 1
SPECIFICATION Spec
CONSTRAINT Focus
INVARIANT TypeOK
INVARIANT Admitted
INVARIANT SelectionIsReal
INVARIANT ProofsAreTrue
INVARIANT SortieFollowsEntry
INVARIANT PlanReaches
PROPERTY SortieAsProven
CHECK_DEADLOCK FALSE
