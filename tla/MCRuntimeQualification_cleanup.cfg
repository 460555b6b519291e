SPECIFICATION Spec
CONSTANTS
    NSettings = 2
    Pids <- TwoPids
    MaxGames = 3
    MaxBoots = 2
    None = None
INVARIANT TypeOK
INVARIANT PassLeavesNothing
INVARIANT LeftoversReported
INVARIANT RecoveredIsNew
PROPERTY LaunchIsRouted
CHECK_DEADLOCK FALSE
