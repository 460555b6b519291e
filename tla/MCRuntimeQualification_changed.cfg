SPECIFICATION Spec
CONSTANTS
    NSettings = 2
    Pids <- TwoPids
    MaxGames = 3
    MaxBoots = 2
    None = None
INVARIANT ChangeReported
CHECK_DEADLOCK FALSE
