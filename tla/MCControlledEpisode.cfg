CONSTANTS
    None = None
    Targets = {t1, t2}
    Unseen <- MCUnseen
    ControlFrames = 1
    Ammo = 2
    MaxProcesses = 2
    MaxAcquisitions = 1
    MaxCommits = 3
    MaxCheckpoints = 1
    MaxGeneration = 9
    MaxPending = 1
SPECIFICATION Spec
CONSTRAINT Hopeful
SYMMETRY CellSymmetry
CHECK_DEADLOCK FALSE
INVARIANT TypeOK
INVARIANT SwapsUndone
INVARIANT EpisodeIsWitnessed
