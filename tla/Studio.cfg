CONSTANTS
    None = None
    MaxGestures = 4
    MaxRounds = 2
    MaxFaults = 1
    MaxSnaps = 2
    Option = {o1, o2}
    Default = o1
    Inspection = {i1, i2}
    HistoryLimit = 2
SPECIFICATION FairSpec
INVARIANTS
    TypeOK
    TurnsAreKept
    SnapshotIsIntact
    DownloadIsMeasured
    HistoryIsTrue
PROPERTY ComposerFreed
CHECK_DEADLOCK FALSE
