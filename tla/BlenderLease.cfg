CONSTANTS
    Task = {t1, t2, t3}
    Ticket = {k1, k2}
    None = None
    MaxCancels = 3
SPECIFICATION FairSpec
INVARIANTS TypeOK SlicerInsideLease
PROPERTIES NoOvertaking QuarantineSticks ImplementsOwnership QueueDrains
