CONSTANTS
    Asset = {native, part1}
    v1 = v1
    v2 = v2
    Version = {v1, v2}
    Call = {c1}
    Missing = Missing
    MaxEdits = 0
    MaxDowns = 0
    X = X
    Z = Z
    Axis = {X, Z}
    Height = Z
    Word = {0, 1}
    Span = 1
    Wall = 1
    Side = 1
    Role = {"Support", "Brim"}
    Object = {o1}
    Listed = {o1}
    AllowSupport = FALSE
    AllowBrim = TRUE
    Unknown = Unknown
    Absent = Absent
    MaxLines = 5
    t1 = t1
    t2 = t2
    Task = {t1, t2}
    Copy = {k1, k2}
    Code = {p, q}
    None = None
    MaxPermits = 0
SPECIFICATION EvidenceSpec
INVARIANT UnknownFailsClosed
CHECK_DEADLOCK FALSE
