CONSTANTS
    Asset = {native, part1}
    v1 = v1
    v2 = v2
    Version = {v1, v2}
    Call = {c1, c2}
    Missing = Missing
    MaxEdits = 2
    MaxDowns = 1
    X = X
    Z = Z
    Axis = {X, Z}
    Height = Z
    Word = {0, 1}
    Span = 2
    Wall = 1
    Side = 1
    Role = {"Support", "Brim"}
    Object = {o1}
    Listed = {o1}
    AllowSupport = FALSE
    AllowBrim = TRUE
    Unknown = Unknown
    Absent = Absent
    MaxLines = 4
    t1 = t1
    t2 = t2
    Task = {t1, t2}
    Copy = {k1, k2}
    Code = {p, q}
    None = None
    MaxPermits = 3
SPECIFICATION EvidenceSpec
INVARIANTS
    EvidenceTypeOK
    ReceiptVouches
    VerdictIsRecorded
    KnownIsTrue
    InspectionIsExact
    PermitIsScoped
CHECK_DEADLOCK FALSE
