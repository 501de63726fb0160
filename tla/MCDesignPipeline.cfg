SPECIFICATION Spec
CONSTANTS
    Job = {first, second}
    Native = {first, second}
    None = None
    MaxCrashes = 2
    MaxFaults = 1
INVARIANTS
    TypeOK
    NoVerdictInDoubt
    DoubtIsSealed
    DoneMeansPassed
    EvidenceTracksRow
PROPERTIES
    HistoryStays
