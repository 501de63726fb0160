CONSTANTS
    Run = {r1, r2}
    Other = other
    None = none
    MaxCrashes = 1
    MaxFaults = 1
SPECIFICATION Spec
SYMMETRY Revisions
INVARIANTS UnconfirmedIsSealed
CHECK_DEADLOCK FALSE
