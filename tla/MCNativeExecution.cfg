CONSTANTS
    Run = {r1, r2}
    Other = other
    None = none
    MaxCrashes = 2
    MaxFaults = 2
SPECIFICATION FairSpec
INVARIANTS TypeOK SealedUntilProven ResultIsProven CancelledNeverDispatched
PROPERTIES NativeAlone KeepsJournal RunsEnd ProofUnseals
CHECK_DEADLOCK FALSE
