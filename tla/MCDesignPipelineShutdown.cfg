SPECIFICATION Spec
CONSTANTS
    Job = {stl}
    Native = {}
    None = None
    MaxCrashes = 0
    MaxFaults = 0
INVARIANT CancelAllRecords
