SPECIFICATION Spec
CONSTANTS
    Job = {stl}
    Native = {}
    None = None
    MaxCrashes = 1
    MaxFaults = 0
INVARIANT ReportInOrder
