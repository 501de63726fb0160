SPECIFICATION FairSpec
CONSTANTS
    Job = {revision}
    Native = {revision}
    None = None
    MaxCrashes = 1
    MaxFaults = 0
PROPERTY LateReceiptsSettle
