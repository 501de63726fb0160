SPECIFICATION FairSpec
CONSTANTS
    Job = {stl, revision}
    Native = {revision}
    None = None
    MaxCrashes = 1
    MaxFaults = 1
PROPERTIES
    JobsSettle
    UnconfirmedSettles
