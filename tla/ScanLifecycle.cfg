SPECIFICATION FairSpec
CONSTANTS
    Ids <- MCIds
    Legacy = {2}
    Keep = 2
    Steps = 1
    MaxStarts = 4
    MaxFaults = 2
INVARIANTS
    OneIncarnation
    StartedLoads
PROPERTIES
    KeepsAtMost
    
CHECK_DEADLOCK FALSE
