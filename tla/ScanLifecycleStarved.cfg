SPECIFICATION FairSpec
CONSTANTS
    Ids <- MCIds
    Legacy = {}
    Keep = 2
    Steps = 1
    MaxStarts = 4
    MaxFaults = 1
PROPERTIES
    AdvancesByItself
CHECK_DEADLOCK FALSE
