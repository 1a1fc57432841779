SPECIFICATION FairSpec
CONSTANTS
    root = root
    sub = sub
    link = link
    a = a
    b = b
    c = c
    Dirs <- MCDirs
    Files <- MCFiles
    Root = root
    SubDirs <- MCSubDirs
    FilesIn <- MCFilesIn
    Barred <- MCBarred
    Batteries <- MCBatteries
    Findings = {a}
    Estimate <- MCEstimate
    MaxFiles = {4}
    MaxExamined = 2
    MaxCalls = 3
    RetryCalls = 2
    CursorCap = 3
    JournalCap = 24
    Outcomes = {"partial", "unavailable", "exhausted", "invalid", "auth", "denied"}
    MaxFaults = 0
    MaxEdits = 1
    MaxMisses = 2
INVARIANTS
    AnsweredOnce
PROPERTIES
    EventuallyEnds
CHECK_DEADLOCK FALSE
