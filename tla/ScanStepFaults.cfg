SPECIFICATION Spec
CONSTANTS
    root = root
    sub = sub
    link = link
    a = a
    b = b
    c = c
    Dirs <- MCDirs
    Files <- MCFiles
    Root = root
    SubDirs <- MCSubDirs
    FilesIn <- MCFilesIn
    Barred <- MCBarred
    Batteries <- MCBatteries
    Findings = {a}
    Estimate <- MCEstimate
    MaxFiles = {2, 4}
    MaxExamined = 2
    MaxCalls = 3
    RetryCalls = 2
    CursorCap = 2
    JournalCap = 20
    Outcomes = {"unavailable", "invalid", "auth"}
    MaxFaults = 2
    MaxEdits = 0
    MaxMisses = 1
INVARIANTS
    TypeOK
    NothingLost
    CompleteHasEvidence
    CountersAgree
PROPERTIES
    ImplementsAssessment
CHECK_DEADLOCK FALSE
