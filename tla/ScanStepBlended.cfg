SPECIFICATION Spec
CONSTANTS
    root = root
    sub = sub
    link = link
    a = a
    b = b
    c = c
    Dirs <- MCDirs
    Files <- MCFiles
    Root = root
    SubDirs <- MCSubDirs
    FilesIn <- MCFilesInOne
    Barred <- MCBarred
    Batteries <- MCBatteries
    Findings = {a}
    Estimate <- MCEstimate
    MaxFiles = {4}
    MaxExamined = 2
    MaxCalls = 3
    RetryCalls = 2
    CursorCap = 3
    JournalCap = 20
    Outcomes = {"unavailable"}
    MaxFaults = 1
    MaxEdits = 1
    MaxMisses = 1
INVARIANTS
    NotBlended
CHECK_DEADLOCK FALSE
