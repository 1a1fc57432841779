SPECIFICATION ReviewSpec
CONSTANTS
    root = root
    sub = sub
    a = a
    b = b
    Dirs = {root, sub}
    Files = {a, b}
    Root = root
    SubDirs <- MCSubDirs
    FilesIn <- MCFilesIn
    Barred <- MCBarred
    Batteries <- MCBatteries
    Findings = {a}
    Estimate <- MCEstimate
    MaxFiles = {3}
    MaxExamined = 2
    MaxCalls = 4
    RetryCalls = 2
    CursorCap = 3
    JournalCap = 7
    Outcomes = {"unavailable"}
    MaxFaults = 1
    MaxEdits = 1
    MaxMisses = 1
    Names <- MCNames
    ReportCap = 6
    Determinate = {a, b}
    Severity <- MCSeverity
    Oversize = {a}
    Length <- MCLength
    PageBytes = 8
    Limit = 2
INVARIANTS
    CompleteIsWhole
    GapsTellAll
    PagesAreOneReport
CHECK_DEADLOCK FALSE
