SPECIFICATION Spec
CONSTANTS
    rec1 = rec1
    rec1b = rec1b
    rec2 = rec2
    cover = cover
    huge = huge
    f = f
    none = none
    Events <- MCEvents
    Size <- MCSize
    RefOf <- MCRefOf
    IdOf <- MCIdOf
    NoRef = none
    EventBytes = 3
    Limit = 7
    ReportBytes = 3
INVARIANTS
    TypeOK
    AckedKept
    WithinLimit
    SavedOnBoundary
    LoadSeesAcked
    ReportIsHonest
PROPERTIES
    TornIsFinal
    ImplementsLog
