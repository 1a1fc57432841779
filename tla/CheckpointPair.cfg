SPECIFICATION Spec
CONSTANTS
    s1 = s1
    s2 = s2
    big = big
    None = None
    States <- MCStates
    Oversize <- MCOversize
    MaxGen = 5
INVARIANTS
    AckedSurvives
PROPERTIES
    NewestUntouched
    ImplementsCell
