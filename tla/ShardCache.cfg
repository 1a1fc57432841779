SPECIFICATION Spec
CONSTANTS
    k1 = k1
    k2 = k2
    a1 = a1
    a2 = a2
    a3 = a3
    Keys <- MCKeys
    Answers <- MCAnswers
    LineBytes <- MCLineBytes
    Limits = {4, 8}
    MaxFaults = 2
SYMMETRY AnswersAlike
INVARIANTS
    NeverStale
    SameAfterRestart
    DamageBounded
PROPERTIES
    HalfFree
