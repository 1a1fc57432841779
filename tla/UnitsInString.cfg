SPECIFICATION TextSpec
CONSTANTS
    Texts <- MCTexts
    Sizes = {3, 5}
    MinSize = 2
    RequestCap = 3
    Sources <- MCSources
    LineTexts <- MCLineTexts
    OptionLimit = 3
    Dirs <- MCDirs
    Names = {"f"}
    RuleFiles <- MCRuleFiles
    Excludes <- MCExcludes
    MaxExamined = 1
    MaxEdits = 2
INVARIANT
    NoUnitInString
CHECK_DEADLOCK FALSE
