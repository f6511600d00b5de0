SPECIFICATION Spec
CONSTANTS
    Width = 5
    Char <- MCChar
    Cases <- MCCases
    Outputs <- MCOutputs
    Statuses = {0, 1}
    UserDirs <- MCUserDirs
    Worth <- TreeWorth
    Show <- TreeText
INVARIANTS
    TypeOK
    ExpandsAsWritten
    SplitsByRule
    QuotedStays
PROPERTIES
    AmbiguousIsRefused
    EveryStepAdvances
