SPECIFICATION Spec
CONSTANTS
    Assignments = {"A=1"}
    Quoted = {"q'"}
    AliasNames = {"a", "b"}
    NoAlias = NoAlias
    AliasSeenMax = 3
    AliasBudget = 5
    Files <- MCFiles
    Programs <- MCPrograms
    External <- MCExternal
    Number <- MCNumber
    Definitions <- MCDefinitions
    Unopenable = {"/"}
    MaxPipeline = 7
    MaxProcs = 8
    MaxInterrupts = 2
    ParseTokens <- Parse
    ExpandAliases <- AliasExpandTokens
    Wanted <- MeaningByParts
    WantedOfLines <- LinesByParts
INVARIANTS
    TypeOK
    RunsAsWritten
    ReadsInnermost
    AliasesResolved
