SPECIFICATION Spec
CONSTANTS
    MaxFd = 9
    MaxStages = 3
    MaxDepth = 2
    Lists <- MCLists
    StageLists <- MCStageLists
    StartClosed = {0, 1}
INVARIANTS
    TypeOK
    PipesEnd
    StagesConnected
PROPERTIES
    ScopesUndone
