SPECIFICATION Spec
CONSTANTS
    MaxPid = 3
    MaxStages = 3
    Interactive = TRUE
    Outside = {"leave", "interrupt", "fork"}
INVARIANTS
    IdsFollowList
    GroupIsJob
PROPERTIES
    WaitResult
