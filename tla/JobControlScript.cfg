SPECIFICATION Spec
CONSTANTS
    MaxPid = 2
    MaxStages = 2
    Interactive = FALSE
    Outside = {"stop", "continue", "leave", "fork"}
INVARIANTS
    NoChildLost
