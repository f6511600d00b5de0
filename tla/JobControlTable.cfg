SPECIFICATION Spec
CONSTANTS
    MaxPid = 2
    MaxStages = 2
    Interactive = TRUE
    Outside = {"stop", "continue", "leave", "interrupt", "fork"}
INVARIANTS
    TypeOK
    CurrentIsTracked
    StatusFromFlags
    NoChildLost
    DeathsRecorded
    StopsRecorded
    TerminalFollowsWait
    NotifiedWasShown
PROPERTIES
    FreedWhenFinished
