SPECIFICATION FairSpec
CONSTANTS
    MaxPid = 2
    MaxStages = 2
    Interactive = TRUE
    Outside = {"stop"}
PROPERTIES
    NeverHangs
    FinishedJobsLeave
