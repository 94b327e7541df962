SPECIFICATION FairSpec
CONSTANTS
    Interval = 2
    FailureThreshold = 2
    Probing = {TRUE, FALSE}
    MaxEvents = 2
INVARIANTS
    ProcessInv
PROPERTIES
    NextRefreshNotRaced
    YoungProcessPasses
    StuckRunGetsRestarted
    CancelEndsLoops
