SPECIFICATION FairSpec
CONSTANTS
    Interval = 2
    FailureThreshold = 2
    Probing = {FALSE}
    MaxEvents = 0
PROPERTIES
    RunRefreshesSecrets
