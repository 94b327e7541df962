SPECIFICATION Spec
CONSTANTS
    Interval = 2
    RefreshLimit = 11
    Sessions = {11, 17}
    MaxRound = 2
    MaxFailures = 1
INVARIANTS
    TimingInv
    NeverExpired
    NoRefreshEveryRound
