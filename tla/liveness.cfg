SPECIFICATION FairSpec
CONSTANTS
    n1 = n1
    short = short
    arnA = arnA
    arnB = arnB
    arnC = arnC
    Absent = Absent
    Malformed = Malformed
    Names = {n1}
    ARNs = {arnA, arnB, arnC}
    ShortNames = {}
    BaseRoleARN <- MCBaseRoleARN
    Durations = {0}
    RoleLabels <- MCNoRoleLabels
    MaxUID = 2
    MaxGeneration = 2
    MaxTime = 2
    MaxEdits = 4
    RefreshLimit = 1
    DefaultSession = 2
    Trusted = {arnA}
    TooDeep = {arnC}
    MaxFaults = 1
    ManualSecretEdits = TRUE
PROPERTIES
    RolesGetServed
    OrphansGetRemoved
