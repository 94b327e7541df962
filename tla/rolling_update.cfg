SPECIFICATION FairSpec
CONSTANTS
    n1 = n1
    arnA = arnA
    arnB = arnB
    Absent = Absent
    Malformed = Malformed
    Names = {n1}
    ARNs = {arnA, arnB}
    ShortNames = {}
    BaseRoleARN <- MCBaseRoleARN
    Durations = {0}
    RoleLabels <- MCNoRoleLabels
    MaxUID = 2
    MaxGeneration = 2
    MaxTime = 0
    MaxEdits = 3
    RefreshLimit = 1
    DefaultSession = 1
    Trusted = {arnA, arnB}
    TooDeep = {}
    MaxFaults = 0
    ManualSecretEdits = FALSE
INVARIANTS
    SharedSecretHoldsReferencedRole
    BothInv
PROPERTIES
    NoRollbackByTheOther
    ForeignSecretsUntouchedByBoth
    BothDeleteOnlyOrphans
    NewServesRoles
    NewRemovesOrphans
