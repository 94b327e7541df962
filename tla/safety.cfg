SPECIFICATION HistorySpec
CONSTANTS
    n1 = n1
    short = short
    arnA = arnA
    arnB = arnB
    Absent = Absent
    Malformed = Malformed
    Names = {n1}
    ARNs = {arnA, arnB}
    ShortNames = {short}
    BaseRoleARN <- MCBaseRoleARN
    Durations = {0}
    RoleLabels <- MCRoleLabels
    MaxUID = 2
    MaxGeneration = 2
    MaxTime = 1
    MaxEdits = 4
    RefreshLimit = 1
    DefaultSession = 1
    Trusted = {arnA, arnB}
    TooDeep = {}
    MaxFaults = 1
    ManualSecretEdits = TRUE
INVARIANTS
    IInv
    UpToDateSecretHoldsReferencedRole
    WrittenSecretsStaySelected
    SecretsHoldAVersion
PROPERTIES
    DeletesOnlyOrphans
    ForeignSecretsUntouched
    NoGenerationRollback
    ImplementsIssuedCredentials
    ControllerKeepsPromise
