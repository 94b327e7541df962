SPECIFICATION FairSpec
CONSTANTS
    n1 = n1
    n2 = n2
    p1 = p1
    r1 = r1
    r2 = r2
    Roles = {r1, r2}
    Namespaces = {n1, n2}
    Pods = {p1}
    Unprefixed <- MCUnprefixed
    Absent = Absent
    Malformed = Malformed
    RefreshLimit = 1
    Session = 1
    Grantable = {r1}
    MaxTime = 1
    MaxEvents = 2
    MaxFaults = 1
INVARIANTS
    OwnCredentials
    SecretsInv
PROPERTIES
    CreatesOnlyUsed
    OthersUntouched
    UnusedSecretsGetRemoved
